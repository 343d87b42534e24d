---- MODULE EventManagerProofs ----
(***************************************************************************)
(* Proofs about the event manager: the observer registry, for any threads, *)
(* observers, entries and application, and, at the end of the module, its  *)
(* synchronous events (SyncEvent), for any number of calls.                *)
(*                                                                         *)
(* TypeOK and RegistryInvariant are inductive together.  The parts follow  *)
(* an entry (OwnedOnce: which list or hand holds it), a thread inside a    *)
(* registration (CallsOK, EntriesOK), the event thread (EventOK), the      *)
(* reference counts (CountsOK) and the delivery walk (WalkOK).             *)
(***************************************************************************)
EXTENDS EventManager, SyncEvent, TLAPS, FiniteSetTheorems, WellFoundedInduction

----------------------------------------------------------------------------
(* Sequences, and functions defined by recursion over a number *)

(* Every nonempty set of natural numbers has a least element. *)
LEMMA LeastExists ==
    ASSUME NEW S \in SUBSET Nat, S # {}
    PROVE  \E x \in S : \A y \in S : x <= y
<1> DEFINE R == OpToRel(<, Nat)
<1>1. IsWellFoundedOn(R, Nat)
  BY NatLessThanWellFounded
<1>2. ASSUME NEW y \in Nat, NEW x \in Nat, y < x PROVE <<y, x>> \in R
  BY <1>2 DEF OpToRel
<1> HIDE DEF R
<1>3. PICK x \in S : \A y \in S : ~ (<<y, x>> \in R)
  BY <1>1, WFMin
<1>4. \A y \in S : ~ (y < x)
  BY <1>2, <1>3
<1>5. QED
  BY <1>3, <1>4

(* A set of numbers up to N that has 0 and with a number the next one has all: the form *)
(* in which induction is used below.                                                   *)
LEMMA AllUpTo ==
    ASSUME NEW N \in Nat, NEW G \in SUBSET (0 .. N), 0 \in G,
           \A n \in 1 .. N : n - 1 \in G => n \in G
    PROVE  G = 0 .. N
<1> SUFFICES ASSUME (0 .. N) \ G # {} PROVE FALSE
  OBVIOUS
<1> DEFINE S == (0 .. N) \ G
<1>1. S \in SUBSET Nat /\ S # {}
  OBVIOUS
<1> HIDE DEF S
<1>2. PICK x \in S : \A y \in S : x <= y
  BY <1>1, LeastExists
<1>3. x \in 0 .. N /\ x \notin G /\ x # 0
  BY <1>2 DEF S
<1>4. x - 1 \in 0 .. N /\ x \in 1 .. N
  BY <1>3
<1>5. x - 1 \in G
  <2>1. CASE x - 1 \in S
    BY <1>2, <1>3, <1>4, <2>1
  <2>2. CASE x - 1 \notin S
    BY <1>4, <2>2 DEF S
  <2>3. QED
    BY <2>1, <2>2
<1>6. QED
  BY <1>3, <1>4, <1>5

HasIterate(V, base, N, step) ==
    \E f \in [0 .. N -> V] : f[0] = base /\ \A n \in 1 .. N : f[n] = step[n][f[n - 1]]

(* A value and a step for each number define a function by recursion. *)
LEMMA Iterated ==
    ASSUME NEW V, NEW base \in V, NEW N \in Nat, NEW step \in [1 .. N -> [V -> V]]
    PROVE  HasIterate(V, base, N, step)
<1> DEFINE Good(f, m) == f[0] = base /\ \A n \in 1 .. m : f[n] = step[n][f[n - 1]]
           G == {m \in 0 .. N : \E f \in [0 .. N -> V] : Good(f, m)}
<1>1. 0 \in G
  <2> DEFINE g == [i \in 0 .. N |-> base]
  <2>1. g \in [0 .. N -> V] /\ g[0] = base /\ 1 .. 0 = {} /\ 0 \in 0 .. N
    OBVIOUS
  <2> HIDE DEF g
  <2>2. Good(g, 0)
    BY <2>1
  <2>3. QED
    BY <2>1, <2>2
<1>2. ASSUME NEW m \in 1 .. N, m - 1 \in G PROVE m \in G
  <2>1. PICK f \in [0 .. N -> V] : Good(f, m - 1)
    BY <1>2
  <2> DEFINE g == [i \in 0 .. N |-> IF i = m THEN step[m][f[m - 1]] ELSE f[i]]
  <2>2. m - 1 \in 0 .. N /\ step[m] \in [V -> V] /\ f[m - 1] \in V
    OBVIOUS
  <2>3. g \in [0 .. N -> V]
    BY <2>2
  <2>4. g[0] = base
    BY <2>1
  <2>5. ASSUME NEW n \in 1 .. m PROVE g[n] = step[n][g[n - 1]]
    <3>1. n \in 0 .. N /\ n - 1 \in 0 .. N /\ n - 1 # m
      OBVIOUS
    <3>2. g[n - 1] = f[n - 1]
      BY <3>1
    <3>3. CASE n = m
      BY <3>1, <3>2, <3>3
    <3>4. CASE n # m
      <4>1. n \in 1 .. (m - 1) /\ g[n] = f[n]
        BY <3>1, <3>4
      <4>2. QED
        BY <2>1, <3>2, <4>1
    <3>5. QED
      BY <3>3, <3>4
  <2> HIDE DEF g
  <2>6. Good(g, m)
    BY <2>4, <2>5
  <2>7. QED
    BY <2>3, <2>6
<1>3. N \in G
  <2>1. G \in SUBSET (0 .. N) /\ \A n \in 1 .. N : n - 1 \in G => n \in G
    BY <1>2
  <2> HIDE DEF G
  <2>2. G = 0 .. N
    BY <1>1, <2>1, AllUpTo
  <2>3. QED
    BY <2>2
<1>4. QED
  BY <1>3 DEF HasIterate

(* The length and the domain of a sequence. *)
LEMMA SeqShape ==
    ASSUME NEW S, NEW s \in Seq(S)
    PROVE  /\ Len(s) \in Nat /\ DOMAIN s = 1 .. Len(s) /\ (s = <<>> <=> Len(s) = 0)
           /\ \A i \in 1 .. Len(s) : s[i] \in S
           /\ s # <<>> => 1 \in 1 .. Len(s) /\ Head(s) = s[1]
  OBVIOUS

(* Appending to a sequence. *)
LEMMA Appended ==
    ASSUME NEW S, NEW s \in Seq(S), NEW x \in S
    PROVE  /\ Append(s, x) \in Seq(S) /\ Len(Append(s, x)) = Len(s) + 1
           /\ \A i \in 1 .. Len(s) : Append(s, x)[i] = s[i]
           /\ Append(s, x)[Len(s) + 1] = x
  OBVIOUS

(* Joining two sequences. *)
LEMMA Joined ==
    ASSUME NEW S, NEW s \in Seq(S), NEW t \in Seq(S)
    PROVE  /\ s \o t \in Seq(S) /\ Len(s \o t) = Len(s) + Len(t)
           /\ \A i \in 1 .. Len(s) + Len(t) :
                  (s \o t)[i] = IF i <= Len(s) THEN s[i] ELSE t[i - Len(s)]
  OBVIOUS

----------------------------------------------------------------------------
(* The walk that picks entries of a list *)

(* r is s with entries left out, in the same order. *)
SubList(r, s) ==
    \E f \in [1 .. Len(r) -> 1 .. Len(s)] :
        /\ \A i \in 1 .. Len(r) : r[i] = s[f[i]]
        /\ \A i, j \in 1 .. Len(r) : i < j => f[i] < f[j]

(* r is what is in S of s, in the same order. *)
Picks(r, s, S) ==
    /\ \A i \in 1 .. Len(r) : r[i] \in S
    /\ \A j \in 1 .. Len(s) : s[j] \in S => \E i \in 1 .. Len(r) : r[i] = s[j]
    /\ SubList(r, s)

(* The recursion of Among, as equations. *)
AmongByStep(E, s, S) ==
    \E picked \in [0 .. Len(s) -> Seq(E)] :
        /\ picked[0] = <<>>
        /\ \A n \in 1 .. Len(s) : picked[n] = IF s[n] \notin S THEN picked[n - 1]
                                            ELSE Append(picked[n - 1], s[n])
        /\ Among(s, S) = picked[Len(s)]

LEMMA AmongEquations ==
    ASSUME NEW E, NEW s \in Seq(E), NEW S
    PROVE  AmongByStep(E, s, S)
<1> DEFINE N == Len(s)
           Step(n, v) == IF s[n] \notin S THEN v ELSE Append(v, s[n])
           Body(f) == [n \in 0 .. N |-> IF n = 0 THEN <<>>
                                        ELSE IF s[n] \notin S THEN f[n - 1]
                                        ELSE Append(f[n - 1], s[n])]
           picked == CHOOSE f : f = Body(f)
           step == [n \in 1 .. N |-> [v \in Seq(E) |-> Step(n, v)]]
<1>1. N \in Nat /\ \A n \in 1 .. N : s[n] \in E
  OBVIOUS
<1>2. Among(s, S) = picked[N]
  BY DEF Among
<1>3. <<>> \in Seq(E)
  OBVIOUS
<1>4. ASSUME NEW n \in 1 .. N, NEW v \in Seq(E) PROVE Step(n, v) \in Seq(E)
  <2> HIDE DEF N
  <2>1. s[n] \in E
    BY <1>1
  <2> HIDE <1>1 
  <2> QED
    BY <2>1, Appended
<1> HIDE DEF Step, N
<1>5. step \in [1 .. N -> [Seq(E) -> Seq(E)]]
  BY <1>4
<1>6. PICK g \in [0 .. N -> Seq(E)] :
          g[0] = <<>> /\ \A n \in 1 .. N : g[n] = step[n][g[n - 1]]
  <2> DEFINE V == Seq(E)
             none == <<>>
  <2>1. none \in V /\ step \in [1 .. N -> [V -> V]]
    BY <1>3, <1>5
  <2> HIDE DEF V, none, step
  <2>2. HasIterate(V, none, N, step)
    BY <1>1, <2>1, Iterated
  <2>3. QED
    BY <2>2 DEF V, none, HasIterate
<1>7. ASSUME NEW n \in 1 .. N PROVE n - 1 \in 0 .. N /\ g[n] = Step(n, g[n - 1])
  <2>1. n - 1 \in 0 .. N
    BY <1>1
  <2>2. g[n - 1] \in Seq(E)
    BY <2>1
  <2> HIDE DEF Body, picked
  <2>3. step[n][g[n - 1]] = Step(n, g[n - 1])
    BY <2>2
  <2>4. QED
    BY <1>6, <2>1, <2>3
<1>8. g = Body(g)
  <2>1. ASSUME NEW n \in 0 .. N PROVE g[n] = Body(g)[n]
    <3>1. CASE n = 0
      BY <1>6, <3>1
    <3>2. CASE n # 0
      <4>1. n \in 1 .. N
        BY <1>1, <3>2
      <4>2. QED
        BY <1>7, <3>2, <4>1 DEF Step
    <3>3. QED
      BY <3>1, <3>2
  <2> HIDE DEF Body
  <2>2. Body(g) = [n \in 0 .. N |-> Body(g)[n]]
    BY DEF Body
  <2>3. QED
    BY <2>1, <2>2
<1>9. picked = Body(picked)
  <2> HIDE DEF Body
  <2> QED
    BY <1>8
<1> HIDE DEF picked
<1>10. picked[0] = <<>>
  BY <1>1, <1>9
<1>11. ASSUME NEW n \in 1 .. N PROVE picked[n] = Step(n, picked[n - 1])
  <2>1. n \in 0 .. N /\ n # 0
    BY <1>1
  <2>2. picked[n] = Body(picked)[n]
    BY <1>9
  <2>3. QED
    BY <2>1, <2>2 DEF Step
<1>12. picked \in [0 .. N -> Seq(E)]
  <2> DEFINE G == {n \in 0 .. N : picked[n] \in Seq(E)}
  <2>1. 0 \in G
    <3>1. 0 \in 0 .. N
      BY <1>1
    <3>2. QED
      BY <1>3, <1>10, <3>1
  <2>2. ASSUME NEW n \in 1 .. N, n - 1 \in G PROVE n \in G
    BY <1>1, <1>4, <1>11, <2>2
  <2>3. G = 0 .. N
    <3>1. G \in SUBSET (0 .. N)
      OBVIOUS
    <3> HIDE DEF G
    <3>2. QED
      BY <1>1, <2>1, <2>2, <3>1, AllUpTo
  <2>4. DOMAIN picked = 0 .. N /\ picked = [n \in 0 .. N |-> picked[n]]
    <3>1. Body(picked) = [n \in 0 .. N |-> Body(picked)[n]]
      OBVIOUS
    <3> HIDE DEF Body
    <3> QED
      BY <1>9, <3>1
  <2>5. QED
    BY <2>3, <2>4
<1>13. QED
  BY <1>2, <1>10, <1>11, <1>12 DEF N, Step, AmongByStep

(* Among keeps the entries of S in their order. *)
LEMMA AmongIs ==
    ASSUME NEW E, NEW s \in Seq(E), NEW S
    PROVE  Among(s, S) \in Seq(E) /\ Picks(Among(s, S), s, S)
<1> DEFINE N == Len(s)
           Part(k, n) ==
               /\ k \in Seq(E)
               /\ \A i \in 1 .. Len(k) : k[i] \in S
               /\ \A j \in 1 .. n : s[j] \in S => \E i \in 1 .. Len(k) : k[i] = s[j]
               /\ \E f \in [1 .. Len(k) -> 1 .. n] :
                      /\ \A i \in 1 .. Len(k) : k[i] = s[f[i]]
                      /\ \A i, j \in 1 .. Len(k) : i < j => f[i] < f[j]
<1>1. N \in Nat /\ \A n \in 1 .. N : s[n] \in E
  OBVIOUS
<1>2. PICK picked \in [0 .. N -> Seq(E)] :
          /\ picked[0] = <<>>
          /\ \A n \in 1 .. N : picked[n] = IF s[n] \notin S THEN picked[n - 1]
                                         ELSE Append(picked[n - 1], s[n])
          /\ Among(s, S) = picked[N]
  <2>1. AmongByStep(E, s, S)
    BY AmongEquations
  <2>2. QED
    BY <2>1 DEF AmongByStep
<1> HIDE DEF N
<1> DEFINE G == {n \in 0 .. N : Part(picked[n], n)}
<1>3. 0 \in G
  <2>1. Len(picked[0]) = 0 /\ 1 .. 0 = {} /\ picked[0] \in Seq(E) /\ 0 \in 0 .. N
    BY <1>1, <1>2
  <2>2. [i \in {} |-> 0] \in [1 .. 0 -> 1 .. 0]
    BY <2>1
  <2>3. QED
    BY <2>1, <2>2
<1>4. ASSUME NEW n \in 1 .. N, n - 1 \in G PROVE n \in G
  <2> DEFINE k == picked[n - 1]
             m == Len(k)
  <2>1. n \in 0 .. N /\ n \in Nat /\ n - 1 \in Nat /\ n - 1 \in 0 .. N
    BY <1>1
  <2>2. Part(k, n - 1)
    BY <1>4
  <2>3. k \in Seq(E) /\ m \in Nat /\ s[n] \in E
    BY <1>1, <2>2
  <2>4. PICK f \in [1 .. m -> 1 .. n - 1] :
            /\ \A i \in 1 .. m : k[i] = s[f[i]]
            /\ \A i, j \in 1 .. m : i < j => f[i] < f[j]
    BY <2>2
  <2>5. CASE s[n] \notin S
    <3>1. picked[n] = k
      BY <1>2, <2>5
    <3> HIDE DEF k, m
    <3>2. f \in [1 .. m -> 1 .. n]
      BY <2>1, <2>3
    <3>3. \A j \in 1 .. n : s[j] \in S => \E i \in 1 .. m : k[i] = s[j]
      <4>1. \A j \in 1 .. n : j = n \/ j \in 1 .. n - 1
        BY <2>1
      <4>2. QED
        BY <2>2, <2>5, <4>1 DEF m
    <3>4. Part(k, n)
      BY <2>2, <2>4, <3>2, <3>3 DEF m
    <3>5. QED
      BY <2>1, <3>1, <3>4
  <2>6. CASE s[n] \in S
    <3> DEFINE h == Append(k, s[n])
               g == [i \in 1 .. m + 1 |-> IF i = m + 1 THEN n ELSE f[i]]
    <3>1. picked[n] = h
      BY <1>2, <2>6
    <3>2. /\ h \in Seq(E) /\ Len(h) = m + 1 /\ h[m + 1] = s[n]
          /\ \A i \in 1 .. m : h[i] = k[i]
      <4> HIDE DEF k
      <4> QED
        BY <2>3, Appended
    <3> HIDE DEF h, k, m
    <3>3. \A i \in 1 .. m + 1 : i = m + 1 \/ i \in 1 .. m
      BY <2>3
    <3>4. \A i \in 1 .. m : i \in 1 .. m + 1 /\ i # m + 1 /\ f[i] \in 1 .. n - 1
      BY <2>3
    <3>5. m + 1 \in 1 .. m + 1 /\ \A j \in 1 .. n - 1 : j \in 1 .. n /\ j < n
      BY <2>1, <2>3
    <3>6. g \in [1 .. m + 1 -> 1 .. n]
      BY <2>1, <3>3, <3>4, <3>5
    <3>7. g[m + 1] = n /\ \A i \in 1 .. m : g[i] = f[i]
      BY <3>4, <3>5
    <3> HIDE DEF g
    <3>8. \A i \in 1 .. m + 1 : h[i] = s[g[i]]
      BY <2>4, <3>2, <3>3, <3>7
    <3>9. \A i, j \in 1 .. m + 1 : i < j => g[i] < g[j]
      <4> SUFFICES ASSUME NEW i \in 1 .. m + 1, NEW j \in 1 .. m + 1, i < j PROVE g[i] < g[j]
        OBVIOUS
      <4>1. i \in 1 .. m
        BY <2>3, <3>3
      <4>2. CASE j = m + 1
        BY <3>4, <3>5, <3>7, <4>1, <4>2
      <4>3. CASE j \in 1 .. m
        BY <2>4, <3>7, <4>1, <4>3
      <4>4. QED
        BY <3>3, <4>2, <4>3
    <3>10. \A i \in 1 .. m + 1 : h[i] \in S
      BY <2>2, <2>6, <3>2, <3>3 DEF m
    <3>11. ASSUME NEW j \in 1 .. n, s[j] \in S PROVE \E i \in 1 .. m + 1 : h[i] = s[j]
      <4>1. CASE j = n
        BY <3>2, <3>5, <4>1
      <4>2. CASE j \in 1 .. n - 1
        BY <2>2, <3>2, <3>4, <3>11, <4>2 DEF m
      <4>3. QED
        BY <2>1, <4>1, <4>2
    <3>12. Part(h, n)
      BY <3>2, <3>6, <3>8, <3>9, <3>10, <3>11
    <3>13. QED
      BY <2>1, <3>1, <3>12
  <2>7. QED
    BY <2>5, <2>6
<1>5. N \in G
  <2>1. G \in SUBSET (0 .. N)
    OBVIOUS
  <2> HIDE DEF G
  <2>2. G = 0 .. N
    BY <1>1, <1>3, <1>4, <2>1, AllUpTo
  <2>3. QED
    BY <1>1, <2>2
<1>6. Part(picked[N], N)
  BY <1>5
<1>7. Part(Among(s, S), N)
  BY <1>2, <1>6
<1>8. QED
  BY <1>7, Zenon DEF Picks, SubList, N

----------------------------------------------------------------------------
(* Lists of entries *)

(* The members of a list, by position. *)
LEMMA MembersAt ==
    ASSUME NEW E, NEW s \in Seq(E)
    PROVE  /\ DOMAIN s = 1 .. Len(s) /\ Len(s) \in Nat
           /\ \A k \in 1 .. Len(s) : s[k] \in ToSet(s) /\ s[k] \in E
           /\ \A x \in ToSet(s) : x \in E /\ \E k \in 1 .. Len(s) : s[k] = x
<1>1. DOMAIN s = 1 .. Len(s) /\ Len(s) \in Nat /\ \A k \in 1 .. Len(s) : s[k] \in E
  BY SeqShape
<1>2. QED
  BY <1>1 DEF ToSet

(* What is picked from a list. *)
LEMMA PickedFrom ==
    ASSUME NEW E, NEW s \in Seq(E), NEW S
    PROVE  /\ Among(s, S) \in Seq(E)
           /\ ToSet(Among(s, S)) = ToSet(s) \cap S
           /\ Injective(s) => Injective(Among(s, S))
<1> DEFINE r == Among(s, S)
<1>1. r \in Seq(E) /\ Picks(r, s, S)
  BY AmongIs
<1> HIDE DEF r
<1>2. PICK f \in [1 .. Len(r) -> 1 .. Len(s)] :
          /\ \A i \in 1 .. Len(r) : r[i] = s[f[i]]
          /\ \A i, j \in 1 .. Len(r) : i < j => f[i] < f[j]
  BY <1>1 DEF Picks, SubList
<1>3. /\ DOMAIN s = 1 .. Len(s) /\ Len(s) \in Nat
      /\ \A k \in 1 .. Len(s) : s[k] \in ToSet(s)
      /\ \A x \in ToSet(s) : \E k \in 1 .. Len(s) : s[k] = x
  BY MembersAt
<1>4. /\ DOMAIN r = 1 .. Len(r) /\ Len(r) \in Nat
      /\ \A k \in 1 .. Len(r) : r[k] \in ToSet(r)
      /\ \A x \in ToSet(r) : \E k \in 1 .. Len(r) : r[k] = x
  BY <1>1, MembersAt
<1>5. ASSUME NEW x \in ToSet(r) PROVE x \in ToSet(s) /\ x \in S
  <2>1. PICK k \in 1 .. Len(r) : r[k] = x
    BY <1>4
  <2>2. r[k] = s[f[k]] /\ f[k] \in 1 .. Len(s)
    BY <1>2
  <2>3. QED
    BY <1>1, <1>3, <2>1, <2>2 DEF Picks
<1>6. \A x \in ToSet(s) : x \in S => x \in ToSet(r)
  BY <1>1, <1>3, <1>4 DEF Picks
<1>7. ASSUME Injective(s), NEW j \in DOMAIN r, NEW k \in DOMAIN r, r[j] = r[k]
      PROVE  j = k
  <2>1. j \in 1 .. Len(r) /\ k \in 1 .. Len(r)
    BY <1>4
  <2>2. f[j] \in DOMAIN s /\ f[k] \in DOMAIN s /\ s[f[j]] = s[f[k]]
    BY <1>2, <1>3, <1>7, <2>1
  <2>3. f[j] = f[k]
    BY <1>7, <2>2 DEF Injective
  <2>4. ~(j < k) /\ ~(k < j)
    BY <1>2, <1>3, <2>1, <2>3
  <2>5. QED
    BY <1>4, <2>1, <2>4
<1>8. QED
  BY <1>1, <1>5, <1>6, <1>7 DEF r, Injective

(* Every observer of D has an entry after c in the list. *)
LaterIn(s, c, D, ob) ==
    \A j \in DOMAIN s : s[j] = c => \A o \in D : \E k \in DOMAIN s : k > j /\ ob[s[k]] = o

(* It stays so when only entries of others are taken out. *)
LEMMA LaterKept ==
    ASSUME NEW E, NEW s \in Seq(E), Injective(s), NEW S, NEW c, NEW D, NEW ob,
           LaterIn(s, c, D, ob), \A e \in ToSet(s) : ob[e] \in D => e \in S
    PROVE  LaterIn(Among(s, S), c, D, ob)
<1> SUFFICES ASSUME NEW j \in DOMAIN Among(s, S), Among(s, S)[j] = c, NEW o \in D
             PROVE  \E k \in DOMAIN Among(s, S) : k > j /\ ob[Among(s, S)[k]] = o
  BY DEF LaterIn
<1> DEFINE r == Among(s, S)
<1>1. r \in Seq(E) /\ Picks(r, s, S)
  BY AmongIs
<1>2. j \in DOMAIN r /\ r[j] = c
  OBVIOUS
<1> SUFFICES \E k \in DOMAIN r : k > j /\ ob[r[k]] = o
  OBVIOUS
<1> HIDE DEF r
<1>3. PICK f \in [1 .. Len(r) -> 1 .. Len(s)] :
          /\ \A i \in 1 .. Len(r) : r[i] = s[f[i]]
          /\ \A i, k \in 1 .. Len(r) : i < k => f[i] < f[k]
  BY <1>1 DEF Picks, SubList
<1>4. DOMAIN s = 1 .. Len(s) /\ Len(s) \in Nat /\ \A k \in 1 .. Len(s) : s[k] \in ToSet(s)
  BY MembersAt
<1>5. DOMAIN r = 1 .. Len(r) /\ Len(r) \in Nat
  BY <1>1, MembersAt
<1>6. f[j] \in DOMAIN s /\ s[f[j]] = c
  BY <1>2, <1>3, <1>4, <1>5
<1>7. PICK m \in DOMAIN s : m > f[j] /\ ob[s[m]] = o
  BY <1>6 DEF LaterIn
<1>8. s[m] \in S
  BY <1>4, <1>7
<1>9. PICK k \in 1 .. Len(r) : r[k] = s[m]
  BY <1>1, <1>4, <1>8 DEF Picks
<1>10. f[k] = m
  <2>1. f[k] \in DOMAIN s /\ s[f[k]] = s[m]
    BY <1>3, <1>4, <1>9
  <2>2. QED
    BY <2>1 DEF Injective
<1>11. ~(k < j) /\ k # j
  <2>1. j \in 1 .. Len(r) /\ f[j] \in 1 .. Len(s) /\ m \in 1 .. Len(s)
    BY <1>2, <1>4, <1>5, <1>6
  <2>2. ~(f[k] < f[j]) /\ f[k] # f[j]
    BY <1>4, <1>7, <1>10, <2>1
  <2>3. QED
    BY <1>3, <2>1, <2>2
<1>12. k > j /\ k \in DOMAIN r /\ ob[r[k]] = o
  BY <1>2, <1>5, <1>7, <1>9, <1>11
<1>13. QED
  BY <1>12

(* Two lists without a common entry, one after the other. *)
LEMMA JoinedLists ==
    ASSUME NEW E, NEW s \in Seq(E), NEW t \in Seq(E), Injective(s), Injective(t),
           ToSet(s) \cap ToSet(t) = {}
    PROVE  /\ s \o t \in Seq(E) /\ Injective(s \o t)
           /\ ToSet(s \o t) = ToSet(s) \cup ToSet(t)
<1> DEFINE r == s \o t
<1>1. /\ r \in Seq(E) /\ Len(r) = Len(s) + Len(t)
      /\ \A i \in 1 .. Len(s) + Len(t) :
             r[i] = IF i <= Len(s) THEN s[i] ELSE t[i - Len(s)]
  BY Joined
<1> HIDE DEF r
<1>2. /\ DOMAIN s = 1 .. Len(s) /\ Len(s) \in Nat
      /\ \A k \in 1 .. Len(s) : s[k] \in ToSet(s)
      /\ \A x \in ToSet(s) : \E k \in 1 .. Len(s) : s[k] = x
  BY MembersAt
<1>3. /\ DOMAIN t = 1 .. Len(t) /\ Len(t) \in Nat
      /\ \A k \in 1 .. Len(t) : t[k] \in ToSet(t)
      /\ \A x \in ToSet(t) : \E k \in 1 .. Len(t) : t[k] = x
  BY MembersAt
<1>4. /\ DOMAIN r = 1 .. Len(r) /\ Len(r) \in Nat
      /\ \A k \in 1 .. Len(r) : r[k] \in ToSet(r)
      /\ \A x \in ToSet(r) : \E k \in 1 .. Len(r) : r[k] = x
  BY <1>1, MembersAt
<1>5. ASSUME NEW i \in 1 .. Len(r)
      PROVE  \/ i \in 1 .. Len(s) /\ r[i] = s[i]
             \/ i - Len(s) \in 1 .. Len(t) /\ r[i] = t[i - Len(s)]
  <2>1. CASE i <= Len(s)
    BY <1>1, <1>2, <1>3, <2>1
  <2>2. CASE ~(i <= Len(s))
    BY <1>1, <1>2, <1>3, <2>2
  <2>3. QED
    BY <2>1, <2>2
<1>6. \A i \in 1 .. Len(s) : i \in 1 .. Len(r) /\ r[i] = s[i]
  BY <1>1, <1>2, <1>3
<1>7. ASSUME NEW i \in 1 .. Len(t)
      PROVE  i + Len(s) \in 1 .. Len(r) /\ r[i + Len(s)] = t[i]
  <2>1. i + Len(s) \in 1 .. Len(s) + Len(t) /\ ~(i + Len(s) <= Len(s))
        /\ (i + Len(s)) - Len(s) = i
    BY <1>2, <1>3
  <2>2. QED
    BY <1>1, <2>1
<1>8. ToSet(r) = ToSet(s) \cup ToSet(t)
  <2>1. \A x \in ToSet(r) : x \in ToSet(s) \cup ToSet(t)
    BY <1>2, <1>3, <1>4, <1>5
  <2>2. \A x \in ToSet(s) : x \in ToSet(r)
    BY <1>2, <1>4, <1>6
  <2>3. \A x \in ToSet(t) : x \in ToSet(r)
    BY <1>3, <1>4, <1>7
  <2>4. QED
    BY <2>1, <2>2, <2>3
<1>9. ASSUME NEW i \in 1 .. Len(r), NEW k \in 1 .. Len(r), r[i] = r[k] PROVE i = k
  <2>1. CASE i \in 1 .. Len(s) /\ r[i] = s[i] /\ k \in 1 .. Len(s) /\ r[k] = s[k]
    BY <1>2, <1>9, <2>1 DEF Injective
  <2>2. CASE /\ i - Len(s) \in 1 .. Len(t) /\ r[i] = t[i - Len(s)]
             /\ k - Len(s) \in 1 .. Len(t) /\ r[k] = t[k - Len(s)]
    <3>1. i - Len(s) = k - Len(s)
      BY <1>3, <1>9, <2>2 DEF Injective
    <3>2. QED
      BY <1>2, <1>4, <3>1
  <2>3. CASE i \in 1 .. Len(s) /\ r[i] = s[i] /\ k - Len(s) \in 1 .. Len(t) /\ r[k] = t[k - Len(s)]
    BY <1>2, <1>3, <1>9, <2>3
  <2>4. CASE k \in 1 .. Len(s) /\ r[k] = s[k] /\ i - Len(s) \in 1 .. Len(t) /\ r[i] = t[i - Len(s)]
    BY <1>2, <1>3, <1>9, <2>4
  <2>5. QED
    BY <1>5, <2>1, <2>2, <2>3, <2>4
<1>10. Injective(r)
  BY <1>4, <1>9 DEF Injective
<1>11. QED
  BY <1>1, <1>8, <1>10 DEF r

(* A new entry at the end of a list. *)
LEMMA AddedLast ==
    ASSUME NEW E, NEW s \in Seq(E), NEW e \in E, Injective(s), e \notin ToSet(s)
    PROVE  /\ Append(s, e) \in Seq(E) /\ Injective(Append(s, e))
           /\ ToSet(Append(s, e)) = ToSet(s) \cup {e}
           /\ \A k \in DOMAIN s : k \in DOMAIN Append(s, e) /\ Append(s, e)[k] = s[k]
           /\ \A k \in DOMAIN Append(s, e) : Append(s, e)[k] # e => k \in DOMAIN s
<1> DEFINE r == Append(s, e)
<1>1. /\ r \in Seq(E) /\ Len(r) = Len(s) + 1
      /\ (\A i \in 1 .. Len(s) : r[i] = s[i]) /\ r[Len(s) + 1] = e
  BY Appended
<1> HIDE DEF r
<1>2. /\ DOMAIN s = 1 .. Len(s) /\ Len(s) \in Nat
      /\ \A k \in 1 .. Len(s) : s[k] \in ToSet(s)
      /\ \A x \in ToSet(s) : \E k \in 1 .. Len(s) : s[k] = x
  BY MembersAt
<1>3. /\ DOMAIN r = 1 .. Len(s) + 1
      /\ \A k \in 1 .. Len(s) + 1 : r[k] \in ToSet(r)
      /\ \A x \in ToSet(r) : \E k \in 1 .. Len(s) + 1 : r[k] = x
  BY <1>1, MembersAt
<1>4. \A k \in 1 .. Len(s) + 1 : k \in 1 .. Len(s) \/ k = Len(s) + 1
  BY <1>2
<1>5. (\A k \in 1 .. Len(s) : k \in 1 .. Len(s) + 1) /\ Len(s) + 1 \in 1 .. Len(s) + 1
  BY <1>2
<1>6. ToSet(r) = ToSet(s) \cup {e}
  BY <1>1, <1>2, <1>3, <1>4, <1>5
<1>7. Injective(r)
  BY <1>1, <1>2, <1>3, <1>4 DEF Injective
<1>8. QED
  BY <1>1, <1>2, <1>3, <1>4, <1>5, <1>6, <1>7 DEF r

(* The head taken from a list. *)
LEMMA HeadTaken ==
    ASSUME NEW E, NEW s \in Seq(E), Injective(s), s # <<>>
    PROVE  /\ Tail(s) \in Seq(E) /\ Injective(Tail(s))
           /\ Head(s) \in ToSet(s) /\ Head(s) \in E
           /\ ToSet(Tail(s)) = ToSet(s) \ {Head(s)}
<1> DEFINE r == Tail(s)
<1>1. /\ r \in Seq(E) /\ Len(r) = Len(s) - 1 /\ Len(s) \in Nat /\ Len(s) # 0
      /\ Head(s) = s[1] /\ \A i \in 1 .. Len(r) : r[i] = s[i + 1]
  OBVIOUS
<1> HIDE DEF r
<1>2. /\ DOMAIN s = 1 .. Len(s)
      /\ \A k \in 1 .. Len(s) : s[k] \in ToSet(s) /\ s[k] \in E
      /\ \A x \in ToSet(s) : \E k \in 1 .. Len(s) : s[k] = x
  BY MembersAt
<1>3. /\ DOMAIN r = 1 .. Len(r)
      /\ \A k \in 1 .. Len(r) : r[k] \in ToSet(r)
      /\ \A x \in ToSet(r) : \E k \in 1 .. Len(r) : r[k] = x
  BY <1>1, MembersAt
<1>4. 1 \in 1 .. Len(s) /\ \A i \in 1 .. Len(r) : i + 1 \in 1 .. Len(s) /\ i + 1 # 1
  BY <1>1
<1>5. ASSUME NEW x \in ToSet(r) PROVE x \in ToSet(s) /\ x # s[1]
  <2>1. PICK k \in 1 .. Len(r) : r[k] = x
    BY <1>3
  <2>2. x = s[k + 1] /\ k + 1 \in DOMAIN s /\ 1 \in DOMAIN s /\ k + 1 # 1
    BY <1>1, <1>2, <1>4, <2>1
  <2>3. QED
    BY <1>2, <2>2 DEF Injective
<1>6. ASSUME NEW x \in ToSet(s), x # s[1] PROVE x \in ToSet(r)
  <2>1. PICK k \in 1 .. Len(s) : s[k] = x
    BY <1>2
  <2>2. k # 1
    BY <1>6, <2>1
  <2>3. k - 1 \in 1 .. Len(r) /\ (k - 1) + 1 = k
    BY <1>1, <2>2
  <2>4. QED
    BY <1>1, <1>3, <2>1, <2>3
<1>7. ASSUME NEW j \in 1 .. Len(r), NEW k \in 1 .. Len(r), r[j] = r[k] PROVE j = k
  <2>1. s[j + 1] = s[k + 1] /\ j + 1 \in DOMAIN s /\ k + 1 \in DOMAIN s
    BY <1>1, <1>2, <1>4, <1>7
  <2>2. j + 1 = k + 1
    BY <2>1 DEF Injective
  <2>3. QED
    BY <1>1, <2>2
<1>8. QED
  BY <1>1, <1>2, <1>3, <1>4, <1>5, <1>6, <1>7 DEF r, Injective

----------------------------------------------------------------------------
(* The registry *)

(* Find: an entry of the observer on the list, or None if there is none. *)
LEMMA FindIs ==
    ASSUME list \in Seq(Entries), NEW o
    PROVE  /\ Find(o) = None => \A e \in ToSet(list) : obs[e] # o
           /\ Find(o) # None => /\ Find(o) \in ToSet(list) /\ Find(o) \in Entries
                                /\ obs[Find(o)] = o
<1> DEFINE hits == {k \in DOMAIN list : obs[list[k]] = o}
           k == CHOOSE m \in hits : \A j \in hits : m <= j
<1>1. /\ DOMAIN list = 1 .. Len(list) /\ Len(list) \in Nat
      /\ \A m \in 1 .. Len(list) : list[m] \in ToSet(list) /\ list[m] \in Entries
      /\ \A e \in ToSet(list) : \E m \in 1 .. Len(list) : list[m] = e
  BY MembersAt
<1>2. Find(o) = IF hits = {} THEN None ELSE list[k]
  BY DEF Find
<1>3. CASE hits = {}
  <2>1. \A e \in ToSet(list) : obs[e] # o
    BY <1>1, <1>3
  <2>2. QED
    BY <1>2, <1>3, <2>1
<1>4. CASE hits # {}
  <2>1. hits \in SUBSET Nat
    BY <1>1
  <2> HIDE DEF hits
  <2>2. \E m \in hits : \A j \in hits : m <= j
    BY <1>4, <2>1, LeastExists
  <2>3. k \in hits
    BY <2>2
  <2>4. k \in DOMAIN list /\ obs[list[k]] = o
    BY <2>3 DEF hits
  <2> HIDE DEF k
  <2>5. list[k] \in ToSet(list) /\ list[k] \in Entries /\ list[k] # None
    BY <1>1, <2>4, EventManagerAssumption
  <2>6. QED
    BY <1>2, <1>4, <2>4, <2>5
<1>5. QED
  BY <1>3, <1>4

(* The two lists after entries have gone to the garbage. *)
LEMMA GarbageMade ==
    ASSUME TypeOK, OwnedOnce, NEW S, ToGarbage(S)
    PROVE  /\ list' \in Seq(Entries) /\ Injective(list)'
           /\ ToSet(list') = ToSet(list) \ S
           /\ garbage' \in Seq(Entries) /\ Injective(garbage)'
           /\ ToSet(garbage') = ToSet(garbage) \cup (ToSet(list) \cap S)
<1>1. /\ list \in Seq(Entries) /\ garbage \in Seq(Entries)
      /\ Injective(list) /\ Injective(garbage) /\ ToSet(list) \cap ToSet(garbage) = {}
  BY DEF TypeOK, OwnedOnce
<1>2. /\ list' = Among(list, Entries \ S)
      /\ garbage' = garbage \o Among(list, S)
  BY DEF ToGarbage
<1>3. /\ list' \in Seq(Entries) /\ Injective(list')
      /\ ToSet(list') = ToSet(list) \cap (Entries \ S)
  BY <1>1, <1>2, PickedFrom
<1>4. \A e \in ToSet(list) : e \in Entries
  BY <1>1, MembersAt
<1> DEFINE a == Among(list, S)
<1>5. a \in Seq(Entries) /\ Injective(a) /\ ToSet(a) = ToSet(list) \cap S
  BY <1>1, PickedFrom
<1>6. garbage' = garbage \o a
  BY <1>2
<1> HIDE DEF a
<1>7. ToSet(garbage) \cap ToSet(a) = {}
  BY <1>1, <1>5
<1>8. /\ garbage' \in Seq(Entries) /\ Injective(garbage')
      /\ ToSet(garbage') = ToSet(garbage) \cup ToSet(a)
  BY <1>1, <1>5, <1>6, <1>7, JoinedLists
<1>9. Injective(list)' /\ Injective(garbage)'
  BY <1>3, <1>8 DEF Injective
<1>10. QED
  BY <1>3, <1>4, <1>5, <1>8, <1>9

(* Who may register what. *)
LEMMA Registrars ==
    /\ \A t \in Threads : \A o \in MayUse[t] : o \in Observers
    /\ \A t, u \in Threads : \A o \in MayUse[t] : o \in MayUse[u] => t = u
    /\ EventThread \in Threads /\ None \notin Entries /\ None \notin Observers
    /\ MaxHeld \in Nat
  BY EventManagerAssumption, OneRegistrar DEF Threads

(* The entries on the two lists. *)
LEMMA ListedEntries ==
    ASSUME TypeOK
    PROVE  /\ \A e \in ToSet(list) : e \in Entries
           /\ \A e \in ToSet(garbage) : e \in Entries
           /\ DOMAIN list \subseteq Nat
           /\ \A k \in DOMAIN list : list[k] \in ToSet(list) /\ list[k] \in Entries
           /\ \A e \in ToSet(list) : \E k \in DOMAIN list : list[k] = e
<1>1. list \in Seq(Entries) /\ garbage \in Seq(Entries)
  BY DEF TypeOK
<1>2. \A e \in ToSet(garbage) : e \in Entries
  BY <1>1, MembersAt
<1>3. /\ DOMAIN list = 1 .. Len(list) /\ Len(list) \in Nat
      /\ \A k \in 1 .. Len(list) : list[k] \in ToSet(list) /\ list[k] \in Entries
      /\ \A e \in ToSet(list) : e \in Entries /\ \E k \in 1 .. Len(list) : list[k] = e
  BY <1>1, MembersAt
<1>4. QED
  BY <1>2, <1>3

----------------------------------------------------------------------------
(* Registration *)

LEMMA RegisterKnownKeeps ==
    ASSUME TypeOK, RegistryInvariant,
           NEW t \in Threads, NEW o \in Observers, RegisterKnown(t, o)
    PROVE  TypeOK' /\ RegistryInvariant'
<1>1. /\ MayCall(t) /\ o \in MayUse[t] /\ held[o] < MaxHeld /\ Find(o) # None
      /\ UNCHANGED <<list, garbage, obs, inUse, marked, mem, tObs, eventVars, undefined,
                     eligible, called>>
  BY DEF RegisterKnown
<1>2. PICK e \in Entries : e = Find(o) /\ e \in ToSet(list) /\ obs[e] = o
  BY <1>1, FindIs DEF TypeOK
<1>3. \/ /\ ~marked[e] /\ refCount' = [refCount EXCEPT ![e] = @ + 1]
         /\ held' = [held EXCEPT ![o] = @ + 1] /\ UNCHANGED <<pc, tEntry>>
      \/ marked[e] /\ Go(t, "failOld", e) /\ UNCHANGED <<refCount, held>>
  BY <1>2 DEF RegisterKnown
<1> USE DEF RegistryInvariant
<1>4. CASE /\ ~marked[e] /\ refCount' = [refCount EXCEPT ![e] = @ + 1]
           /\ held' = [held EXCEPT ![o] = @ + 1] /\ UNCHANGED <<pc, tEntry>>
  <2>1. \A u \in Threads : (pc[u] = "create" \/ Adding(u)) /\ tObs[u] = o => u = t
    BY <1>1, Registrars DEF CallsOK
  <2>2. \A u \in Threads : pc[u] = "create" \/ Adding(u) => tObs[u] # o
    BY <1>1, <2>1 DEF MayCall, Adding
  <2>3. ~(\E u \in Threads : Adding(u) /\ tEntry[u] = e)
    BY <1>2, <2>2 DEF CallsOK
  <2>4. /\ refCount[e] \in Nat /\ held[o] \in Nat
        /\ Uses(e) = held[o] + (IF e = cur THEN 1 ELSE 0)
    BY <1>2, <2>3 DEF Uses, TypeOK
  <2>5. TypeOK'
    <3>1. refCount[e] <= held[o] + 1
      BY <1>2, <1>4, <2>4 DEF CountsOK
    <3>2. refCount[e] + 1 \in 0 .. MaxHeld + 2 /\ held[o] + 1 \in 0 .. MaxHeld
      BY <1>1, <2>4, <3>1, Registrars
    <3>3. QED
      BY <1>1, <1>2, <1>4, <3>2 DEF TypeOK, eventVars
  <2>6. OwnedOnce'
    BY <1>1, <1>4 DEF OwnedOnce, Injective
  <2>7. CallsOK'
    BY <1>1, <1>4, <2>2 DEF CallsOK, Adding, TypeOK
  <2>8. EventOK'
    BY <1>1, <1>4 DEF EventOK, eventVars
  <2>9. CountsOK'
    <3>1. \A f \in ToSet(list) : f # e => obs[f] # o
      BY <1>2 DEF CountsOK
    <3>2. \A f \in ToSet(list) : f # e => Uses(f)' = Uses(f) /\ refCount'[f] = refCount[f]
      BY <1>1, <1>2, <1>4, <3>1, ListedEntries DEF Uses, Adding, eventVars, TypeOK, CountsOK
    <3>3. Uses(e)' = Uses(e) + 1 /\ refCount'[e] = refCount[e] + 1
      BY <1>1, <1>2, <1>4, <2>3, <2>4 DEF Uses, Adding, eventVars, TypeOK
    <3>4. Uses(e) \in Nat
      BY <2>4
    <3>5. QED
      BY <1>1, <1>2, <1>4, <2>4, <3>2, <3>3, <3>4 DEF CountsOK
  <2>10. EntriesOK'
    <3>1. \A q \in Observers : q # o => held'[q] = held[q]
      BY <1>4 DEF TypeOK
    <3>2. ASSUME NEW u \in Threads, Adding(u) PROVE tObs[u] \in Observers /\ tObs[u] # o
      BY <2>2, <3>2, Registrars DEF CallsOK
    <3>3. \A u \in Threads : Adding(u)' <=> Adding(u)
      BY <1>4 DEF Adding
    <3>4. QED
      BY <1>1, <1>2, <1>4, <3>1, <3>2, <3>3 DEF EntriesOK
  <2>11. WalkOK'
    BY <1>1, <1>4 DEF WalkOK, eventVars, TypeOK
  <2>12. QED
    BY <2>5, <2>6, <2>7, <2>8, <2>9, <2>10, <2>11
<1>5. CASE marked[e] /\ Go(t, "failOld", e) /\ UNCHANGED <<refCount, held>>
  <2>1. /\ pc' = [pc EXCEPT ![t] = "failOld"] /\ tEntry' = [tEntry EXCEPT ![t] = e]
        /\ pc[t] = "idle" /\ "app" \in Disturbances
    BY <1>1, <1>2, <1>5 DEF Go, MayCall, EventOK
  <2>2. TypeOK'
    BY <1>1, <1>2, <1>5, <2>1 DEF TypeOK, eventVars
  <2>3. OwnedOnce'
    BY <1>1, <2>1 DEF OwnedOnce, Injective, TypeOK
  <2>4. CallsOK'
    BY <1>1, <1>2, <1>5, <2>1 DEF CallsOK, Adding, TypeOK
  <2>5. EventOK'
    BY <1>1, <1>5 DEF EventOK, eventVars
  <2>6. \A f \in Entries : Uses(f)' = Uses(f)
    BY <1>1, <1>5, <2>1 DEF Uses, Adding, eventVars, TypeOK
  <2>7. CountsOK'
    BY <1>1, <1>5, <2>6, ListedEntries DEF CountsOK
  <2>8. EntriesOK'
    BY <2>1 DEF EntriesOK
  <2>9. WalkOK'
    BY <1>1, <1>5, <2>1 DEF WalkOK, eventVars, TypeOK
  <2>10. QED
    BY <2>2, <2>3, <2>4, <2>5, <2>7, <2>8, <2>9
<1>6. QED
  BY <1>3, <1>4, <1>5

(* A thread that moves on outside a registration disturbs no count, no      *)
(* entry and not the walk.                                                  *)
LEMMA CallMoves ==
    ASSUME TypeOK, RegistryInvariant,
           NEW t \in Threads, ~Adding(t), ~Adding(t)',
           \A u \in Threads \ {t} : /\ pc'[u] = pc[u] /\ tEntry'[u] = tEntry[u]
                                    /\ tObs'[u] = tObs[u],
           \A f \in Entries : mem'[f] = "unborn" => mem[f] = "unborn",
           UNCHANGED <<list, obs, refCount, inUse, marked, epc, cur, ghostVars>>
    PROVE  EventOK' /\ CountsOK' /\ EntriesOK' /\ WalkOK'
<1> USE DEF RegistryInvariant
<1>1. \A u \in Threads : (Adding(u)' <=> Adding(u)) /\ (Adding(u) => /\ tEntry'[u] = tEntry[u]
                                                                     /\ tObs'[u] = tObs[u])
  BY DEF Adding
<1>2. UNCHANGED <<list, obs, refCount, inUse, marked, epc, cur, held, eligible, called>>
  BY DEF ghostVars
<1>3. EventOK'
  BY <1>2 DEF EventOK, TypeOK
<1>4. \A f \in Entries : Uses(f)' = Uses(f)
  BY <1>1, <1>2 DEF Uses
<1>5. CountsOK'
  BY <1>2, <1>4, ListedEntries DEF CountsOK
<1>6. EntriesOK'
  BY <1>1, <1>2 DEF EntriesOK
<1>7. WalkOK'
  BY <1>2 DEF WalkOK
<1>8. QED
  BY <1>3, <1>5, <1>6, <1>7

LEMMA RegisterUnknownKeeps ==
    ASSUME TypeOK, RegistryInvariant,
           NEW t \in Threads, NEW o \in Observers, RegisterUnknown(t, o)
    PROVE  TypeOK' /\ RegistryInvariant'
<1> USE DEF RegistryInvariant
<1>1. /\ pc[t] = "idle" /\ o \in MayUse[t] /\ held[o] < MaxHeld /\ Find(o) = None
      /\ pc' = [pc EXCEPT ![t] = "create"] /\ tObs' = [tObs EXCEPT ![t] = o]
      /\ UNCHANGED <<list, garbage, entryVars, tEntry, eventVars, undefined, ghostVars>>
  BY DEF RegisterUnknown, MayCall
<1>2. \A e \in ToSet(list) : obs[e] # o
  BY <1>1, FindIs DEF TypeOK
<1>3. TypeOK'
  BY <1>1 DEF TypeOK, entryVars, eventVars, ghostVars
<1>4. OwnedOnce'
  BY <1>1 DEF OwnedOnce, Injective, entryVars, TypeOK
<1>5. CallsOK'
  BY <1>1, <1>2 DEF CallsOK, Adding, entryVars, ghostVars, TypeOK
<1>6. ~Adding(t) /\ ~Adding(t)'
  BY <1>1 DEF Adding, TypeOK
<1>7. EventOK' /\ CountsOK' /\ EntriesOK' /\ WalkOK'
  BY <1>1, <1>6, CallMoves DEF TypeOK, entryVars, eventVars
<1>8. QED
  BY <1>3, <1>4, <1>5, <1>7

LEMMA RegisterNoMemoryKeeps ==
    ASSUME TypeOK, RegistryInvariant,
           NEW t \in Threads, RegisterNoMemory(t)
    PROVE  TypeOK' /\ RegistryInvariant'
<1> USE DEF RegistryInvariant
<1>1. /\ pc[t] = "create" /\ pc' = [pc EXCEPT ![t] = "idle"]
      /\ tObs' = [tObs EXCEPT ![t] = None]
      /\ UNCHANGED <<list, garbage, entryVars, tEntry, eventVars, undefined, ghostVars>>
  BY DEF RegisterNoMemory
<1>2. TypeOK'
  BY <1>1 DEF TypeOK, entryVars, eventVars, ghostVars
<1>3. OwnedOnce'
  BY <1>1 DEF OwnedOnce, Injective, entryVars, TypeOK
<1>4. CallsOK'
  BY <1>1 DEF CallsOK, Adding, entryVars, ghostVars, TypeOK
<1>5. ~Adding(t) /\ ~Adding(t)'
  BY <1>1 DEF Adding, TypeOK
<1>6. EventOK' /\ CountsOK' /\ EntriesOK' /\ WalkOK'
  BY <1>1, <1>5, CallMoves DEF TypeOK, entryVars, eventVars
<1>7. QED
  BY <1>2, <1>3, <1>4, <1>6

LEMMA RegisterAddKeeps ==
    ASSUME TypeOK, RegistryInvariant,
           NEW t \in Threads, NEW e \in Entries, RegisterAdd(t, e)
    PROVE  TypeOK' /\ RegistryInvariant'
<1> USE DEF RegistryInvariant
<1>1. /\ pc[t] = "create" /\ mem[e] = "unborn"
      /\ mem' = [mem EXCEPT ![e] = "live"] /\ obs' = [obs EXCEPT ![e] = tObs[t]]
      /\ refCount' = [refCount EXCEPT ![e] = 1] /\ list' = Append(list, e)
      /\ pc' = [pc EXCEPT ![t] = "enable"] /\ tEntry' = [tEntry EXCEPT ![t] = e]
      /\ UNCHANGED <<garbage, inUse, marked, tObs, epc, cur, dump, undefined, held, eligible,
                     called>>
  BY DEF RegisterAdd, Go, eventVars, ghostVars
<1>2. e \notin ToSet(list) /\ e \notin ToSet(garbage) /\ e # cur
  BY <1>1, Registrars DEF OwnedOnce, EventOK
<1>3. PICK o \in Observers : /\ o = tObs[t] /\ o \in MayUse[t] /\ held[o] < MaxHeld
                             /\ \A f \in ToSet(list) : obs[f] # o
  BY <1>1, Registrars DEF CallsOK
<1>4. /\ list' \in Seq(Entries) /\ Injective(list') /\ ToSet(list') = ToSet(list) \cup {e}
      /\ \A k \in DOMAIN list : k \in DOMAIN list' /\ list'[k] = list[k]
      /\ \A k \in DOMAIN list' : list'[k] # e => k \in DOMAIN list
  BY <1>1, <1>2, AddedLast DEF TypeOK, OwnedOnce
<1>5. /\ \A f \in ToSet(list) : /\ f \in Entries /\ f # e /\ mem'[f] = mem[f]
                                /\ obs'[f] = obs[f] /\ refCount'[f] = refCount[f]
      /\ mem'[e] = "live" /\ obs'[e] = o /\ refCount'[e] = 1
  BY <1>1, <1>2, <1>3, ListedEntries DEF TypeOK
<1>6. /\ \A u \in Threads : u # t => /\ pc'[u] = pc[u] /\ tEntry'[u] = tEntry[u]
                                     /\ (Adding(u)' <=> Adding(u))
                                     /\ (Adding(u) => tEntry[u] # e)
      /\ pc'[t] = "enable" /\ tEntry'[t] = e /\ Adding(t)' /\ ~Adding(t)
  BY <1>1 DEF Adding, CallsOK, TypeOK
<1>7. TypeOK'
  <2>1. 1 \in 0 .. MaxHeld + 2
    BY Registrars
  <2>2. QED
    BY <1>1, <1>3, <1>4, <2>1 DEF TypeOK
<1>8. OwnedOnce'
  <2>1. \A f \in ToSet(garbage) : f \in Entries /\ mem'[f] \in {"live", "misfreed"}
    BY <1>1, <1>2, ListedEntries DEF OwnedOnce, TypeOK
  <2>2. ASSUME NEW u \in Threads, pc'[u] = "free"
        PROVE  /\ u # t /\ pc[u] = "free" /\ tEntry'[u] = tEntry[u] /\ tEntry[u] # e
               /\ tEntry[u] \in Entries /\ mem'[tEntry[u]] \in {"live", "misfreed"}
    <3>1. u # t /\ pc[u] = "free" /\ tEntry'[u] = tEntry[u]
      BY <1>6, <2>2
    <3>2. QED
      BY <1>1, <3>1 DEF OwnedOnce, TypeOK
  <2>3. /\ Injective(list)' /\ Injective(garbage)' /\ ToSet(list') \cap ToSet(garbage') = {}
        /\ \A f \in ToSet(list') : mem'[f] = "live"
        /\ \A f \in ToSet(garbage') : mem'[f] \in {"live", "misfreed"}
    BY <1>1, <1>2, <1>4, <1>5, <2>1 DEF OwnedOnce, Injective
  <2>4. \A u \in Threads : pc'[u] = "free" =>
          /\ tEntry'[u] \in Entries \ (ToSet(list') \cup ToSet(garbage'))
          /\ mem'[tEntry'[u]] \in {"live", "misfreed"}
          /\ \A v \in Threads \ {u} : pc'[v] = "free" => tEntry'[v] # tEntry'[u]
    BY <1>1, <1>4, <2>2 DEF OwnedOnce
  <2>5. \A f \in Entries : mem'[f] = "misfreed" => mem[f] = "misfreed"
    BY <1>1 DEF TypeOK
  <2>6. QED
    BY <2>3, <2>4, <2>5 DEF OwnedOnce
<1>9. CallsOK'
  <2>1. ASSUME NEW u \in Threads, u # t
        PROVE  /\ pc'[u] = "create" \/ Adding(u)' =>
                    tObs'[u] \in MayUse[u] /\ held'[tObs'[u]] < MaxHeld /\ tObs[u] # o
               /\ pc'[u] = "create" => \A f \in ToSet(list') : obs'[f] # tObs'[u]
               /\ Adding(u)' => /\ tEntry'[u] \in Entries /\ mem'[tEntry'[u]] # "unborn"
                                /\ obs'[tEntry'[u]] = tObs'[u]
    <3>1. pc[u] = "create" \/ Adding(u) =>
              tObs[u] \in MayUse[u] /\ held[tObs[u]] < MaxHeld /\ tObs[u] # o
      BY <1>3, <2>1, Registrars DEF CallsOK
    <3>2. pc[u] = "create" => \A f \in ToSet(list') : obs'[f] # tObs[u]
      BY <1>4, <1>5, <3>1 DEF CallsOK
    <3>3. Adding(u) => /\ tEntry[u] \in Entries /\ mem'[tEntry[u]] # "unborn"
                       /\ obs'[tEntry[u]] = tObs[u]
      BY <1>1, <1>6, <2>1 DEF CallsOK, TypeOK
    <3>4. QED
      BY <1>1, <1>6, <2>1, <3>1, <3>2, <3>3
  <2>2. /\ tObs'[t] = o /\ held'[o] < MaxHeld /\ o \in MayUse[t]
        /\ tEntry'[t] \in Entries /\ mem'[tEntry'[t]] # "unborn" /\ obs'[tEntry'[t]] = o
    BY <1>1, <1>3, <1>5, <1>6
  <2>3. \A u \in Threads : /\ pc'[u] = "failNew" => "enable" \in Disturbances
                           /\ pc'[u] = "failOld" => "app" \in Disturbances /\ tEntry'[u] \in Entries
    BY <1>6 DEF CallsOK
  <2>4. QED
    BY <1>6, <2>1, <2>2, <2>3 DEF CallsOK
<1>10. EventOK'
  BY <1>1, <1>2 DEF EventOK, TypeOK
<1>11. CountsOK'
  <2>1. ASSUME NEW f \in ToSet(list) PROVE Uses(f)' = Uses(f)
    <3>1. obs'[f] = obs[f] /\ f # e
      BY <1>5
    <3>2. (\E u \in Threads : Adding(u)' /\ tEntry'[u] = f) <=>
          (\E u \in Threads : Adding(u) /\ tEntry[u] = f)
      BY <1>6, <3>1
    <3>3. QED
      BY <1>1, <3>1, <3>2 DEF Uses
  <2>2. Uses(e)' = held[o] + 1 + 0
    <3>1. \E u \in Threads : Adding(u)' /\ tEntry'[u] = e
      BY <1>6
    <3>2. QED
      BY <1>1, <1>2, <1>5, <3>1 DEF Uses
  <2>3. held[o] \in Nat
    BY DEF TypeOK
  <2>4. "app" \notin Disturbances => held[o] = 0
    BY <1>3, <2>3 DEF EntriesOK
  <2>5. QED
    BY <1>1, <1>3, <1>4, <1>5, <2>1, <2>2, <2>3, <2>4 DEF CountsOK
<1>12. EntriesOK'
  <2>1. "app" \notin Disturbances => held[o] = 0
    <3>1. held[o] \in Nat
      BY DEF TypeOK
    <3>2. QED
      BY <1>3, <3>1 DEF EntriesOK
  <2>2. QED
    BY <1>1, <1>3, <1>4, <1>5, <1>6, <2>1 DEF EntriesOK
<1>13. WalkOK'
  <2>1. ASSUME "app" \notin Disturbances, cur # None, NEW j \in DOMAIN list', list'[j] = cur,
               NEW q \in eligible \ called
        PROVE  \E k \in DOMAIN list' : k > j /\ obs'[list'[k]] = q
    <3>1. j \in DOMAIN list /\ list[j] = cur
      BY <1>2, <1>4, <2>1
    <3>2. PICK k \in DOMAIN list : k > j /\ obs[list[k]] = q
      BY <2>1, <3>1 DEF WalkOK
    <3>3. list[k] \in ToSet(list)
      BY ListedEntries
    <3>4. QED
      BY <1>4, <1>5, <3>2, <3>3
  <2>2. QED
    BY <1>1, <1>4, <2>1 DEF WalkOK
<1>14. QED
  BY <1>7, <1>8, <1>9, <1>10, <1>11, <1>12, <1>13

LEMMA EnableEventKeeps ==
    ASSUME TypeOK, RegistryInvariant,
           NEW t \in Threads, EnableEvent(t), ~GoesWrong
    PROVE  TypeOK' /\ RegistryInvariant'
<1> USE DEF RegistryInvariant
<1>1. /\ pc[t] = "enable"
      /\ UNCHANGED <<list, garbage, obs, refCount, inUse, marked, mem, epc, cur, dump,
                     undefined, eligible, called>>
      /\ \/ /\ Go(t, "idle", None)
            /\ held' = [held EXCEPT ![tObs[t]] = @ + 1]
            /\ tObs' = [tObs EXCEPT ![t] = None]
         \/ /\ "enable" \in Disturbances /\ pc' = [pc EXCEPT ![t] = "failNew"]
            /\ UNCHANGED <<tEntry, tObs, held>>
  BY DEF EnableEvent, entryVars, eventVars, ghostVars
<1>2. PICK o \in Observers, e \in Entries :
          /\ o = tObs[t] /\ o \in MayUse[t] /\ held[o] < MaxHeld /\ e = tEntry[t]
          /\ obs[e] = o /\ Adding(t)
  BY <1>1, Registrars DEF CallsOK, Adding
<1>3. \A u \in Threads : u # t => /\ pc[u] = "create" \/ Adding(u) => tObs[u] # o
                                  /\ Adding(u) => tEntry[u] # e
  BY <1>2, Registrars DEF CallsOK
<1>4. CASE /\ Go(t, "idle", None)
           /\ held' = [held EXCEPT ![tObs[t]] = @ + 1]
           /\ tObs' = [tObs EXCEPT ![t] = None]
  <2>1. /\ pc' = [pc EXCEPT ![t] = "idle"] /\ tEntry' = [tEntry EXCEPT ![t] = None]
        /\ held' = [held EXCEPT ![o] = @ + 1]
    BY <1>2, <1>4 DEF Go
  <2>2. /\ \A u \in Threads : u # t => /\ pc'[u] = pc[u] /\ tEntry'[u] = tEntry[u]
                                       /\ tObs'[u] = tObs[u] /\ (Adding(u)' <=> Adding(u))
        /\ pc'[t] = "idle" /\ ~Adding(t)'
        /\ held'[o] = held[o] + 1 /\ held[o] \in Nat
        /\ \A q \in Observers : q # o => held'[q] = held[q]
    BY <1>4, <2>1 DEF Adding, TypeOK
  <2>3. TypeOK'
    <3>1. held[o] + 1 \in 0 .. MaxHeld
      BY <1>2, <2>2, Registrars
    <3>2. QED
      BY <1>1, <1>4, <2>1, <3>1 DEF TypeOK
  <2>4. OwnedOnce'
    BY <1>1, <2>2 DEF OwnedOnce, Injective
  <2>5. CallsOK'
    BY <1>1, <1>3, <2>2, Registrars DEF CallsOK, Adding
  <2>6. EventOK'
    BY <1>1 DEF EventOK
  <2>7. CountsOK'
    <3>1. Uses(e)' = Uses(e)
      <4>1. ~(\E u \in Threads : Adding(u)' /\ tEntry'[u] = e)
        BY <1>3, <2>2
      <4>2. \E u \in Threads : Adding(u) /\ tEntry[u] = e
        BY <1>2
      <4>3. QED
        BY <1>1, <1>2, <2>2, <4>1, <4>2 DEF Uses
    <3>2. ASSUME NEW f \in ToSet(list), f # e
          PROVE  /\ Uses(f) \in Nat
                 /\ Uses(f)' = Uses(f) + (IF obs[f] = o THEN 1 ELSE 0)
      <4>1. (\E u \in Threads : Adding(u)' /\ tEntry'[u] = f) <=>
            (\E u \in Threads : Adding(u) /\ tEntry[u] = f)
        BY <1>2, <2>2, <3>2
      <4>2. obs[f] \in Observers /\ held[obs[f]] \in Nat
        BY DEF CountsOK, TypeOK
      <4>3. held'[obs[f]] = held[obs[f]] + (IF obs[f] = o THEN 1 ELSE 0)
        BY <2>2, <4>2
      <4>4. QED
        BY <1>1, <4>1, <4>2, <4>3 DEF Uses
    <3>3. ASSUME NEW f \in ToSet(list), f # e, obs[f] = o PROVE "app" \in Disturbances
      BY <1>2, <3>3 DEF CountsOK, EntriesOK
    <3>4. ASSUME NEW f \in ToSet(list)
          PROVE  /\ refCount[f] \in Nat
                 /\ ~marked[f] => refCount[f] <= Uses(f)'
                 /\ "app" \notin Disturbances => refCount[f] = Uses(f)'
      <4>1. refCount[f] \in Nat
        BY ListedEntries DEF TypeOK
      <4>2. CASE f = e
        BY <3>1, <4>1, <4>2 DEF CountsOK
      <4>3. CASE f # e
        BY <3>2, <3>3, <4>1, <4>3 DEF CountsOK
      <4>4. QED
        BY <4>2, <4>3
    <3>5. QED
      BY <1>1, <3>4 DEF CountsOK
  <2>8. EntriesOK'
    BY <1>1, <1>2, <1>3, <2>2, Registrars DEF EntriesOK, CallsOK
  <2>9. WalkOK'
    <3>1. \A q \in eligible : q \in Observers /\ held[q] > 0 /\ held[q] \in Nat
      BY DEF WalkOK, TypeOK
    <3>2. \A q \in eligible : held'[q] > 0
      BY <2>2, <3>1
    <3>3. QED
      BY <1>1, <3>2 DEF WalkOK
  <2>10. QED
    BY <2>3, <2>4, <2>5, <2>6, <2>7, <2>8, <2>9
<1>5. CASE /\ "enable" \in Disturbances /\ pc' = [pc EXCEPT ![t] = "failNew"]
           /\ UNCHANGED <<tEntry, tObs, held>>
  <2>1. /\ \A u \in Threads : u # t => pc'[u] = pc[u]
        /\ pc'[t] = "failNew" /\ pc[t] = "enable"
    BY <1>1, <1>5 DEF TypeOK
  <2>2. \A u \in Threads : Adding(u)' <=> Adding(u)
    BY <2>1 DEF Adding
  <2>3. TypeOK'
    BY <1>1, <1>5 DEF TypeOK
  <2>4. OwnedOnce'
    BY <1>1, <1>5, <2>1 DEF OwnedOnce, Injective
  <2>5. CallsOK'
    BY <1>1, <1>2, <1>5, <2>1, <2>2 DEF CallsOK
  <2>6. EventOK'
    BY <1>1 DEF EventOK
  <2>7. \A f \in Entries : Uses(f)' = Uses(f)
    BY <1>1, <1>5, <2>2 DEF Uses
  <2>8. CountsOK'
    BY <1>1, <1>5, <2>7, ListedEntries DEF CountsOK
  <2>9. EntriesOK'
    BY <1>1, <1>5, <2>2 DEF EntriesOK
  <2>10. WalkOK'
    BY <1>1, <1>5 DEF WalkOK
  <2>11. QED
    BY <2>3, <2>4, <2>5, <2>6, <2>8, <2>9, <2>10
<1>6. QED
  BY <1>1, <1>4, <1>5

LEMMA RegisterFailKeeps ==
    ASSUME TypeOK, RegistryInvariant,
           NEW t \in Threads, RegisterFail(t), ~GoesWrong
    PROVE  TypeOK' /\ RegistryInvariant'
<1> USE DEF RegistryInvariant
<1>1. /\ pc[t] \in {"failNew", "failOld"} /\ (pc[t] = "failNew" => mem[tEntry[t]] = "live")
      /\ list' = Among(list, Entries \ {tEntry[t]})
      /\ mem' = IF pc[t] = "failOld" THEN mem
                ELSE [mem EXCEPT ![tEntry[t]] = IF tEntry[t] \in ToSet(list) THEN "freed"
                                                                             ELSE "misfreed"]
      /\ pc' = [pc EXCEPT ![t] = "idle"] /\ tEntry' = [tEntry EXCEPT ![t] = None]
      /\ tObs' = [tObs EXCEPT ![t] = None]
      /\ UNCHANGED <<garbage, obs, refCount, inUse, marked, epc, cur, dump, undefined, held,
                     eligible, called>>
  BY DEF RegisterFail, Go, eventVars, ghostVars
<1>2. PICK e \in Entries : e = tEntry[t]
  BY <1>1 DEF CallsOK, Adding
<1>3. list' = Among(list, Entries \ {e})
  BY <1>1, <1>2
<1>4. /\ list' \in Seq(Entries) /\ Injective(list') /\ ToSet(list') = ToSet(list) \ {e}
  <2>1. list \in Seq(Entries) /\ Injective(list)
    BY DEF TypeOK, OwnedOnce
  <2>2. /\ list' \in Seq(Entries) /\ Injective(list')
        /\ ToSet(list') = ToSet(list) \cap (Entries \ {e})
    BY <1>3, <2>1, PickedFrom
  <2>3. QED
    BY <2>2, ListedEntries
<1>5. /\ \A u \in Threads : u # t => /\ pc'[u] = pc[u] /\ tEntry'[u] = tEntry[u]
                                     /\ tObs'[u] = tObs[u] /\ (Adding(u)' <=> Adding(u))
      /\ pc'[t] = "idle" /\ ~Adding(t)'
  BY <1>1 DEF Adding, TypeOK
<1>6. pc[t] = "failNew" =>
        /\ "enable" \in Disturbances /\ obs[e] = tObs[t] /\ tObs[t] \in MayUse[t]
        /\ "app" \notin Disturbances => e \in ToSet(list) /\ held[tObs[t]] = 0
  BY <1>2 DEF CallsOK, Adding, EntriesOK
<1>7. pc[t] = "failOld" => "app" \in Disturbances
  BY DEF CallsOK
<1>8. /\ mem' \in [Entries -> {"unborn", "live", "freed", "misfreed"}]
      /\ \A f \in Entries : f # e => mem'[f] = mem[f]
      /\ \A f \in Entries : mem'[f] = "unborn" => mem[f] = "unborn"
      /\ pc[t] = "failOld" => mem' = mem
      /\ pc[t] = "failNew" => mem'[e] = IF e \in ToSet(list) THEN "freed" ELSE "misfreed"
  BY <1>1, <1>2 DEF TypeOK
<1>9. TypeOK'
  BY <1>1, <1>4, <1>8 DEF TypeOK
<1>10. OwnedOnce'
  <2>1. \A f \in ToSet(list') : f \in ToSet(list) /\ f \in Entries /\ mem'[f] = "live"
    BY <1>4, <1>8, ListedEntries DEF OwnedOnce
  <2>2. \A f \in Entries \ ToSet(list) : mem[f] \in {"live", "misfreed"} =>
                                            mem'[f] \in {"live", "misfreed"}
    BY <1>1, <1>8
  <2>3. ASSUME NEW u \in Threads, pc'[u] = "free"
        PROVE  /\ u # t /\ pc[u] = "free" /\ tEntry'[u] = tEntry[u]
               /\ mem'[tEntry[u]] \in {"live", "misfreed"}
    <3>1. u # t /\ pc[u] = "free" /\ tEntry'[u] = tEntry[u]
      BY <1>5, <2>3
    <3>2. tEntry[u] \in Entries \ ToSet(list) /\ mem[tEntry[u]] \in {"live", "misfreed"}
      BY <3>1 DEF OwnedOnce
    <3>3. QED
      BY <2>2, <3>1, <3>2
  <2>4. /\ Injective(list)' /\ Injective(garbage)' /\ ToSet(list') \cap ToSet(garbage') = {}
        /\ \A f \in ToSet(list') : mem'[f] = "live"
        /\ \A f \in ToSet(garbage') : mem'[f] \in {"live", "misfreed"}
    BY <1>1, <1>4, <2>1, <2>2, ListedEntries DEF OwnedOnce, Injective
  <2>5. \A u \in Threads : pc'[u] = "free" =>
          /\ tEntry'[u] \in Entries \ (ToSet(list') \cup ToSet(garbage'))
          /\ mem'[tEntry'[u]] \in {"live", "misfreed"}
          /\ \A v \in Threads \ {u} : pc'[v] = "free" => tEntry'[v] # tEntry'[u]
    BY <1>1, <2>1, <2>3 DEF OwnedOnce
  <2>6. ASSUME NEW f \in Entries, mem'[f] = "misfreed"
        PROVE  {"app", "enable"} \subseteq Disturbances
    <3>1. CASE mem[f] = "misfreed"
      BY <3>1 DEF OwnedOnce
    <3>2. CASE mem[f] # "misfreed"
      <4>1. pc[t] = "failNew" /\ f = e /\ e \notin ToSet(list)
        BY <1>1, <1>8, <2>6, <3>2
      <4>2. QED
        BY <1>6, <4>1
    <3>3. QED
      BY <3>1, <3>2
  <2>7. QED
    BY <2>4, <2>5, <2>6 DEF OwnedOnce
<1>11. CallsOK'
  <2>1. ASSUME NEW u \in Threads, u # t
        PROVE  /\ pc[u] = "create" \/ Adding(u) =>
                    tObs[u] \in MayUse[u] /\ held[tObs[u]] < MaxHeld
               /\ pc[u] = "create" => \A f \in ToSet(list') : obs[f] # tObs[u]
               /\ Adding(u) => /\ tEntry[u] \in Entries /\ mem'[tEntry[u]] # "unborn"
                               /\ obs[tEntry[u]] = tObs[u]
               /\ pc[u] = "failNew" => "enable" \in Disturbances
               /\ pc[u] = "failOld" => "app" \in Disturbances /\ tEntry[u] \in Entries
    BY <1>4, <1>8 DEF CallsOK
  <2>2. QED
    BY <1>1, <1>5, <2>1 DEF CallsOK
<1>12. EventOK'
  BY <1>1, <1>8 DEF EventOK, TypeOK
<1>13. ASSUME NEW f \in ToSet(list') PROVE Uses(f)' = Uses(f)
  <2>1. f # e
    BY <1>4
  <2>2. (\E u \in Threads : Adding(u)' /\ tEntry'[u] = f) <=>
        (\E u \in Threads : Adding(u) /\ tEntry[u] = f)
    BY <1>2, <1>5, <2>1
  <2>3. QED
    BY <1>1, <2>2 DEF Uses
<1>14. CountsOK'
  <2>1. \A f \in ToSet(list') : f \in ToSet(list)
    BY <1>4
  <2>2. ASSUME NEW f \in ToSet(list')
        PROVE  /\ obs'[f] \in Observers /\ refCount'[f] > 0
               /\ ~marked'[f] => refCount'[f] <= Uses(f)'
               /\ "app" \notin Disturbances => refCount'[f] = Uses(f)'
    <3>1. f \in ToSet(list) /\ Uses(f)' = Uses(f)
      BY <1>13, <2>1
    <3>2. /\ obs[f] \in Observers /\ refCount[f] > 0
          /\ ~marked[f] => refCount[f] <= Uses(f)
          /\ "app" \notin Disturbances => refCount[f] = Uses(f)
      BY <3>1 DEF CountsOK
    <3>3. QED
      BY <1>1, <3>1, <3>2
  <2>3. \A f, g \in ToSet(list') : obs'[f] = obs'[g] => f = g
    BY <1>1, <2>1 DEF CountsOK
  <2>4. QED
    BY <2>2, <2>3 DEF CountsOK
<1>15. EntriesOK'
  <2>1. ASSUME "app" \notin Disturbances PROVE pc[t] = "failNew"
    BY <1>1, <1>7, <2>1
  <2>2. ASSUME "app" \notin Disturbances, NEW u \in Threads, Adding(u)'
        PROVE  tEntry'[u] \in ToSet(list') /\ held'[tObs'[u]] = 0
    <3>1. u # t /\ Adding(u) /\ tEntry'[u] = tEntry[u] /\ tObs'[u] = tObs[u]
      BY <1>5, <2>2
    <3>2. tObs[u] \in MayUse[u] /\ obs[tEntry[u]] = tObs[u]
      BY <3>1 DEF CallsOK
    <3>3. tEntry[u] # e
      BY <1>6, <2>1, <2>2, <3>1, <3>2, Registrars
    <3>4. QED
      BY <1>1, <1>4, <2>2, <3>1, <3>3 DEF EntriesOK
  <2>3. ASSUME "app" \notin Disturbances, NEW o \in Observers, held'[o] > 0
        PROVE  \E f \in ToSet(list') : obs'[f] = o
    <3>1. PICK f \in ToSet(list) : obs[f] = o
      BY <1>1, <2>3 DEF EntriesOK
    <3>2. o # tObs[t]
      BY <1>1, <1>6, <2>1, <2>3
    <3>3. f # e
      BY <1>6, <2>1, <2>3, <3>1, <3>2
    <3>4. QED
      BY <1>1, <1>4, <3>1, <3>3
  <2>4. QED
    BY <2>2, <2>3 DEF EntriesOK
<1>16. WalkOK'
  <2>1. ASSUME "app" \notin Disturbances, cur # None
        PROVE  LaterIn(list', cur, eligible \ called, obs)
    <3> DEFINE S == Entries \ {e}
               D == eligible \ called
    <3>1. LaterIn(list, cur, D, obs)
      BY <2>1 DEF WalkOK, LaterIn
    <3>2. pc[t] = "failNew" /\ \A q \in D : held[q] > 0
      BY <1>1, <1>7, <2>1 DEF WalkOK
    <3>3. \A f \in ToSet(list) : obs[f] \in D => f \in S
      BY <1>6, <2>1, <3>2, ListedEntries
    <3>4. /\ list \in Seq(Entries) /\ Injective(list) /\ list' = Among(list, S)
      BY <1>3 DEF TypeOK, OwnedOnce
    <3> HIDE DEF S, D
    <3>5. LaterIn(Among(list, S), cur, D, obs)
      BY <3>1, <3>3, <3>4, LaterKept
    <3>6. QED
      BY <3>4, <3>5 DEF D
  <2>2. Disturbances = {} => FALSE
    BY <1>1, <1>6, <1>7
  <2>3. /\ \A o \in eligible' : held'[o] > 0
        /\ "app" \notin Disturbances /\ epc' = "end" => eligible' \subseteq called'
    BY <1>1 DEF WalkOK
  <2>4. "app" \notin Disturbances /\ cur' # None =>
          LaterIn(list', cur', eligible' \ called', obs')
    BY <1>1, <2>1
  <2>5. QED
    BY <2>2, <2>3, <2>4 DEF WalkOK, LaterIn
<1>17. QED
  BY <1>9, <1>10, <1>11, <1>12, <1>14, <1>15, <1>16

----------------------------------------------------------------------------
(* Removal *)

(* Entries that leave the list, some of them for the garbage, stay owned    *)
(* once, and the threads inside registrations keep what they hold.          *)
LEMMA EntriesMove ==
    ASSUME TypeOK, RegistryInvariant,
           Injective(list)', Injective(garbage)', ToSet(list') \subseteq ToSet(list),
           ToSet(garbage') \subseteq ToSet(garbage) \cup (ToSet(list) \ ToSet(list')),
           UNCHANGED <<obs, mem, tObs>>,
           \A u \in Threads : \/ pc'[u] \in {"idle", "dump"}
                              \/ pc'[u] = pc[u] /\ tEntry'[u] = tEntry[u],
           held' \in [Observers -> Int], \A o \in Observers : held'[o] <= held[o]
    PROVE  OwnedOnce' /\ CallsOK'
<1> USE DEF RegistryInvariant
<1>1. \A u \in Threads : pc'[u] \notin {"idle", "dump"} =>
          pc'[u] = pc[u] /\ tEntry'[u] = tEntry[u] /\ (Adding(u)' <=> Adding(u))
  BY DEF Adding
<1>2. /\ ToSet(list') \cap ToSet(garbage') = {}
      /\ \A f \in ToSet(list') : mem'[f] = "live"
      /\ \A f \in ToSet(garbage') : mem'[f] \in {"live", "misfreed"}
  BY DEF OwnedOnce
<1>3. ASSUME NEW u \in Threads, pc'[u] = "free"
      PROVE  /\ pc[u] = "free" /\ tEntry'[u] = tEntry[u]
             /\ tEntry[u] \in Entries \ (ToSet(list') \cup ToSet(garbage'))
             /\ mem'[tEntry[u]] \in {"live", "misfreed"}
  BY <1>1, <1>3 DEF OwnedOnce
<1>4. OwnedOnce'
  <2>1. \A u \in Threads : pc'[u] = "free" =>
          /\ tEntry'[u] \in Entries \ (ToSet(list') \cup ToSet(garbage'))
          /\ mem'[tEntry'[u]] \in {"live", "misfreed"}
          /\ \A v \in Threads \ {u} : pc'[v] = "free" => tEntry'[v] # tEntry'[u]
    BY <1>3 DEF OwnedOnce
  <2>2. QED
    BY <1>2, <2>1 DEF OwnedOnce
<1>5. \A q \in Observers : held[q] < MaxHeld => held'[q] < MaxHeld
  BY Registrars DEF TypeOK
<1>6. ASSUME NEW u \in Threads
      PROVE  /\ pc'[u] = "create" \/ Adding(u)' =>
                  tObs[u] \in MayUse[u] /\ held'[tObs[u]] < MaxHeld
             /\ pc'[u] = "create" => \A f \in ToSet(list') : obs[f] # tObs[u]
             /\ Adding(u)' => /\ tEntry'[u] \in Entries /\ mem[tEntry'[u]] # "unborn"
                              /\ obs[tEntry'[u]] = tObs[u]
             /\ pc'[u] = "failNew" => "enable" \in Disturbances
             /\ pc'[u] = "failOld" => "app" \in Disturbances /\ tEntry'[u] \in Entries
  <2>1. CASE pc'[u] \in {"idle", "dump"}
    BY <2>1 DEF Adding
  <2>2. CASE pc'[u] \notin {"idle", "dump"}
    <3>1. pc'[u] = pc[u] /\ tEntry'[u] = tEntry[u] /\ (Adding(u)' <=> Adding(u))
      BY <1>1, <2>2
    <3>2. pc[u] = "create" \/ Adding(u) =>
              tObs[u] \in MayUse[u] /\ held'[tObs[u]] < MaxHeld
      BY <1>5, Registrars DEF CallsOK
    <3>3. QED
      BY <3>1, <3>2 DEF CallsOK
  <2>3. QED
    BY <2>1, <2>2
<1>7. CallsOK'
  BY <1>6 DEF CallsOK
<1>8. QED
  BY <1>4, <1>7

(* Entries in the lists of others' observers are not counted differently by *)
(* a thread that ends its call.                                             *)
LEMMA UsesKept ==
    ASSUME TypeOK, NEW t \in Threads, ~Adding(t), Go(t, "dump", None),
           obs' = obs, cur' = cur, NEW f, held'[obs[f]] = held[obs[f]]
    PROVE  Uses(f)' = Uses(f)
<1>1. /\ \A u \in Threads : u # t => pc'[u] = pc[u] /\ tEntry'[u] = tEntry[u]
      /\ pc'[t] = "dump"
  BY DEF Go, TypeOK
<1>2. (\E u \in Threads : Adding(u)' /\ tEntry'[u] = f) <=>
      (\E u \in Threads : Adding(u) /\ tEntry[u] = f)
  BY <1>1 DEF Adding
<1>3. QED
  BY <1>2 DEF Uses

LEMMA UnregisterKeeps ==
    ASSUME TypeOK, RegistryInvariant,
           NEW t \in Threads, NEW o \in Observers, Unregister(t, o)
    PROVE  TypeOK' /\ RegistryInvariant'
<1> USE DEF RegistryInvariant
<1>1. /\ pc[t] = "idle" /\ o \in MayUse[t] /\ held[o] > 0 /\ held[o] \in Nat
      /\ held' = [held EXCEPT ![o] = @ - 1]
      /\ eligible' = IF held[o] = 1 THEN eligible \ {o} ELSE eligible
      /\ Go(t, "dump", None)
      /\ UNCHANGED <<obs, inUse, marked, mem, tObs, epc, cur, dump, undefined, called>>
  BY DEF Unregister, MayCall, eventVars, TypeOK
<1>2. /\ pc' = [pc EXCEPT ![t] = "dump"] /\ tEntry' = [tEntry EXCEPT ![t] = None]
      /\ ~Adding(t)
  BY <1>1 DEF Go, Adding
<1>3. /\ \A u \in Threads : u # t => /\ pc'[u] = pc[u] /\ tEntry'[u] = tEntry[u]
                                     /\ (Adding(u)' <=> Adding(u))
      /\ pc'[t] = "dump" /\ ~Adding(t)'
      /\ held'[o] = held[o] - 1 /\ \A q \in Observers : q # o => held'[q] = held[q]
      /\ held' \in [Observers -> 0 .. MaxHeld]
  BY <1>1, <1>2, Registrars DEF Adding, TypeOK
<1>4. /\ \A u \in Threads : \/ pc'[u] \in {"idle", "dump"}
                            \/ pc'[u] = pc[u] /\ tEntry'[u] = tEntry[u]
      /\ held' \in [Observers -> Int] /\ \A q \in Observers : held'[q] <= held[q]
  BY <1>1, <1>3 DEF TypeOK
<1>5. \A q \in eligible' : q \in eligible /\ held'[q] > 0 /\ q \in Observers
  BY <1>1, <1>3 DEF WalkOK, TypeOK
<1>6. EventOK'
  BY <1>1 DEF EventOK
<1>7. \A f \in ToSet(list) : obs[f] # o => Uses(f)' = Uses(f)
  <2> SUFFICES ASSUME NEW f \in ToSet(list), obs[f] # o PROVE Uses(f)' = Uses(f)
    OBVIOUS
  <2>1. held'[obs[f]] = held[obs[f]]
    BY <1>3 DEF CountsOK
  <2>2. QED
    BY <1>1, <1>2, <2>1, UsesKept
<1>8. CASE Find(o) = None
  <2>1. UNCHANGED <<refCount, list, garbage>>
    BY <1>8 DEF Unregister
  <2>2. \A f \in ToSet(list) : obs[f] # o
    BY <1>8, FindIs DEF TypeOK
  <2>3. "app" \in Disturbances
    BY <1>1, <2>2 DEF EntriesOK
  <2>4. TypeOK'
    BY <1>1, <1>2, <1>3, <1>5, <2>1 DEF TypeOK
  <2>5. /\ Injective(list)' /\ Injective(garbage)' /\ ToSet(list') = ToSet(list)
        /\ ToSet(garbage') = ToSet(garbage)
    BY <2>1 DEF OwnedOnce, Injective
  <2>6. OwnedOnce' /\ CallsOK'
    BY <1>1, <1>4, <2>5, EntriesMove
  <2>7. CountsOK'
    BY <1>1, <1>7, <2>1, <2>2 DEF CountsOK
  <2>8. EntriesOK' /\ WalkOK'
    BY <1>5, <2>3 DEF EntriesOK, WalkOK
  <2>9. QED
    BY <1>6, <2>4, <2>6, <2>7, <2>8
<1>9. CASE Find(o) # None
  <2>1. PICK e \in Entries : e = Find(o) /\ e \in ToSet(list) /\ obs[e] = o
    BY <1>9, FindIs DEF TypeOK
  <2> DEFINE S == IF refCount[e] - 1 = 0 \/ marked[e] THEN {e} ELSE {}
  <2>2. /\ refCount' = [refCount EXCEPT ![e] = @ - 1]
        /\ ToGarbage(IF refCount'[e] = 0 \/ marked[e] THEN {e} ELSE {})
    BY <1>9, <2>1 DEF Unregister
  <2>3. /\ refCount'[e] = refCount[e] - 1 /\ refCount[e] \in 1 .. MaxHeld + 2
        /\ \A f \in Entries : f # e => refCount'[f] = refCount[f]
    BY <2>1, <2>2 DEF TypeOK, CountsOK
  <2>4. ToGarbage(S)
    BY <2>2, <2>3
  <2>5. S \subseteq {e} /\ (e \notin S => refCount[e] > 1)
    BY <2>3, Registrars
  <2>6. "app" \notin Disturbances => (refCount[e] > 1 => e \notin S)
    <3>1. "app" \notin Disturbances => ~marked[e]
      BY DEF EventOK
    <3>2. refCount[e] > 1 => refCount[e] - 1 # 0
      BY <2>3, Registrars
    <3>3. QED
      BY <3>1, <3>2
  <2> HIDE DEF S
  <2>7. /\ list' \in Seq(Entries) /\ Injective(list)'
        /\ ToSet(list') = ToSet(list) \ S
        /\ garbage' \in Seq(Entries) /\ Injective(garbage)'
        /\ ToSet(garbage') = ToSet(garbage) \cup (ToSet(list) \cap S)
    BY <2>4, GarbageMade
  <2>8. TypeOK'
    <3>1. refCount' \in [Entries -> 0 .. MaxHeld + 2]
      <4>1. refCount[e] - 1 \in 0 .. MaxHeld + 2
        BY <2>3, Registrars
      <4>2. QED
        BY <2>2, <4>1 DEF TypeOK
    <3>2. QED
      BY <1>1, <1>2, <1>3, <1>5, <2>7, <3>1 DEF TypeOK
  <2>9. OwnedOnce' /\ CallsOK'
    BY <1>1, <1>4, <2>7, EntriesMove
  <2>10. ~(\E u \in Threads : Adding(u) /\ tEntry[u] = e)
    BY <1>1, <1>2, <2>1, Registrars DEF CallsOK
  <2>11. /\ Uses(e) = held[o] + (IF e = cur THEN 1 ELSE 0)
         /\ Uses(e)' = Uses(e) - 1
    <3>1. ~(\E u \in Threads : Adding(u)' /\ tEntry'[u] = e)
      BY <1>3, <2>10
    <3>2. QED
      BY <1>1, <1>3, <2>1, <2>10, <3>1 DEF Uses
  <2>12. \A f \in ToSet(list) : f # e => obs[f] # o
    BY <2>1 DEF CountsOK
  <2>13. CountsOK'
    <3>1. \A f \in ToSet(list') : f \in ToSet(list) /\ f \in Entries
      BY <2>7, ListedEntries
    <3>2. ASSUME NEW f \in ToSet(list')
          PROVE  /\ obs'[f] \in Observers /\ refCount'[f] > 0
                 /\ ~marked'[f] => refCount'[f] <= Uses(f)'
                 /\ "app" \notin Disturbances => refCount'[f] = Uses(f)'
      <4>1. CASE f # e
        BY <1>1, <1>7, <2>3, <2>12, <3>1, <4>1 DEF CountsOK
      <4>2. CASE f = e
        <5>1. refCount[e] > 1
          BY <2>5, <2>7, <4>2
        <5>2. Uses(e) \in Nat
          BY <1>1, <2>11
        <5>3. QED
          BY <1>1, <2>1, <2>3, <2>11, <3>1, <4>2, <5>1, <5>2 DEF CountsOK
      <4>3. QED
        BY <4>1, <4>2
    <3>3. \A f, g \in ToSet(list') : obs'[f] = obs'[g] => f = g
      BY <1>1, <3>1 DEF CountsOK
    <3>4. QED
      BY <3>2, <3>3 DEF CountsOK
  <2>14. "app" \notin Disturbances /\ (held[o] > 1 \/ e = cur) => e \notin S
    <3>1. "app" \notin Disturbances => refCount[e] = Uses(e)
      BY <2>1 DEF CountsOK
    <3>2. QED
      BY <1>1, <2>6, <2>11, <3>1
  <2>15. EntriesOK'
    <3>1. ASSUME "app" \notin Disturbances, NEW q \in Observers, held'[q] > 0
          PROVE  \E f \in ToSet(list') : obs'[f] = q
      <4>1. PICK f \in ToSet(list) : obs[f] = q
        BY <1>1, <1>3, <3>1 DEF EntriesOK
      <4>2. f = e => held[o] > 1
        BY <1>1, <1>3, <2>1, <3>1, <4>1
      <4>3. f \notin S
        BY <2>5, <2>14, <3>1, <4>2
      <4>4. QED
        BY <1>1, <2>7, <4>1, <4>3
    <3>2. ASSUME "app" \notin Disturbances, NEW u \in Threads, Adding(u)'
          PROVE  tEntry'[u] \in ToSet(list') /\ held'[tObs'[u]] = 0
      <4>1. u # t /\ Adding(u) /\ tEntry'[u] = tEntry[u] /\ tEntry[u] # e
        BY <1>3, <2>10, <3>2
      <4>2. tObs[u] \in Observers /\ tObs[u] # o
        BY <1>1, <4>1, Registrars DEF CallsOK
      <4>3. tEntry[u] \in ToSet(list) /\ held[tObs[u]] = 0
        BY <3>2, <4>1 DEF EntriesOK
      <4>4. QED
        BY <1>1, <1>3, <2>5, <2>7, <4>1, <4>2, <4>3
    <3>3. QED
      BY <3>1, <3>2 DEF EntriesOK
  <2>16. WalkOK'
    <3>1. Disturbances = {} /\ cur' # None => cur' \in ToSet(list')
      BY <1>1, <2>5, <2>7, <2>14 DEF WalkOK
    <3>2. /\ \A q \in eligible' : held'[q] > 0
          /\ "app" \notin Disturbances /\ epc' = "end" => eligible' \subseteq called'
      BY <1>1, <1>5 DEF WalkOK
    <3>3. ASSUME "app" \notin Disturbances, cur # None
          PROVE  LaterIn(list', cur, eligible' \ called, obs)
      <4> DEFINE K == Entries \ S
                 D == eligible' \ called
      <4>1. LaterIn(list, cur, D, obs)
        BY <1>5, <3>3 DEF WalkOK, LaterIn
      <4>2. o \in D => held[o] > 1
        BY <1>1
      <4>3. \A f \in ToSet(list) : obs[f] \in D => f \in K
        BY <2>1, <2>5, <2>14, <3>3, <4>2, ListedEntries
      <4>4. list \in Seq(Entries) /\ Injective(list) /\ list' = Among(list, K)
        BY <2>4 DEF TypeOK, OwnedOnce, ToGarbage
      <4> HIDE DEF K, D
      <4>5. LaterIn(Among(list, K), cur, D, obs)
        BY <4>1, <4>3, <4>4, LaterKept
      <4>6. QED
        BY <4>4, <4>5 DEF D
    <3>4. "app" \notin Disturbances /\ cur' # None =>
            LaterIn(list', cur', eligible' \ called', obs')
      BY <1>1, <3>3
    <3>5. QED
      BY <3>1, <3>2, <3>4 DEF WalkOK, LaterIn
  <2>17. QED
    BY <1>6, <2>8, <2>9, <2>13, <2>15, <2>16
<1>10. QED
  BY <1>8, <1>9

LEMMA UnregisterAppKeeps ==
    ASSUME TypeOK, RegistryInvariant,
           NEW t \in Threads, UnregisterApp(t)
    PROVE  TypeOK' /\ RegistryInvariant'
<1> USE DEF RegistryInvariant
<1>1. PICK S \in SUBSET ToSet(list) : S = {e \in ToSet(list) : obs[e] \in AppObservers}
  OBVIOUS
<1>2. PICK R \in SUBSET S : R = {e \in S : ~inUse[e]}
  OBVIOUS
<1>3. /\ "app" \in Disturbances /\ pc[t] = "idle"
      /\ marked' = [e \in Entries |-> marked[e] \/ e \in S]
      /\ ToGarbage(R)
      /\ held' = [o \in Observers |-> IF o \in AppObservers THEN 0 ELSE held[o]]
      /\ eligible' = eligible \ AppObservers
      /\ Go(t, "dump", None)
      /\ UNCHANGED <<obs, refCount, inUse, mem, tObs, epc, cur, dump, undefined, called>>
  BY <1>1, <1>2 DEF UnregisterApp, MayCall, eventVars
<1>4. /\ pc' = [pc EXCEPT ![t] = "dump"] /\ tEntry' = [tEntry EXCEPT ![t] = None]
      /\ ~Adding(t)
  BY <1>3 DEF Go, Adding
<1>5. /\ list' \in Seq(Entries) /\ Injective(list)'
      /\ ToSet(list') = ToSet(list) \ R
      /\ garbage' \in Seq(Entries) /\ Injective(garbage)'
      /\ ToSet(garbage') = ToSet(garbage) \cup (ToSet(list) \cap R)
  BY <1>3, GarbageMade
<1>6. /\ held' \in [Observers -> 0 .. MaxHeld]
      /\ \A o \in Observers : held'[o] <= held[o]
      /\ \A o \in Observers : o \notin AppObservers => held'[o] = held[o]
  BY <1>3, Registrars DEF TypeOK
<1>7. \A q \in eligible' : held'[q] > 0 /\ q \in Observers
  BY <1>3, <1>6 DEF WalkOK, TypeOK
<1>8. TypeOK'
  <2>1. marked' \in [Entries -> BOOLEAN]
    BY <1>3 DEF TypeOK
  <2>2. QED
    BY <1>3, <1>4, <1>5, <1>6, <1>7, <2>1 DEF TypeOK
<1>9. OwnedOnce' /\ CallsOK'
  <2>1. /\ \A u \in Threads : \/ pc'[u] \in {"idle", "dump"}
                              \/ pc'[u] = pc[u] /\ tEntry'[u] = tEntry[u]
        /\ held' \in [Observers -> Int]
    BY <1>4, <1>6 DEF TypeOK
  <2>2. QED
    BY <1>3, <1>5, <1>6, <2>1, EntriesMove
<1>10. EventOK'
  BY <1>3 DEF EventOK
<1>11. CountsOK'
  <2>1. \A f \in ToSet(list') : f \in ToSet(list) /\ f \in Entries
    BY <1>5, ListedEntries
  <2>2. ASSUME NEW f \in ToSet(list')
        PROVE  /\ obs'[f] \in Observers /\ refCount'[f] > 0
               /\ ~marked'[f] => refCount'[f] <= Uses(f)'
    <3>1. obs'[f] \in Observers /\ refCount'[f] > 0
      BY <1>3, <2>1 DEF CountsOK
    <3>2. ASSUME ~marked'[f] PROVE refCount'[f] <= Uses(f)'
      <4>1. ~marked[f] /\ f \notin S
        BY <1>3, <2>1, <3>2
      <4>2. held'[obs[f]] = held[obs[f]]
        BY <1>1, <1>3, <1>6, <2>1, <3>1, <4>1
      <4>3. Uses(f)' = Uses(f)
        BY <1>3, <1>4, <4>2, UsesKept
      <4>4. QED
        BY <1>3, <2>1, <4>1, <4>3 DEF CountsOK
    <3>3. QED
      BY <3>1, <3>2
  <2>3. \A f, g \in ToSet(list') : obs'[f] = obs'[g] => f = g
    BY <1>3, <2>1 DEF CountsOK
  <2>4. QED
    BY <1>3, <2>2, <2>3 DEF CountsOK
<1>12. EntriesOK' /\ WalkOK'
  BY <1>3, <1>7 DEF EntriesOK, WalkOK
<1>13. QED
  BY <1>8, <1>9, <1>10, <1>11, <1>12

LEMMA DumpTakeKeeps ==
    ASSUME TypeOK, RegistryInvariant,
           NEW t \in Threads, DumpTake(t)
    PROVE  TypeOK' /\ RegistryInvariant'
<1> USE DEF RegistryInvariant
<1>1. /\ pc[t] = "dump" /\ ~Adding(t)
      /\ UNCHANGED <<list, obs, refCount, inUse, marked, mem, tObs, epc, cur, dump, undefined,
                     held, eligible, called>>
  BY DEF DumpTake, Adding, entryVars, eventVars, ghostVars
<1>2. ASSUME NEW w \in {"idle", "free"}, NEW x \in Entries \cup {None}, Go(t, w, x)
      PROVE  /\ \A u \in Threads : u # t => pc'[u] = pc[u] /\ tEntry'[u] = tEntry[u]
             /\ pc'[t] = w /\ tEntry'[t] = x /\ ~Adding(t)'
             /\ pc' \in [Threads -> {"idle", "create", "enable", "failNew", "failOld",
                                     "dump", "free"}]
             /\ tEntry' \in [Threads -> Entries \cup {None}]
             /\ CallsOK' /\ EventOK' /\ CountsOK' /\ EntriesOK' /\ WalkOK'
  <2>1. pc' = [pc EXCEPT ![t] = w] /\ tEntry' = [tEntry EXCEPT ![t] = x]
    BY <1>2 DEF Go
  <2>2. /\ \A u \in Threads : u # t => pc'[u] = pc[u] /\ tEntry'[u] = tEntry[u]
        /\ pc'[t] = w /\ tEntry'[t] = x /\ ~Adding(t)'
        /\ pc' \in [Threads -> {"idle", "create", "enable", "failNew", "failOld",
                                "dump", "free"}]
        /\ tEntry' \in [Threads -> Entries \cup {None}]
    BY <2>1 DEF Adding, TypeOK
  <2>3. CallsOK'
    BY <1>1, <2>2 DEF CallsOK, Adding
  <2>4. EventOK' /\ CountsOK' /\ EntriesOK' /\ WalkOK'
    BY <1>1, <2>2, CallMoves DEF ghostVars
  <2>5. QED
    BY <2>2, <2>3, <2>4
<1>3. CASE garbage = <<>>
  <2>1. Go(t, "idle", None) /\ garbage' = garbage
    BY <1>3 DEF DumpTake
  <2>2. TypeOK'
    BY <1>1, <1>2, <2>1 DEF TypeOK
  <2>3. OwnedOnce'
    BY <1>1, <1>2, <2>1 DEF OwnedOnce, Injective
  <2>4. QED
    BY <1>2, <2>1, <2>2, <2>3
<1>4. CASE garbage # <<>>
  <2>1. PICK e \in Entries : /\ e = Head(garbage) /\ e \in ToSet(garbage)
                             /\ garbage' = Tail(garbage) /\ garbage' \in Seq(Entries)
                             /\ Injective(garbage') /\ ToSet(garbage') = ToSet(garbage) \ {e}
    <3>1. garbage' = Tail(garbage) /\ garbage \in Seq(Entries) /\ Injective(garbage)
      BY <1>4 DEF DumpTake, TypeOK, OwnedOnce
    <3>2. QED
      BY <1>4, <3>1, HeadTaken
  <2>2. Go(t, "free", e)
    BY <1>4, <2>1 DEF DumpTake
  <2>3. TypeOK'
    BY <1>1, <1>2, <2>1, <2>2 DEF TypeOK
  <2>4. OwnedOnce'
    <3>1. e \notin ToSet(list) /\ e \notin ToSet(garbage') /\ mem[e] \in {"live", "misfreed"}
      BY <2>1 DEF OwnedOnce
    <3>2. \A u \in Threads : u # t /\ pc'[u] = "free" =>
              /\ pc[u] = "free" /\ tEntry'[u] = tEntry[u] /\ tEntry[u] # e
              /\ tEntry[u] \notin ToSet(garbage')
      BY <1>2, <2>1, <2>2 DEF OwnedOnce
    <3>3. pc'[t] = "free" /\ tEntry'[t] = e
      BY <1>2, <2>2
    <3>4. /\ Injective(list)' /\ Injective(garbage)' /\ ToSet(list') \cap ToSet(garbage') = {}
          /\ \A f \in ToSet(list') : mem'[f] = "live"
          /\ \A f \in ToSet(garbage') : mem'[f] \in {"live", "misfreed"}
      BY <1>1, <2>1 DEF OwnedOnce, Injective
    <3>5. ASSUME NEW u \in Threads, pc'[u] = "free"
          PROVE  /\ tEntry'[u] \in Entries \ (ToSet(list') \cup ToSet(garbage'))
                 /\ mem'[tEntry'[u]] \in {"live", "misfreed"}
                 /\ \A v \in Threads \ {u} : pc'[v] = "free" => tEntry'[v] # tEntry'[u]
      <4>1. CASE u = t
        BY <1>1, <3>1, <3>2, <3>3, <4>1
      <4>2. CASE u # t
        <5>1. /\ pc[u] = "free" /\ tEntry'[u] = tEntry[u] /\ tEntry[u] # e
              /\ tEntry[u] \notin ToSet(garbage')
          BY <3>2, <3>5, <4>2
        <5>2. /\ tEntry[u] \in Entries \ ToSet(list) /\ mem[tEntry[u]] \in {"live", "misfreed"}
              /\ \A v \in Threads \ {u} : pc[v] = "free" => tEntry[v] # tEntry[u]
          BY <5>1 DEF OwnedOnce
        <5>3. ASSUME NEW v \in Threads \ {u}, pc'[v] = "free" PROVE tEntry'[v] # tEntry'[u]
          BY <3>2, <3>3, <5>1, <5>2, <5>3
        <5>4. QED
          BY <1>1, <5>1, <5>2, <5>3
      <4>3. QED
        BY <4>1, <4>2
    <3>6. QED
      BY <1>1, <3>4, <3>5 DEF OwnedOnce
  <2>5. QED
    BY <1>2, <2>2, <2>3, <2>4
<1>5. QED
  BY <1>3, <1>4

LEMMA DumpFreeKeeps ==
    ASSUME TypeOK, RegistryInvariant,
           NEW t \in Threads, DumpFree(t), ~GoesWrong
    PROVE  TypeOK' /\ RegistryInvariant'
<1> USE DEF RegistryInvariant
<1>1. /\ pc[t] = "free" /\ ~Adding(t) /\ mem' = [mem EXCEPT ![tEntry[t]] = "freed"]
      /\ pc' = [pc EXCEPT ![t] = "dump"] /\ tEntry' = [tEntry EXCEPT ![t] = None]
      /\ UNCHANGED <<list, garbage, obs, refCount, inUse, marked, tObs, epc, cur, dump,
                     undefined, held, eligible, called>>
  BY DEF DumpFree, Go, Adding, eventVars, ghostVars
<1>2. PICK e \in Entries : /\ e = tEntry[t] /\ e \notin ToSet(list) /\ e \notin ToSet(garbage)
                           /\ \A u \in Threads \ {t} : pc[u] = "free" => tEntry[u] # e
  BY <1>1 DEF OwnedOnce
<1>3. /\ \A u \in Threads : u # t => pc'[u] = pc[u] /\ tEntry'[u] = tEntry[u]
      /\ pc'[t] = "dump" /\ ~Adding(t)'
      /\ \A f \in Entries : /\ f # e => mem'[f] = mem[f]
                            /\ mem'[f] = "unborn" => mem[f] = "unborn"
                            /\ mem'[f] = "misfreed" => mem[f] = "misfreed"
  BY <1>1, <1>2 DEF Adding, TypeOK
<1>4. TypeOK'
  BY <1>1, <1>2 DEF TypeOK
<1>5. OwnedOnce'
  <2>1. /\ \A f \in ToSet(list) : mem'[f] = "live"
        /\ \A f \in ToSet(garbage) : mem'[f] \in {"live", "misfreed"}
    BY <1>2, <1>3, ListedEntries DEF OwnedOnce
  <2>2. ASSUME NEW u \in Threads, pc'[u] = "free"
        PROVE  /\ u # t /\ pc[u] = "free" /\ tEntry'[u] = tEntry[u]
               /\ tEntry[u] \in Entries \ (ToSet(list) \cup ToSet(garbage))
               /\ mem'[tEntry[u]] \in {"live", "misfreed"}
    BY <1>2, <1>3, <2>2 DEF OwnedOnce
  <2>3. Injective(list)' /\ Injective(garbage)'
    BY <1>1 DEF OwnedOnce, Injective
  <2>4. QED
    BY <1>1, <1>3, <2>1, <2>2, <2>3 DEF OwnedOnce
<1>6. CallsOK'
  BY <1>1, <1>3 DEF CallsOK, Adding
<1>7. EventOK' /\ CountsOK' /\ EntriesOK' /\ WalkOK'
  BY <1>1, <1>3, CallMoves DEF ghostVars
<1>8. QED
  BY <1>4, <1>5, <1>6, <1>7

----------------------------------------------------------------------------
(* The event thread *)

(* Where the walk stops: at the end, with everybody due called, or at the   *)
(* first entry it may deliver to, with the others still due behind it.      *)
LEMMA WalkStops ==
    ASSUME TypeOK, RegistryInvariant, NEW k \in Nat, NEW n \in SUBSET Observers,
           WalkFrom(k, n), NEW D, \A o \in D : o \in Observers /\ held[o] > 0,
           "app" \notin Disturbances => \A o \in D \ n : \E m \in DOMAIN list : m >= k /\ obs[list[m]] = o
    PROVE  /\ cur' \in Entries \cup {None} /\ called' \in SUBSET Observers
           /\ epc' = IF cur' = None THEN "end" ELSE "callback"
           /\ cur' = None /\ "app" \notin Disturbances => D \subseteq called'
           /\ cur' # None => /\ cur' \in ToSet(list) /\ ~marked[cur']
                             /\ \E j \in DOMAIN list : j >= k /\ list[j] = cur'
           /\ cur' # None /\ "app" \notin Disturbances => LaterIn(list, cur', D \ called', obs)
<1> USE DEF RegistryInvariant
<1> DEFINE hits == {j \in DOMAIN list : j >= k /\ Deliverable(list[j])}
<1>1. \/ hits = {} /\ epc' = "end" /\ cur' = None /\ called' = n
      \/ \E j \in hits : /\ \A i \in hits : j <= i
                         /\ epc' = "callback" /\ cur' = list[j]
                         /\ called' = n \cup {obs[list[j]]}
  BY DEF WalkFrom
<1>2. ASSUME "app" \notin Disturbances, NEW o \in D \ n
      PROVE  \E m \in hits : obs[list[m]] = o
  <2>1. PICK m \in DOMAIN list : m >= k /\ obs[list[m]] = o
    BY <1>2
  <2>2. list[m] \in ToSet(list) /\ list[m] \in Entries
    BY ListedEntries
  <2>3. refCount[list[m]] > 0 /\ ~marked[list[m]]
    BY <1>2, <2>2 DEF CountsOK, EventOK
  <2>4. QED
    BY <2>1, <2>3 DEF Deliverable
<1>3. CASE hits = {} /\ epc' = "end" /\ cur' = None /\ called' = n
  <2>1. "app" \notin Disturbances => D \subseteq n
    BY <1>2, <1>3
  <2>2. QED
    BY <1>3, <2>1
<1>4. CASE \E j \in hits : /\ \A i \in hits : j <= i
                           /\ epc' = "callback" /\ cur' = list[j]
                           /\ called' = n \cup {obs[list[j]]}
  <2>1. PICK j \in hits : /\ \A i \in hits : j <= i
                          /\ epc' = "callback" /\ cur' = list[j]
                          /\ called' = n \cup {obs[list[j]]}
    BY <1>4
  <2>2. /\ j \in DOMAIN list /\ j >= k /\ j \in Nat /\ list[j] \in ToSet(list)
        /\ list[j] \in Entries /\ list[j] # None /\ ~marked[list[j]]
    BY ListedEntries, Registrars DEF Deliverable
  <2>3. obs[list[j]] \in Observers
    BY <2>2 DEF CountsOK
  <2>4. ASSUME "app" \notin Disturbances, NEW i \in DOMAIN list, list[i] = list[j],
               NEW o \in D \ called'
        PROVE  \E m \in DOMAIN list : m > i /\ obs[list[m]] = o
    <3>1. i = j
      BY <2>2, <2>4 DEF OwnedOnce, Injective
    <3>2. PICK m \in hits : obs[list[m]] = o
      BY <1>2, <2>1, <2>4
    <3>3. m # j /\ j <= m /\ m \in DOMAIN list
      BY <2>1, <2>4, <3>2
    <3>4. m \in Nat
      BY <3>3, ListedEntries
    <3>5. m > j
      BY <2>2, <3>3, <3>4
    <3>6. QED
      BY <3>1, <3>2, <3>3, <3>5
  <2>5. "app" \notin Disturbances => LaterIn(list, cur', D \ called', obs)
    BY <2>1, <2>4 DEF LaterIn
  <2>6. QED
    BY <2>1, <2>2, <2>3, <2>5
<1>5. QED
  BY <1>1, <1>3, <1>4

(* The counts when one callback has returned and the next one starts. *)
LEMMA Recounted ==
    ASSUME TypeOK, RegistryInvariant, Recount(cur), cur # None => cur \in ToSet(list),
           cur' \in Entries \cup {None},
           cur' # None => cur' \in ToSet(list) /\ ~marked[cur'] /\ cur' # cur,
           UNCHANGED <<obs, held, pc, tEntry>>
    PROVE  /\ refCount' \in [Entries -> 0 .. MaxHeld + 2]
           /\ inUse' \in [Entries -> BOOLEAN] /\ \A e \in Entries : inUse'[e] <=> e = cur'
           /\ \A f \in ToSet(list) :
                /\ refCount'[f] >= 0 /\ (f # cur \/ refCount[f] > 1 => refCount'[f] > 0)
                /\ ~marked[f] => refCount'[f] <= Uses(f)'
                /\ "app" \notin Disturbances => refCount'[f] = Uses(f)'
<1> USE DEF RegistryInvariant
<1>1. /\ refCount' = [e \in Entries |-> refCount[e] + (IF e = cur' THEN 1 ELSE 0)
                                                    - (IF e = cur THEN 1 ELSE 0)]
      /\ inUse' = [e \in Entries |-> e = cur']
  BY DEF Recount
<1>2. inUse' \in [Entries -> BOOLEAN] /\ \A e \in Entries : inUse'[e] <=> e = cur'
  BY <1>1
<1>3. ASSUME NEW f \in ToSet(list)
      PROVE  /\ Uses(f)' = Uses(f) + (IF f = cur' THEN 1 ELSE 0) - (IF f = cur THEN 1 ELSE 0)
             /\ Uses(f) \in Nat /\ (f # cur => Uses(f) <= MaxHeld + 1)
  <2>1. (\E u \in Threads : Adding(u)' /\ tEntry'[u] = f) <=>
        (\E u \in Threads : Adding(u) /\ tEntry[u] = f)
    BY DEF Adding
  <2>2. held[obs[f]] \in 0 .. MaxHeld
    BY DEF CountsOK, TypeOK
  <2>3. QED
    BY <2>1, <2>2, Registrars DEF Uses
<1>4. ASSUME NEW f \in Entries
      PROVE  /\ refCount'[f] = refCount[f] + (IF f = cur' THEN 1 ELSE 0)
                                           - (IF f = cur THEN 1 ELSE 0)
             /\ refCount[f] \in 0 .. MaxHeld + 2
  BY <1>1 DEF TypeOK
<1>5. ASSUME NEW f \in Entries PROVE refCount'[f] \in 0 .. MaxHeld + 2
  <2>1. CASE f = cur'
    <3>1. f \in ToSet(list) /\ ~marked[f] /\ f # cur
      BY <2>1, Registrars
    <3>2. refCount[f] <= Uses(f) /\ Uses(f) <= MaxHeld + 1 /\ Uses(f) \in Nat
      BY <1>3, <3>1 DEF CountsOK
    <3>3. refCount'[f] = refCount[f] + 1
      BY <1>4, <2>1, <3>1
    <3>4. QED
      BY <1>4, <3>2, <3>3, Registrars
  <2>2. CASE f # cur' /\ f = cur
    <3>1. refCount[f] > 0
      BY <2>2, Registrars DEF CountsOK
    <3>2. refCount'[f] = refCount[f] - 1
      BY <1>4, <2>2
    <3>3. QED
      BY <1>4, <3>1, <3>2, Registrars
  <2>3. CASE f # cur' /\ f # cur
    BY <1>4, <2>3, Registrars
  <2>4. QED
    BY <2>1, <2>2, <2>3
<1>6. refCount' \in [Entries -> 0 .. MaxHeld + 2]
  BY <1>1, <1>5
<1>7. ASSUME NEW f \in ToSet(list)
      PROVE  /\ refCount'[f] >= 0 /\ (f # cur \/ refCount[f] > 1 => refCount'[f] > 0)
             /\ ~marked[f] => refCount'[f] <= Uses(f)'
             /\ "app" \notin Disturbances => refCount'[f] = Uses(f)'
  <2>1. f \in Entries
    BY ListedEntries
  <2>2. /\ refCount[f] > 0 /\ (~marked[f] => refCount[f] <= Uses(f))
        /\ ("app" \notin Disturbances => refCount[f] = Uses(f))
    BY DEF CountsOK
  <2>3. refCount[f] \in Nat
    BY <1>4, <2>1, Registrars
  <2>4. QED
    BY <1>3, <1>4, <2>1, <2>2, <2>3
<1>8. QED
  BY <1>2, <1>6, <1>7

LEMMA EventStartKeeps ==
    ASSUME TypeOK, RegistryInvariant, EventStart
    PROVE  TypeOK' /\ RegistryInvariant'
<1> USE DEF RegistryInvariant
<1> DEFINE D == {o \in Observers : held[o] > 0}
<1>1. /\ epc = "idle" /\ cur = None /\ WalkFrom(1, {}) /\ Recount(cur) /\ eligible' = D
      /\ UNCHANGED <<list, garbage, obs, marked, mem, pc, tEntry, tObs, dump, undefined, held>>
  BY DEF EventStart, EventOK, callVars
<1>2. /\ cur' \in Entries \cup {None} /\ called' \in SUBSET Observers
      /\ epc' = IF cur' = None THEN "end" ELSE "callback"
      /\ cur' = None /\ "app" \notin Disturbances => D \subseteq called'
      /\ cur' # None => cur' \in ToSet(list) /\ ~marked[cur']
      /\ cur' # None /\ "app" \notin Disturbances => LaterIn(list, cur', D \ called', obs)
  <2>1. \A o \in D : o \in Observers /\ held[o] > 0
    OBVIOUS
  <2>2. "app" \notin Disturbances =>
            \A o \in D \ {} : \E m \in DOMAIN list : m >= 1 /\ obs[list[m]] = o
    <3> SUFFICES ASSUME "app" \notin Disturbances, NEW o \in D
                 PROVE  \E m \in DOMAIN list : m >= 1 /\ obs[list[m]] = o
      OBVIOUS
    <3>1. PICK e \in ToSet(list) : obs[e] = o
      BY DEF EntriesOK
    <3>2. PICK m \in 1 .. Len(list) : list[m] = e /\ DOMAIN list = 1 .. Len(list)
      BY MembersAt DEF TypeOK
    <3>3. QED
      BY <3>1, <3>2
  <2> DEFINE k == 1
             n == {}
  <2>3. /\ k \in Nat /\ n \in SUBSET Observers /\ WalkFrom(k, n)
        /\ "app" \notin Disturbances =>
             \A o \in D \ n : \E m \in DOMAIN list : m >= k /\ obs[list[m]] = o
    BY <1>1, <2>2
  <2> HIDE DEF D, k, n
  <2>4. QED
    BY <2>1, <2>3, WalkStops
<1> HIDE DEF D
<1>3. /\ refCount' \in [Entries -> 0 .. MaxHeld + 2]
      /\ inUse' \in [Entries -> BOOLEAN] /\ \A e \in Entries : inUse'[e] <=> e = cur'
      /\ \A f \in ToSet(list) :
           /\ refCount'[f] >= 0 /\ (f # cur \/ refCount[f] > 1 => refCount'[f] > 0)
           /\ ~marked[f] => refCount'[f] <= Uses(f)'
           /\ "app" \notin Disturbances => refCount'[f] = Uses(f)'
  BY <1>1, <1>2, Recounted
<1>4. D \subseteq Observers /\ \A o \in D : held[o] > 0
  BY DEF D
<1>5. TypeOK'
  BY <1>1, <1>2, <1>3, <1>4 DEF TypeOK
<1>6. OwnedOnce'
  BY <1>1 DEF OwnedOnce, Injective
<1>7. CallsOK'
  BY <1>1 DEF CallsOK, Adding
<1>8. EventOK'
  BY <1>1, <1>2, <1>3 DEF EventOK, OwnedOnce
<1>9. CountsOK'
  <2>1. \A f \in ToSet(list) : f # cur
    BY <1>1, ListedEntries, Registrars
  <2>2. QED
    BY <1>1, <1>3, <2>1 DEF CountsOK
<1>10. EntriesOK'
  BY <1>1 DEF EntriesOK, Adding
<1>11. WalkOK'
  <2>1. /\ Disturbances = {} /\ cur' # None => cur' \in ToSet(list')
        /\ \A o \in eligible' : held'[o] > 0
        /\ "app" \notin Disturbances /\ epc' = "end" => eligible' \subseteq called'
    BY <1>1, <1>2, <1>4
  <2>2. "app" \notin Disturbances /\ cur' # None =>
          LaterIn(list', cur', eligible' \ called', obs')
    BY <1>1, <1>2
  <2>3. QED
    BY <2>1, <2>2 DEF WalkOK, LaterIn
<1>12. QED
  BY <1>5, <1>6, <1>7, <1>8, <1>9, <1>10, <1>11

LEMMA CallbackReturnKeeps ==
    ASSUME TypeOK, RegistryInvariant, CallbackReturn, ~GoesWrong
    PROVE  TypeOK' /\ RegistryInvariant'
<1> USE DEF RegistryInvariant
<1>1. PICK e \in Entries : e = cur /\ e \in ToSet(list)
  BY ListedEntries DEF CallbackReturn
<1>2. PICK p \in DOMAIN list : p = Position(e) /\ list[p] = e /\ p \in Nat
  BY <1>1, ListedEntries DEF Position
<1>3. PICK S : S = IF refCount[e] = 1 \/ marked[e] THEN {e} ELSE {}
  OBVIOUS
<1>4. /\ epc = "callback" /\ WalkFrom(p + 1, called) /\ Recount(cur) /\ ToGarbage(S)
      /\ dump' \in BOOLEAN
      /\ UNCHANGED <<obs, marked, mem, pc, tEntry, tObs, undefined, held, eligible>>
  BY <1>1, <1>2, <1>3 DEF CallbackReturn, callVars
<1>5. /\ S \subseteq {e} /\ (e \notin S => refCount[e] > 1)
      /\ "app" \notin Disturbances /\ refCount[e] > 1 => e \notin S
  <2>1. refCount[e] \in Nat /\ refCount[e] > 0 /\ (marked[e] => "app" \in Disturbances)
    BY <1>1, Registrars DEF CountsOK, TypeOK, EventOK
  <2>2. QED
    BY <1>3, <2>1
<1>6. /\ cur' \in Entries \cup {None} /\ called' \in SUBSET Observers
      /\ epc' = IF cur' = None THEN "end" ELSE "callback"
      /\ cur' = None /\ "app" \notin Disturbances => eligible \subseteq called'
      /\ cur' # None => /\ cur' \in ToSet(list) /\ ~marked[cur']
                        /\ \E j \in DOMAIN list : j >= p + 1 /\ list[j] = cur'
      /\ cur' # None /\ "app" \notin Disturbances => LaterIn(list, cur', eligible \ called', obs)
  <2>1. \A o \in eligible : o \in Observers /\ held[o] > 0
    BY DEF WalkOK, TypeOK
  <2>2. "app" \notin Disturbances =>
            \A o \in eligible \ called : \E m \in DOMAIN list : m >= p + 1 /\ obs[list[m]] = o
    <3> SUFFICES ASSUME "app" \notin Disturbances, NEW o \in eligible \ called
                 PROVE  \E m \in DOMAIN list : m >= p + 1 /\ obs[list[m]] = o
      OBVIOUS
    <3>1. PICK m \in DOMAIN list : m > p /\ obs[list[m]] = o
      BY <1>1, <1>2, Registrars DEF WalkOK
    <3>2. m \in Nat
      BY ListedEntries
    <3>3. QED
      BY <1>2, <3>1, <3>2
  <2>3. p + 1 \in Nat /\ called \in SUBSET Observers
    BY <1>2 DEF TypeOK
  <2>4. QED
    BY <1>4, <2>1, <2>2, <2>3, WalkStops
<1>7. cur' # None => cur' # cur
  <2> SUFFICES ASSUME cur' # None, cur' = e PROVE FALSE
    BY <1>1
  <2>1. PICK j \in DOMAIN list : j >= p + 1 /\ list[j] = e
    BY <1>6
  <2>2. j = p
    BY <1>2, <2>1 DEF OwnedOnce, Injective
  <2>3. QED
    BY <1>2, <2>1, <2>2
<1>8. /\ refCount' \in [Entries -> 0 .. MaxHeld + 2]
      /\ inUse' \in [Entries -> BOOLEAN] /\ \A f \in Entries : inUse'[f] <=> f = cur'
      /\ \A f \in ToSet(list) :
           /\ refCount'[f] >= 0 /\ (f # cur \/ refCount[f] > 1 => refCount'[f] > 0)
           /\ ~marked[f] => refCount'[f] <= Uses(f)'
           /\ "app" \notin Disturbances => refCount'[f] = Uses(f)'
  BY <1>1, <1>4, <1>6, <1>7, Recounted
<1>9. /\ list' \in Seq(Entries) /\ Injective(list)'
      /\ ToSet(list') = ToSet(list) \ S
      /\ garbage' \in Seq(Entries) /\ Injective(garbage)'
      /\ ToSet(garbage') = ToSet(garbage) \cup (ToSet(list) \cap S)
  BY <1>4, GarbageMade
<1>10. TypeOK'
  BY <1>4, <1>6, <1>8, <1>9 DEF TypeOK
<1>11. OwnedOnce' /\ CallsOK'
  <2>1. held' \in [Observers -> Int] /\ \A o \in Observers : held'[o] <= held[o]
    BY <1>4 DEF TypeOK
  <2>2. QED
    BY <1>4, <1>9, <2>1, EntriesMove
<1>12. EventOK'
  BY <1>4, <1>6, <1>8 DEF EventOK, OwnedOnce
<1>13. CountsOK'
  <2>1. \A f \in ToSet(list') : f \in ToSet(list) /\ (f = cur => refCount[f] > 1)
    BY <1>1, <1>5, <1>9
  <2>2. \A f, g \in ToSet(list') : obs'[f] = obs'[g] => f = g
    BY <1>4, <2>1 DEF CountsOK
  <2>3. ASSUME NEW f \in ToSet(list')
        PROVE  /\ obs'[f] \in Observers /\ refCount'[f] > 0
               /\ ~marked'[f] => refCount'[f] <= Uses(f)'
               /\ "app" \notin Disturbances => refCount'[f] = Uses(f)'
    BY <1>4, <1>8, <2>1 DEF CountsOK
  <2>4. QED
    BY <2>2, <2>3 DEF CountsOK
<1>14. ASSUME "app" \notin Disturbances,
              held[obs[e]] > 0 \/ \E u \in Threads : Adding(u) /\ tEntry[u] = e
       PROVE  e \notin S
  <2>1. refCount[e] = Uses(e) /\ obs[e] \in Observers
    BY <1>1, <1>14 DEF CountsOK
  <2>2. held[obs[e]] \in Nat
    BY <2>1 DEF TypeOK
  <2>3. Uses(e) > 1
    BY <1>1, <1>14, <2>2 DEF Uses
  <2>4. QED
    BY <1>5, <1>14, <2>1, <2>3
<1>15. EntriesOK'
  <2>1. ASSUME "app" \notin Disturbances, NEW o \in Observers, held[o] > 0
        PROVE  \E f \in ToSet(list') : obs[f] = o
    <3>1. PICK f \in ToSet(list) : obs[f] = o
      BY <2>1 DEF EntriesOK
    <3>2. f \notin S
      BY <1>5, <1>14, <2>1, <3>1
    <3>3. QED
      BY <1>9, <3>1, <3>2
  <2>2. ASSUME "app" \notin Disturbances, NEW u \in Threads, Adding(u)
        PROVE  tEntry[u] \in ToSet(list') /\ held[tObs[u]] = 0
    <3>1. tEntry[u] \in ToSet(list) /\ held[tObs[u]] = 0
      BY <2>2 DEF EntriesOK
    <3>2. tEntry[u] \notin S
      BY <1>5, <1>14, <2>2
    <3>3. QED
      BY <1>9, <3>1, <3>2
  <2>3. QED
    BY <1>4, <2>1, <2>2 DEF EntriesOK, Adding
<1>16. WalkOK'
  <2>1. /\ Disturbances = {} /\ cur' # None => cur' \in ToSet(list')
        /\ \A o \in eligible' : held'[o] > 0
        /\ "app" \notin Disturbances /\ epc' = "end" => eligible' \subseteq called'
    BY <1>1, <1>4, <1>5, <1>6, <1>7, <1>9 DEF WalkOK
  <2>2. ASSUME "app" \notin Disturbances, cur' # None
        PROVE  LaterIn(list', cur', eligible \ called', obs)
    <3> DEFINE K == Entries \ S
               D == eligible \ called'
    <3>1. LaterIn(list, cur', D, obs)
      BY <1>6, <2>2
    <3>2. \A f \in ToSet(list) : obs[f] \in D => f \in K
      <4> SUFFICES ASSUME NEW f \in ToSet(list), obs[f] \in D, f \in S PROVE FALSE
        BY ListedEntries
      <4>1. f = e /\ held[obs[e]] > 0
        BY <1>5 DEF WalkOK
      <4>2. QED
        BY <1>14, <2>2, <4>1
    <3>3. list \in Seq(Entries) /\ Injective(list) /\ list' = Among(list, K)
      BY <1>4 DEF TypeOK, OwnedOnce, ToGarbage
    <3> HIDE DEF K, D
    <3>4. LaterIn(Among(list, K), cur', D, obs)
      BY <3>1, <3>2, <3>3, LaterKept
    <3>5. QED
      BY <3>3, <3>4 DEF D
  <2>3. "app" \notin Disturbances /\ cur' # None =>
          LaterIn(list', cur', eligible' \ called', obs')
    BY <1>4, <2>2
  <2>4. QED
    BY <2>1, <2>3 DEF WalkOK, LaterIn
<1>17. QED
  BY <1>10, <1>11, <1>12, <1>13, <1>15, <1>16

LEMMA EventDumpKeeps ==
    ASSUME TypeOK, RegistryInvariant, EventDump
    PROVE  TypeOK' /\ RegistryInvariant'
<1> USE DEF RegistryInvariant
<1>1. PICK t \in Threads : t = EventThread
  BY Registrars
<1>2. /\ pc[t] = "idle" /\ ~Adding(t) /\ dump' = FALSE
      /\ pc' = [pc EXCEPT ![t] = "dump"] /\ tEntry' = [tEntry EXCEPT ![t] = None]
      /\ UNCHANGED <<list, garbage, obs, refCount, inUse, marked, mem, tObs, epc, cur,
                     undefined, held, eligible, called>>
  BY <1>1 DEF EventDump, Go, Adding, entryVars, ghostVars
<1>3. /\ \A u \in Threads : u # t => pc'[u] = pc[u] /\ tEntry'[u] = tEntry[u]
      /\ pc'[t] = "dump" /\ ~Adding(t)'
  BY <1>2 DEF Adding, TypeOK
<1>4. TypeOK'
  BY <1>2 DEF TypeOK
<1>5. OwnedOnce'
  BY <1>2, <1>3 DEF OwnedOnce, Injective
<1>6. CallsOK'
  BY <1>2, <1>3 DEF CallsOK, Adding
<1>7. EventOK' /\ CountsOK' /\ EntriesOK' /\ WalkOK'
  BY <1>2, <1>3, CallMoves DEF ghostVars
<1>8. QED
  BY <1>4, <1>5, <1>6, <1>7

LEMMA EventEndKeeps ==
    ASSUME TypeOK, RegistryInvariant, EventEnd
    PROVE  TypeOK' /\ RegistryInvariant'
<1> USE DEF RegistryInvariant
<1>1. /\ epc = "end" /\ epc' = "idle" /\ eligible' = {} /\ called' = {}
      /\ UNCHANGED <<list, garbage, obs, refCount, inUse, marked, mem, pc, tEntry, tObs, cur,
                     dump, undefined, held>>
  BY DEF EventEnd, entryVars, callVars
<1>2. TypeOK'
  BY <1>1 DEF TypeOK
<1>3. OwnedOnce' /\ CallsOK' /\ EntriesOK'
  BY <1>1 DEF OwnedOnce, Injective, CallsOK, EntriesOK, Adding
<1>4. EventOK'
  BY <1>1 DEF EventOK
<1>5. CountsOK'
  BY <1>1 DEF CountsOK, Uses, Adding
<1>6. WalkOK'
  BY <1>1 DEF WalkOK, EventOK
<1>7. QED
  BY <1>2, <1>3, <1>4, <1>5, <1>6

(* What goes wrong is only noted; nothing else moves. *)
LEMMA NothingMoves ==
    ASSUME TypeOK, RegistryInvariant, undefined' \in BOOLEAN,
           UNCHANGED <<list, garbage, entryVars, callVars, eventVars, ghostVars>>
    PROVE  TypeOK' /\ RegistryInvariant'
<1> USE DEF RegistryInvariant
<1>1. UNCHANGED <<list, garbage, obs, refCount, inUse, marked, mem, pc, tEntry, tObs, epc, cur,
                  dump, held, eligible, called>>
  BY DEF entryVars, callVars, eventVars, ghostVars
<1>2. TypeOK'
  BY <1>1 DEF TypeOK
<1>3. OwnedOnce' /\ CallsOK' /\ EntriesOK'
  BY <1>1 DEF OwnedOnce, Injective, CallsOK, EntriesOK, Adding
<1>4. EventOK' /\ WalkOK'
  BY <1>1 DEF EventOK, WalkOK
<1>5. CountsOK'
  BY <1>1 DEF CountsOK, Uses, Adding
<1>6. QED
  BY <1>2, <1>3, <1>4, <1>5

----------------------------------------------------------------------------
(* The theorems about the registry *)

LEMMA InitGives == Init => TypeOK /\ RegistryInvariant
<1> SUFFICES ASSUME Init PROVE TypeOK /\ RegistryInvariant
  OBVIOUS
<1>1. /\ list = <<>> /\ garbage = <<>> /\ <<>> \in Seq(Entries)
      /\ DOMAIN list = {} /\ DOMAIN garbage = {} /\ ToSet(list) = {} /\ ToSet(garbage) = {}
  BY DEF Init, ToSet
<1>2. TypeOK
  <2>1. 0 \in 0 .. MaxHeld /\ 0 \in 0 .. MaxHeld + 2
    BY Registrars
  <2>2. QED
    BY <1>1, <2>1 DEF Init, TypeOK
<1>3. OwnedOnce
  BY <1>1 DEF Init, OwnedOnce, Injective
<1>4. CallsOK
  BY DEF Init, CallsOK, Adding
<1>5. EventOK
  BY Registrars DEF Init, EventOK
<1>6. CountsOK
  BY <1>1 DEF CountsOK
<1>7. EntriesOK
  BY DEF Init, EntriesOK, Adding
<1>8. WalkOK
  BY DEF Init, WalkOK
<1>9. QED
  BY <1>2, <1>3, <1>4, <1>5, <1>6, <1>7, <1>8 DEF RegistryInvariant

LEMMA NextKeeps == TypeOK /\ RegistryInvariant /\ [Next]_vars => TypeOK' /\ RegistryInvariant'
<1> SUFFICES ASSUME TypeOK, RegistryInvariant, [Next]_vars PROVE TypeOK' /\ RegistryInvariant'
  OBVIOUS
<1>1. CASE UNCHANGED vars
  BY <1>1, NothingMoves DEF vars, TypeOK
<1>2. CASE Next
  <2>1. CASE GoesWrong
    BY <2>1, NothingMoves DEF GoesWrong
  <2>2. CASE ~GoesWrong
    <3>1. ASSUME NEW t \in Threads, Call(t) PROVE TypeOK' /\ RegistryInvariant'
      BY <3>1, RegisterKnownKeeps, RegisterUnknownKeeps, UnregisterKeeps,
         UnregisterAppKeeps DEF Call
    <3>2. ASSUME NEW t \in Threads, CallStep(t) PROVE TypeOK' /\ RegistryInvariant'
      BY <2>2, <3>2, RegisterAddKeeps, RegisterNoMemoryKeeps, EnableEventKeeps,
         RegisterFailKeeps, DumpTakeKeeps, DumpFreeKeeps DEF CallStep
    <3>3. CASE EventStart
      BY <3>3, EventStartKeeps
    <3>4. CASE EventStep
      BY <2>2, <3>4, CallbackReturnKeeps, EventDumpKeeps, EventEndKeeps DEF EventStep
    <3>5. QED
      BY <1>2, <3>1, <3>2, <3>3, <3>4 DEF Next
  <2>3. QED
    BY <2>1, <2>2
<1>3. QED
  BY <1>1, <1>2

(* The invariant of lists, entries, registrations, counts and walk holds     *)
(* always, whatever disturbs the registry.                                   *)
THEOREM RegistryInvariantHolds == Spec => [](TypeOK /\ RegistryInvariant)
<1>1. Init => TypeOK /\ RegistryInvariant
  BY InitGives
<1>2. TypeOK /\ RegistryInvariant /\ [Next]_vars => (TypeOK /\ RegistryInvariant)'
  BY NextKeeps
<1>3. QED
  BY <1>1, <1>2, PTL DEF Spec

(* The types hold: in particular no reference count goes below zero. *)
THEOREM RegistryTypeCorrect == Spec => []TypeOK
  BY RegistryInvariantHolds, PTL

(* As long as no whole application is unregistered and no enable fails, the  *)
(* node the event thread stands on is on the list when the callback returns. *)
THEOREM NodesInUseStay == Spec => [](Disturbances = {} => InUseNodeStays)
<1>1. RegistryInvariant => (Disturbances = {} => InUseNodeStays)
  BY DEF RegistryInvariant, WalkOK, EventOK, InUseNodeStays
<1>2. QED
  BY <1>1, RegistryInvariantHolds, PTL

(* As long as no whole application is unregistered, every observer that was  *)
(* registered when the event was dequeued and stays so is called, however    *)
(* the list changes under the walk, and also if an enable fails meanwhile.   *)
THEOREM ObserversNotSkipped == Spec => []("app" \notin Disturbances => NoObserverSkipped)
<1>1. RegistryInvariant => ("app" \notin Disturbances => NoObserverSkipped)
  BY DEF RegistryInvariant, WalkOK, NoObserverSkipped
<1>2. QED
  BY <1>1, RegistryInvariantHolds, PTL

(* A set with at most one element. *)
LEMMA AtMostOne ==
    ASSUME NEW A, \A x, y \in A : x = y
    PROVE  Cardinality(A) \in Nat /\ Cardinality(A) <= 1 /\ (A = {} => Cardinality(A) = 0)
<1>1. CASE A = {}
  BY <1>1, FS_EmptySet
<1>2. CASE A # {}
  <2>1. PICK x : A = {x}
    BY <1>2
  <2>2. Cardinality(A) = 1
    BY <2>1, FS_Singleton
  <2>3. QED
    BY <1>2, <2>2
<1>3. QED
  BY <1>1, <1>2

LEMMA InvariantGivesNoDangling == TypeOK /\ RegistryInvariant => NoDanglingEntry
<1> SUFFICES ASSUME TypeOK, RegistryInvariant, NEW e \in Entries
             PROVE  Owners(e) <= IF mem[e] \in {"live", "misfreed"} THEN 1 ELSE 0
  BY DEF NoDanglingEntry
<1> USE DEF RegistryInvariant
<1> DEFINE L == {k \in DOMAIN list : list[k] = e}
           G == {k \in DOMAIN garbage : garbage[k] = e}
           F == {t \in Threads : pc[t] = "free" /\ tEntry[t] = e}
<1>1. Owners(e) = Cardinality(L) + Cardinality(G) + Cardinality(F)
  BY DEF Owners
<1>2. /\ \A x, y \in L : x = y
      /\ \A x, y \in G : x = y
      /\ \A x, y \in F : x = y
  BY DEF OwnedOnce, Injective
<1>3. /\ L # {} => e \in ToSet(list)
      /\ G # {} => e \in ToSet(garbage)
      /\ F # {} => e \notin ToSet(list) /\ e \notin ToSet(garbage) /\ mem[e] \in {"live", "misfreed"}
  BY DEF ToSet, OwnedOnce
<1>4. /\ e \in ToSet(list) => mem[e] \in {"live", "misfreed"} /\ e \notin ToSet(garbage)
      /\ e \in ToSet(garbage) => mem[e] \in {"live", "misfreed"}
  BY DEF OwnedOnce
<1> HIDE DEF L, G, F
<1>5. Cardinality(L) \in Nat /\ Cardinality(L) <= 1 /\ (L = {} => Cardinality(L) = 0)
  BY <1>2, AtMostOne
<1>6. Cardinality(G) \in Nat /\ Cardinality(G) <= 1 /\ (G = {} => Cardinality(G) = 0)
  BY <1>2, AtMostOne
<1>7. Cardinality(F) \in Nat /\ Cardinality(F) <= 1 /\ (F = {} => Cardinality(F) = 0)
  BY <1>2, AtMostOne
<1>8. CASE L # {}
  <2>1. G = {} /\ F = {} /\ mem[e] \in {"live", "misfreed"}
    BY <1>3, <1>4, <1>8
  <2>2. QED
    BY <1>1, <1>5, <1>6, <1>7, <2>1
<1>9. CASE L = {} /\ G # {}
  <2>1. F = {} /\ mem[e] \in {"live", "misfreed"}
    BY <1>3, <1>4, <1>9
  <2>2. QED
    BY <1>1, <1>5, <1>6, <1>7, <1>9, <2>1
<1>10. CASE L = {} /\ G = {}
  <2>1. F # {} => mem[e] \in {"live", "misfreed"}
    BY <1>3
  <2>2. QED
    BY <1>1, <1>5, <1>6, <1>7, <1>10, <2>1
<1>11. QED
  BY <1>8, <1>9, <1>10

(* Whatever disturbs the registry, an entry is on one list or in one         *)
(* thread's hands at most, and nowhere once it is freed.  The exception, a   *)
(* new entry freed although the garbage still leads to it, needs both: a     *)
(* whole application that goes while one of its registrations is being       *)
(* enabled, and the failure of that enable.  Without one of them no entry is *)
(* freed early.                                                              *)
THEOREM NoEntryDangles ==
    Spec => [](/\ NoDanglingEntry
               /\ (\E e \in Entries : mem[e] = "misfreed") =>
                      {"app", "enable"} \subseteq Disturbances)
<1>1. TypeOK /\ RegistryInvariant => NoDanglingEntry
  BY InvariantGivesNoDangling
<1>2. RegistryInvariant => ((\E e \in Entries : mem[e] = "misfreed") =>
                              {"app", "enable"} \subseteq Disturbances)
  BY DEF RegistryInvariant, OwnedOnce
<1>3. QED
  BY <1>1, <1>2, RegistryInvariantHolds, PTL

(* The event thread alone chooses whom to call, and by the count. *)
LEMMA CalledIsCounted ==
    ASSUME TypeOK, RegistryInvariant, Next, cur' # cur, cur' # None
    PROVE  \E e \in ToSet(list) : e = cur' /\ refCount[e] > 0
<1>1. ASSUME NEW k, NEW n, WalkFrom(k, n) PROVE \E e \in ToSet(list) : e = cur' /\ refCount[e] > 0
  <2>1. PICK j \in DOMAIN list : cur' = list[j] /\ Deliverable(list[j])
    BY <1>1 DEF WalkFrom
  <2>2. QED
    BY <2>1, ListedEntries DEF Deliverable
<1>2. GoesWrong => cur' = cur
  BY DEF GoesWrong, eventVars
<1>3. ASSUME NEW t \in Threads, Call(t) \/ CallStep(t) PROVE cur' = cur
  BY <1>2, <1>3 DEF Call, CallStep, RegisterKnown, RegisterUnknown, Unregister, UnregisterApp,
     RegisterAdd, RegisterNoMemory, EnableEvent, RegisterFail, DumpTake, DumpFree, eventVars
<1>4. EventDump \/ EventEnd => cur' = cur
  BY DEF EventDump, EventEnd
<1>5. CASE EventStart
  BY <1>1, <1>5 DEF EventStart
<1>6. CASE CallbackReturn
  BY <1>1, <1>2, <1>6 DEF CallbackReturn
<1>7. QED
  BY <1>3, <1>4, <1>5, <1>6 DEF Next, EventStep

LEMMA NextCallsRegistered ==
    ASSUME TypeOK, RegistryInvariant, Disturbances = {}, [Next]_vars
    PROVE  [CalledIsRegistered]_vars
<1> USE DEF RegistryInvariant
<1> SUFFICES ASSUME Next, cur' # cur, cur' # None
             PROVE  held[obs[cur']] > 0 \/ Registering(obs[cur']) # {}
  BY DEF CalledIsRegistered
<1>1. PICK e \in ToSet(list) : e = cur' /\ refCount[e] > 0
  BY CalledIsCounted
<1>2. refCount[e] = Uses(e) /\ obs[e] \in Observers /\ held[obs[e]] \in Nat
  BY DEF CountsOK, TypeOK
<1>3. held[obs[e]] > 0 \/ \E t \in Threads : Adding(t) /\ tEntry[t] = e
  BY <1>1, <1>2 DEF Uses
<1>4. ASSUME NEW t \in Threads, Adding(t), tEntry[t] = e PROVE t \in Registering(obs[e])
  BY <1>4 DEF CallsOK, Adding, Registering
<1>5. QED
  BY <1>1, <1>3, <1>4

(* As long as no whole application is unregistered and no enable fails, no   *)
(* callback starts for an observer whose unregistration has taken effect.    *)
THEOREM UnregisteredNotCalled ==
    Spec /\ Disturbances = {} => NoCallbackAfterUnregister
<1>1. TypeOK /\ RegistryInvariant /\ Disturbances = {} /\ [Next]_vars
        => [CalledIsRegistered]_vars
  BY NextCallsRegistered
<1>2. Disturbances = {} /\ [Next]_vars => (Disturbances = {})'
  OBVIOUS
<1>3. QED
  BY <1>1, <1>2, RegistryInvariantHolds, PTL DEF Spec, NoCallbackAfterUnregister

LEMMA NothingGoesWrong ==
    ASSUME TypeOK, RegistryInvariant, Disturbances = {}, Next
    PROVE  undefined' = undefined
<1> USE DEF RegistryInvariant
<1>1. ASSUME NEW t \in Threads, Call(t) PROVE undefined' = undefined
  BY <1>1 DEF Call, RegisterKnown, RegisterUnknown, Unregister, UnregisterApp
<1>2. ASSUME NEW t \in Threads, CallStep(t) PROVE undefined' = undefined
  <2>1. pc[t] = "enable" => mem[tEntry[t]] = "live"
    BY DEF EntriesOK, OwnedOnce, Adding
  <2>2. pc[t] \notin {"failNew", "failOld"}
    BY DEF CallsOK
  <2>3. pc[t] = "free" => mem[tEntry[t]] = "live"
    BY DEF OwnedOnce
  <2>4. QED
    BY <1>2, <2>1, <2>2, <2>3
    DEF CallStep, RegisterAdd, RegisterNoMemory, EnableEvent, RegisterFail, DumpTake, DumpFree
<1>3. CASE EventStart \/ EventDump \/ EventEnd
  BY <1>3 DEF EventStart, EventDump, EventEnd
<1>4. CASE CallbackReturn
  <2>1. cur \in ToSet(list)
    BY <1>4 DEF CallbackReturn, EventOK, WalkOK
  <2>2. QED
    BY <1>4, <2>1 DEF CallbackReturn
<1>5. QED
  BY <1>1, <1>2, <1>3, <1>4 DEF Next, EventStep

(* As long as no whole application is unregistered and no enable fails,      *)
(* neither registering, nor releasing, nor dumping the garbage, nor          *)
(* delivering an event ever uses memory that has been freed.                 *)
THEOREM NoUseAfterFree == Spec => [](Disturbances = {} => ~undefined)
<1>1. Init => (Disturbances = {} => ~undefined)
  BY DEF Init
<1>2. /\ TypeOK /\ RegistryInvariant /\ (Disturbances = {} => ~undefined) /\ [Next]_vars
      => (Disturbances = {} => ~undefined)'
  <2> SUFFICES ASSUME TypeOK, RegistryInvariant, Disturbances = {} => ~undefined,
                      [Next]_vars, Disturbances = {}
               PROVE  ~undefined'
    OBVIOUS
  <2>1. CASE UNCHANGED vars
    BY <2>1 DEF vars
  <2>2. CASE Next
    BY <2>2, NothingGoesWrong
  <2>3. QED
    BY <2>1, <2>2
<1>3. QED
  BY <1>1, <1>2, RegistryInvariantHolds, PTL DEF Spec

----------------------------------------------------------------------------
(* Synchronous events: SyncEvent, for any set of calls.  TypeOK and          *)
(* SyncInvariant are inductive together; the step is proved for the waits    *)
(* (tokens, waiters, timers) and for the contexts and their two owners       *)
(* separately.                                                               *)

(* Types, except of the queue and the event thread; and the waits. *)
WaitPart ==
    /\ ctx \in [Calls -> {"none", "live", "freed"}]
    /\ useComplete \in [Calls -> BOOLEAN]
    /\ signaled \in [Calls -> BOOLEAN]
    /\ waiters \in [Calls -> 0 .. 1] /\ sem \in [Calls -> 0 .. 1]
    /\ spc \in [Calls -> {"idle", "timer", "wait", "down", "kill", "destroy", "returned"}]
    /\ timer \in [Calls -> {"off", "armed", "callback"}]
    /\ fired \in [Calls -> BOOLEAN]
    /\ WaitsAgree /\ ReturnsForAReason

(* The queue and the event thread. *)
QueuePart ==
    /\ queue \in Seq(Calls)
    /\ loopPc \in {"idle", "process", "destroy", "stopped"}
    /\ eCall \in Calls \cup {NoCall}
    /\ QueuedOnce

(* A call put at the end of a queue it is not in. *)
LEMMA AppendFacts ==
  ASSUME NEW S, NEW s \in Seq(S), NEW x \in S, x \notin ToSet(s),
         \A j, k \in DOMAIN s : j # k => s[j] # s[k]
  PROVE  /\ Append(s, x) \in Seq(S)
         /\ ToSet(Append(s, x)) = ToSet(s) \cup {x}
         /\ \A j, k \in DOMAIN Append(s, x) : j # k => Append(s, x)[j] # Append(s, x)[k]
<1> DEFINE r == Append(s, x)
<1>1. Injective(s) /\ x \notin ToSet(s)
  BY DEF Injective, ToSet
<1>2. r \in Seq(S) /\ Injective(r) /\ ToSet(r) = ToSet(s) \cup {x}
  BY <1>1, AddedLast
<1> HIDE DEF r
<1>3. QED
  BY <1>2 DEF Injective, r

(* The call taken from the front is in the queue no more. *)
LEMMA HeadFacts ==
  ASSUME NEW S, NEW s \in Seq(S), s # << >>,
         \A j, k \in DOMAIN s : j # k => s[j] # s[k]
  PROVE  /\ Tail(s) \in Seq(S) /\ Head(s) \in S /\ Head(s) \in ToSet(s)
         /\ ToSet(Tail(s)) = ToSet(s) \ {Head(s)}
         /\ \A j, k \in DOMAIN Tail(s) : j # k => Tail(s)[j] # Tail(s)[k]
<1> DEFINE r == Tail(s)
<1>1. Injective(s)
  BY DEF Injective
<1>2. /\ r \in Seq(S) /\ Injective(r) /\ Head(s) \in ToSet(s) /\ Head(s) \in S
      /\ ToSet(r) = ToSet(s) \ {Head(s)}
  BY <1>1, HeadTaken
<1> HIDE DEF r
<1>3. QED
  BY <1>2 DEF Injective, r

(* No action gives a token without a reason or forgets a waiter. *)
LEMMA WaitStep ==
  ASSUME SyncTypeOK, SyncInvariant, [SyncNext]_syncVars
  PROVE  WaitPart'
<1> USE DEF SyncTypeOK, SyncInvariant, WaitPart, WaitsAgree, ReturnsForAReason
<1>1. ASSUME NEW c \in Calls, Signal(c) PROVE WaitPart'
  <2>1. waiters[c] = 0 /\ sem[c] = 0
    <3>1. waiters[c] + sem[c] = 0
      BY <1>1 DEF Signal
    <3>2. waiters[c] \in 0 .. 1 /\ sem[c] \in 0 .. 1
      OBVIOUS
    <3>3. QED
      BY <3>1, <3>2
  <2>2. \/ UNCHANGED <<signaled, waiters, sem, useComplete>>
        \/ EventSet(c) /\ useComplete' = [useComplete EXCEPT ![c] = TRUE]
    BY <1>1 DEF Signal, completionVars
  <2>3. /\ spc' = [spc EXCEPT ![c] = "timer"] /\ ctx' = [ctx EXCEPT ![c] = "live"]
        /\ spc[c] = "idle" /\ UNCHANGED <<timer, fired>>
    BY <1>1 DEF Signal, timerVars
  <2>4. CASE UNCHANGED <<signaled, waiters, sem, useComplete>>
    BY <2>3, <2>4
  <2>5. CASE EventSet(c) /\ useComplete' = [useComplete EXCEPT ![c] = TRUE]
    BY <2>1, <2>3, <2>5 DEF EventSet
  <2>6. QED
    BY <2>2, <2>4, <2>5
<1>2. ASSUME NEW c \in Calls, SetTimer(c) PROVE WaitPart'
  BY <1>2 DEF SetTimer, ctxVars, completionVars, timerVars, loopVars
<1>3. ASSUME NEW c \in Calls, Wait(c) PROVE WaitPart'
  BY <1>3 DEF Wait, ctxVars, completionVars, timerVars, loopVars
<1>4. ASSUME NEW c \in Calls, Down(c) PROVE WaitPart'
  BY <1>4 DEF Down, ctxVars, completionVars, timerVars, loopVars
<1>5. ASSUME NEW c \in Calls, KillTimer(c) PROVE WaitPart'
  BY <1>5 DEF KillTimer, ctxVars, completionVars, timerVars, loopVars
<1>6. ASSUME NEW c \in Calls, Return(c) PROVE WaitPart'
  BY <1>6 DEF Return, DestroyContext, completionVars, timerVars,
       loopVars
<1>7. ASSUME NEW c \in Calls, TimerExpires(c) PROVE WaitPart'
  BY <1>7 DEF TimerExpires, ctxVars, completionVars, timerVars, loopVars
<1>8. ASSUME NEW c \in Calls, TimerCallback(c) PROVE WaitPart'
  BY <1>8 DEF TimerCallback, ctxVars, completionVars, timerVars,
       loopVars
<1>9. CASE EventDequeue
  BY <1>9 DEF EventDequeue, ctxVars, completionVars, timerVars, loopVars
<1>10. CASE EventProcessed
  <2>1. eCall \in Calls
    BY <1>10 DEF EventProcessed, QueuedOnce
  <2>2. QED
    BY <1>10, <2>1 DEF EventProcessed, EventSet, ctxVars, timerVars
<1>11. CASE EventRelease
  <2>1. eCall \in Calls
    BY <1>11 DEF EventRelease, QueuedOnce
  <2>2. QED
    BY <1>11, <2>1 DEF EventRelease, DestroyContext, completionVars, timerVars
<1>12. CASE EventThreadStops
  BY <1>12 DEF EventThreadStops, ctxVars, completionVars, timerVars,
       loopVars
<1>13. CASE QueueDestroy
  BY <1>13 DEF QueueDestroy, ctxVars, completionVars, timerVars,
       loopVars
<1>14. CASE UNCHANGED syncVars
  BY <1>14 DEF syncVars, ctxVars, completionVars, timerVars, loopVars
<1> QED
  BY <1>1, <1>2, <1>3, <1>4, <1>5, <1>6, <1>7, <1>8, <1>9, <1>10, <1>11, <1>12, <1>13, <1>14
  DEF SyncNext, SignallerStep, TimerStep, LoopStep

(* No action queues a call twice. *)
LEMMA QueueStep ==
  ASSUME SyncTypeOK, SyncInvariant, [SyncNext]_syncVars
  PROVE  QueuePart'
<1> USE DEF SyncTypeOK, SyncInvariant, QueuePart, QueuedOnce
<1>1. ASSUME NEW c \in Calls, Signal(c) PROVE QueuePart'
  <2>1. ~EventUses(c)
    BY <1>1 DEF Signal, SharesAgree
  <2>2. CASE UNCHANGED queue
    BY <1>1, <2>2 DEF Signal
  <2>3. CASE queue' = Append(queue, c)
    <3>1. c \notin ToSet(queue) /\ eCall # c
      BY <2>1 DEF EventUses
    <3>2. /\ queue' \in Seq(Calls) /\ ToSet(queue') = ToSet(queue) \cup {c}
          /\ \A j, k \in DOMAIN queue' : j # k => queue'[j] # queue'[k]
      BY <2>3, <3>1, AppendFacts
    <3>3. eCall' = eCall /\ loopPc' = loopPc
      BY <1>1 DEF Signal
    <3>4. QED
      BY <3>1, <3>2, <3>3
  <2>4. QED
    BY <1>1, <2>2, <2>3 DEF Signal
<1>2. ASSUME NEW c \in Calls, SetTimer(c) PROVE QueuePart'
  BY <1>2 DEF SetTimer, ctxVars, completionVars, timerVars, loopVars
<1>3. ASSUME NEW c \in Calls, Wait(c) PROVE QueuePart'
  BY <1>3 DEF Wait, ctxVars, completionVars, timerVars, loopVars
<1>4. ASSUME NEW c \in Calls, Down(c) PROVE QueuePart'
  BY <1>4 DEF Down, ctxVars, completionVars, timerVars, loopVars
<1>5. ASSUME NEW c \in Calls, KillTimer(c) PROVE QueuePart'
  BY <1>5 DEF KillTimer, ctxVars, completionVars, timerVars, loopVars
<1>6. ASSUME NEW c \in Calls, Return(c) PROVE QueuePart'
  BY <1>6 DEF Return, DestroyContext, completionVars, timerVars,
       loopVars
<1>7. ASSUME NEW c \in Calls, TimerExpires(c) PROVE QueuePart'
  BY <1>7 DEF TimerExpires, ctxVars, completionVars, timerVars, loopVars
<1>8. ASSUME NEW c \in Calls, TimerCallback(c) PROVE QueuePart'
  BY <1>8 DEF TimerCallback, ctxVars, completionVars, timerVars,
       loopVars
<1>9. CASE EventDequeue
  <2>1. /\ queue' = Tail(queue) /\ eCall' = Head(queue) /\ loopPc' = "process"
        /\ queue # << >>
    BY <1>9 DEF EventDequeue
  <2>2. /\ queue' \in Seq(Calls) /\ eCall' \in Calls
        /\ ToSet(queue') = ToSet(queue) \ {eCall'}
        /\ \A j, k \in DOMAIN queue' : j # k => queue'[j] # queue'[k]
    BY <2>1, HeadFacts
  <2>3. eCall' \notin ToSet(queue') /\ eCall' # NoCall
    BY SyncAssumption, <2>2
  <2>4. QED
    BY <2>1, <2>2, <2>3
<1>10. CASE EventProcessed
  BY <1>10 DEF EventProcessed, EventSet, ctxVars, timerVars
<1>11. CASE EventRelease
  <2>1. queue' = queue /\ eCall' = NoCall /\ loopPc' = "idle"
    BY <1>11 DEF EventRelease
  <2>2. NoCall \notin ToSet(queue)
    BY SyncAssumption DEF ToSet
  <2>3. QED
    BY <2>1, <2>2
<1>12. CASE EventThreadStops
  BY <1>12 DEF EventThreadStops, ctxVars, completionVars, timerVars,
       loopVars
<1>13. CASE QueueDestroy
  <2>1. queue' = << >> /\ eCall' = eCall /\ loopPc' = loopPc
    BY <1>13 DEF QueueDestroy
  <2>2. queue' \in Seq(Calls) /\ DOMAIN queue' = {} /\ ToSet(queue') = {}
    BY <2>1 DEF ToSet
  <2>3. QED
    BY <2>1, <2>2
<1>14. CASE UNCHANGED syncVars
  BY <1>14 DEF syncVars, ctxVars, completionVars, timerVars, loopVars
<1> QED
  BY <1>1, <1>2, <1>3, <1>4, <1>5, <1>6, <1>7, <1>8, <1>9, <1>10, <1>11, <1>12, <1>13, <1>14
  DEF SyncNext, SignallerStep, TimerStep, LoopStep

(* No action frees a context one owner still needs, or leaves one to nobody. *)
LEMMA ShareStep ==
  ASSUME SyncTypeOK, SyncInvariant, [SyncNext]_syncVars
  PROVE  SharesAgree'
<1> USE DEF SyncTypeOK, SyncInvariant, SharesAgree, SignallerUses, EventUses
<1>1. ASSUME NEW c \in Calls, Signal(c) PROVE SharesAgree'
  <2>1. ~EventUses(c) /\ eCall' = eCall /\ loopPc' = loopPc
    BY <1>1 DEF Signal
  <2>2. \/ queue' = queue /\ useComplete' = [useComplete EXCEPT ![c] = TRUE]
        \/ queue' = Append(queue, c) /\ useComplete' = useComplete
    BY <1>1 DEF Signal
  <2>3. spc' = [spc EXCEPT ![c] = "timer"] /\ ctx' = [ctx EXCEPT ![c] = "live"]
    BY <1>1 DEF Signal
  <2>4. CASE queue' = queue /\ useComplete' = [useComplete EXCEPT ![c] = TRUE]
    BY <2>1, <2>3, <2>4
  <2>5. CASE queue' = Append(queue, c) /\ useComplete' = useComplete
    <3>1. c \notin ToSet(queue) /\ ~useComplete[c]
      BY <1>1, <2>1 DEF Signal
    <3>2. ToSet(queue') = ToSet(queue) \cup {c}
      BY <2>5, <3>1, AppendFacts DEF QueuedOnce
    <3>3. QED
      BY <2>1, <2>3, <2>5, <3>1, <3>2
  <2>6. QED
    BY <2>2, <2>4, <2>5
<1>2. ASSUME NEW c \in Calls, SetTimer(c) PROVE SharesAgree'
  BY <1>2 DEF SetTimer, ctxVars, completionVars, timerVars, loopVars
<1>3. ASSUME NEW c \in Calls, Wait(c) PROVE SharesAgree'
  BY <1>3 DEF Wait, ctxVars, completionVars, timerVars, loopVars
<1>4. ASSUME NEW c \in Calls, Down(c) PROVE SharesAgree'
  BY <1>4 DEF Down, ctxVars, completionVars, timerVars, loopVars
<1>5. ASSUME NEW c \in Calls, KillTimer(c) PROVE SharesAgree'
  BY <1>5 DEF KillTimer, ctxVars, completionVars, timerVars, loopVars
<1>6. ASSUME NEW c \in Calls, Return(c) PROVE SharesAgree'
  BY <1>6 DEF Return, DestroyContext, loopVars
<1>7. ASSUME NEW c \in Calls, TimerExpires(c) PROVE SharesAgree'
  BY <1>7 DEF TimerExpires, ctxVars, completionVars, timerVars, loopVars
<1>8. ASSUME NEW c \in Calls, TimerCallback(c) PROVE SharesAgree'
  BY <1>8 DEF TimerCallback, ctxVars, completionVars, timerVars,
       loopVars
<1>9. CASE EventDequeue
  <2>1. /\ eCall' = Head(queue) /\ eCall = NoCall /\ loopPc = "idle" /\ loopPc' = "process"
        /\ UNCHANGED <<ctx, useComplete, spc>>
    BY <1>9 DEF EventDequeue, ctxVars, QueuedOnce
  <2>2. /\ Head(queue) \in ToSet(queue)
        /\ ToSet(queue') = ToSet(queue) \ {Head(queue)}
    BY <1>9, HeadFacts DEF EventDequeue, QueuedOnce
  <2>3. \A c \in Calls : EventUses(c)' <=> EventUses(c)
    BY SyncAssumption, <2>1, <2>2
  <2>4. QED
    BY <2>1, <2>3
<1>10. CASE EventProcessed
  BY <1>10 DEF EventProcessed, EventSet, ctxVars, timerVars
<1>11. CASE EventRelease
  <2>1. /\ eCall \in Calls /\ eCall \notin ToSet(queue) /\ loopPc = "destroy"
    BY <1>11 DEF EventRelease, QueuedOnce
  <2>2. /\ queue' = queue /\ eCall' = NoCall /\ loopPc' = "idle" /\ spc' = spc
        /\ ctx' = [ctx EXCEPT ![eCall] = IF useComplete[eCall] THEN "freed" ELSE @]
        /\ useComplete' = [useComplete EXCEPT ![eCall] = TRUE]
    BY <1>11 DEF EventRelease, DestroyContext
  <2>3. \A c \in Calls : EventUses(c)' <=> EventUses(c) /\ c # eCall
    BY SyncAssumption, <2>1, <2>2
  <2>4. QED
    BY <2>1, <2>2, <2>3
<1>12. CASE EventThreadStops
  BY <1>12 DEF EventThreadStops, ctxVars, completionVars, timerVars,
       loopVars
<1>13. CASE QueueDestroy
  <2>1. /\ queue' = << >> /\ eCall' = eCall /\ loopPc = "stopped" /\ loopPc' = loopPc
        /\ UNCHANGED <<ctx, useComplete, spc>> /\ eCall = NoCall
    BY <1>13 DEF QueueDestroy, ctxVars, QueuedOnce
  <2>2. ToSet(queue') = {}
    BY <2>1 DEF ToSet
  <2>3. QED
    BY <2>1, <2>2
<1>14. CASE UNCHANGED syncVars
  BY <1>14 DEF syncVars, ctxVars, completionVars, timerVars, loopVars
<1> QED
  BY <1>1, <1>2, <1>3, <1>4, <1>5, <1>6, <1>7, <1>8, <1>9, <1>10, <1>11, <1>12, <1>13, <1>14
  DEF SyncNext, SignallerStep, TimerStep, LoopStep

(* SyncTypeOK and SyncInvariant are inductive. *)
LEMMA SyncInductive ==
  SyncSpec => [](SyncTypeOK /\ SyncInvariant)
<1>1. SyncInit => SyncTypeOK /\ SyncInvariant
  <2>1. SUFFICES ASSUME SyncInit PROVE SyncTypeOK /\ SyncInvariant
    OBVIOUS
  <2>2. queue = << >> /\ queue \in Seq(Calls) /\ DOMAIN queue = {} /\ ToSet(queue) = {}
    BY <2>1 DEF SyncInit, ToSet
  <2>3. SyncTypeOK
    BY <2>1, <2>2 DEF SyncInit, SyncTypeOK
  <2>4. QueuedOnce
    BY <2>1, <2>2 DEF SyncInit, QueuedOnce
  <2>5. SharesAgree
    BY SyncAssumption, <2>1, <2>2 DEF SyncInit, SharesAgree, SignallerUses, EventUses
  <2>6. WaitsAgree /\ ReturnsForAReason
    BY <2>1 DEF SyncInit, WaitsAgree, ReturnsForAReason
  <2>7. QED
    BY <2>3, <2>4, <2>5, <2>6 DEF SyncInvariant
<1>2. SyncTypeOK /\ SyncInvariant /\ [SyncNext]_syncVars
      => (SyncTypeOK /\ SyncInvariant)'
  BY SyncAssumption, WaitStep, QueueStep, ShareStep DEF SyncTypeOK, SyncInvariant, WaitPart, QueuePart
<1>3. QED
  BY <1>1, <1>2, PTL DEF SyncSpec

(* The types hold: in particular no completion event ever has two tokens. *)
THEOREM SyncTypeCorrect ==
  SyncSpec => []SyncTypeOK
  BY SyncInductive, PTL

(* The invariant of contexts, owners, waits and timers holds always. *)
THEOREM SyncInvariantHolds ==
  SyncSpec => []SyncInvariant
  BY SyncInductive, PTL

(* Whatever the order in which the signalling thread and the event thread   *)
(* finish with a synchronous event, neither uses its context after the      *)
(* other has freed it.                                                      *)
THEOREM ContextOutlivesUsers ==
  SyncSpec => []UsersHaveContext
<1>1. SyncInvariant /\ SyncTypeOK => UsersHaveContext
  BY DEF SyncInvariant, SyncTypeOK, SharesAgree, SignallerUses,
       UsersHaveContext
<1>2. QED
  BY <1>1, SyncInductive, PTL

(* As long as the event thread runs, a context both have finished with has  *)
(* been freed.                                                              *)
THEOREM NoContextLeak ==
  SyncSpec => []ContextNotLeaked
<1>1. SyncInvariant /\ SyncTypeOK => ContextNotLeaked
  BY DEF SyncInvariant, SyncTypeOK, SharesAgree, SignallerUses,
       ContextNotLeaked
<1>2. QED
  BY <1>1, SyncInductive, PTL

(* EsifEventMgr_SignalSynchronousEvent stops waiting only for a processed   *)
(* (or refused) event or an expired timer.                                  *)
THEOREM WaitEndsForAReason ==
  SyncSpec => []ReturnsForAReason
<1>1. SyncInvariant => ReturnsForAReason
  BY DEF SyncInvariant
<1>2. QED
  BY <1>1, SyncInductive, PTL
====

---------------------------- MODULE ConsoleProofs ----------------------------
(***************************************************************************)
(* Proofs about the console grid (ConsoleScopes) for any number of tabs,   *)
(* searches and loads, and for every bound.                                *)
(*                                                                         *)
(* First what each operator on the cache does: Touch, Evict, Begin,        *)
(* Ensured, Extend, the queue of first pages and what is pumped from it.   *)
(* Then what they keep of the cache (CacheInv): the narrowed scopes stand  *)
(* in line by use, no load number is used twice, a log holds the pages     *)
(* that were asked for in order, the request a log waits for is out and    *)
(* asks for the page that comes next.  ConsoleInv adds that loads are      *)
(* queued only while enough are out, and what the grid draws.              *)
(***************************************************************************)
EXTENDS ConsoleScopes, FiniteSetTheorems, SequenceTheorems, WellFoundedInduction, TLAPS

\* Zenon is the default; the leaves that need arithmetic or records name SMT.
USE Zenon

\* R puts the members of M in line.
TotalOn(R, M) ==
    /\ R \subseteq M \X M
    /\ \A s \in M : <<s, s>> \notin R
    /\ \A s, t, u \in M : <<s, t>> \in R /\ <<t, u>> \in R => <<s, u>> \in R
    /\ \A s, t \in M : s # t => <<s, t>> \in R \/ <<t, s>> \in R

\* A set of naturals has a least member.
LEMMA NatMin ==
    ASSUME NEW T \in SUBSET Nat, T # {}
    PROVE  \E x \in T : \A y \in T : x <= y
<1>1. \E x \in T : \A y \in T : ~(<<y, x>> \in OpToRel(<, Nat))
  BY NatLessThanWellFounded, WFMin
<1>2. PICK x \in T : \A y \in T : ~(<<y, x>> \in OpToRel(<, Nat))
  BY <1>1
<1>3. \A y \in T : ~(y < x)
  BY <1>2 DEF OpToRel
<1> QED
  BY SMT, <1>3

\* The members before s, and the first k of the line.
Below(R, M, s) == {t \in M : <<t, s>> \in R}
First(R, M, k) == {s \in M : Cardinality(Below(R, M, s)) < k}

\* Of a finite line, the ranks.
LEMMA RankIs ==
    ASSUME NEW R, NEW M, IsFiniteSet(M), TotalOn(R, M), NEW s \in M
    PROVE  /\ IsFiniteSet(Below(R, M, s))
           /\ Cardinality(Below(R, M, s)) \in Nat
           /\ Cardinality(Below(R, M, s)) < Cardinality(M)
           /\ \A t \in Below(R, M, s) :
                  Cardinality(Below(R, M, t)) < Cardinality(Below(R, M, s))
<1>0. \A S : S \subseteq M => IsFiniteSet(S) /\ Cardinality(S) \in Nat
  BY FS_Subset, FS_CardinalityType
<1>1. Below(R, M, s) \subseteq M /\ s \notin Below(R, M, s)
  BY DEF Below, TotalOn
<1>2. Cardinality(Below(R, M, s)) <= Cardinality(M) /\ Cardinality(Below(R, M, s)) # Cardinality(M)
  BY <1>1, FS_Subset
<1>3. ASSUME NEW t \in Below(R, M, s)
      PROVE  Cardinality(Below(R, M, t)) < Cardinality(Below(R, M, s))
  <2>1. t \in M /\ t \notin Below(R, M, t) /\ Below(R, M, t) \subseteq Below(R, M, s)
    BY <1>3 DEF Below, TotalOn
  <2>2. /\ Cardinality(Below(R, M, t)) <= Cardinality(Below(R, M, s))
        /\ Cardinality(Below(R, M, t)) # Cardinality(Below(R, M, s))
    BY <2>1, <1>0, <1>1, <1>3, FS_Subset
  <2>3. Below(R, M, t) \subseteq M
    BY DEF Below
  <2> QED
    BY SMT, <2>2, <2>3, <1>0, <1>1
<1>4. Cardinality(M) \in Nat
  BY FS_CardinalityType
<1> QED
  BY SMT, <1>0, <1>1, <1>2, <1>3, <1>4

\* The first k of a finite line are k, or all of it.
LEMMA FirstAre ==
    ASSUME NEW R, NEW M, IsFiniteSet(M), TotalOn(R, M), NEW k \in Nat, k <= Cardinality(M)
    PROVE  Cardinality(First(R, M, k)) = k
<1> DEFINE rank(s) == Cardinality(Below(R, M, s))
<1> DEFINE Bad == {j \in Nat : j <= Cardinality(M) /\ Cardinality(First(R, M, j)) # j}
<1>0. /\ Cardinality(M) \in Nat
      /\ \A S : S \subseteq M => IsFiniteSet(S) /\ Cardinality(S) \in Nat
  BY FS_Subset, FS_CardinalityType
<1>1. SUFFICES ASSUME Bad # {} PROVE FALSE
  OBVIOUS
<1>2. PICK j \in Bad : \A i \in Bad : j <= i
  BY <1>1, NatMin
<1>3. \A s \in M : rank(s) \in Nat /\ rank(s) < Cardinality(M)
  BY RankIs
<1>3a. \A s \in M : \A t \in M : <<t, s>> \in R => rank(t) < rank(s)
  <2> SUFFICES ASSUME NEW s \in M, NEW t \in M, <<t, s>> \in R PROVE rank(t) < rank(s)
    OBVIOUS
  <2>1. t \in Below(R, M, s)
    BY DEF Below
  <2> QED
    BY <2>1, RankIs
<1>4. j # 0
  <2>1. First(R, M, 0) = {}
    BY SMT, <1>3 DEF First
  <2> QED
    BY <2>1, <1>2, FS_EmptySet
<1>5. j - 1 \in Nat /\ j - 1 <= Cardinality(M) /\ j - 1 \notin Bad
  BY SMT, <1>2, <1>4, <1>0
<1> DEFINE F == First(R, M, j - 1)
<1>6. Cardinality(F) = j - 1 /\ F \subseteq M /\ IsFiniteSet(F)
  BY <1>5, <1>0 DEF First
<1>7. M \ F # {}
  <2>1. j <= Cardinality(M) /\ Cardinality(F) < j
    BY SMT, <1>6, <1>2, <1>5
  <2>2. M # F
    BY SMT, <2>1, <1>0, <1>2
  <2> QED
    BY <2>2, <1>6
<1> DEFINE Ranks == {n \in Nat : \E s \in M \ F : rank(s) = n}
<1>8. Ranks # {}
  BY <1>7, <1>3
<1>9. PICK n \in Ranks : \A i \in Ranks : n <= i
  BY <1>8, NatMin
<1>10. PICK u \in M \ F : rank(u) = n
  BY <1>9
<1>11. n >= j - 1
  BY SMT, <1>10, <1>3, <1>5 DEF First
<1>12. Below(R, M, u) \subseteq F
  <2> SUFFICES ASSUME NEW t \in Below(R, M, u), t \notin F PROVE FALSE
    OBVIOUS
  <2>1. t \in M /\ rank(t) < n
    BY <1>10, <1>3a DEF Below
  <2>2. rank(t) \in Ranks
    BY <2>1, <1>3
  <2> QED
    BY SMT, <2>1, <2>2, <1>9, <1>3
<1>13. n = j - 1
  <2>1. rank(u) <= Cardinality(F)
    BY <1>12, <1>6, FS_Subset
  <2> QED
    BY SMT, <2>1, <1>6, <1>10, <1>11, <1>9, <1>5
<1>14. First(R, M, j) = F \cup {u}
  <2>1. \A s \in M : rank(s) < j <=> rank(s) < j - 1 \/ rank(s) = j - 1
    BY SMT, <1>3, <1>2, <1>5
  <2>2. ASSUME NEW s \in M, rank(s) = j - 1 PROVE s = u
    <3>1. s # u => <<s, u>> \in R \/ <<u, s>> \in R
      BY <1>10 DEF TotalOn
    <3>2. <<s, u>> \in R => rank(s) < rank(u)
      BY <1>10, <1>3a
    <3>3. <<u, s>> \in R => rank(u) < rank(s)
      BY <1>10, <1>3a
    <3> QED
      BY SMTT(40), <3>1, <3>2, <3>3, <2>2, <1>10, <1>13, <1>3
  <2>3. rank(u) = j - 1
    BY <1>10, <1>13
  <2> QED
    BY <2>1, <2>2, <2>3, <1>10 DEF First
<1>15. Cardinality(First(R, M, j)) = j
  <2>1. Cardinality(F \cup {u}) = Cardinality(F) + 1
    BY <1>10, <1>6, FS_AddElement
  <2> QED
    BY SMT, <2>1, <1>14, <1>6, <1>5, <1>2
<1> QED
  BY <1>15, <1>2

------------------------------------------------------------------------------
\* The line of the narrowed scopes, by use.
Inline(c) == TotalOn(c.older, NarrowedScopes(c))

\* s was used after every other narrowed scope.
Newest(c, s) == \A t \in NarrowedScopes(c) \ {s} : <<t, s>> \in c.older

\* The cache is as small as the scopes still loading let it be.
Trimmed(c) ==
    \/ Narrowed(c) <= MaxNarrowed
    \/ \A s \in NarrowedScopes(c) : c.logs[s].pending

\* What is in the cache is a log.
LEMMA LogIs ==
    ASSUME NEW c \in Caches, NEW s \in Scopes
    PROVE  /\ Has(c, s) => c.logs[s] \in Logs
           /\ ~Has(c, s) => c.logs[s] = Absent
           /\ Held(c, s) \in Logs
<1>1. c.logs[s] \in Logs \cup {Absent}
  BY DEF Caches
<1>2. EmptyLog \in Logs
  BY SMT DEF EmptyLog, Logs
<1> QED
  BY <1>1, <1>2 DEF Has, Held

\* Narrowed scopes are finitely many.
LEMMA NarrowedIs ==
    ASSUME NEW c
    PROVE  /\ NarrowedScopes(c) \subseteq Scopes
           /\ \A S : S \subseteq Scopes => IsFiniteSet(S) /\ Cardinality(S) \in Nat
           /\ Narrowed(c) \in Nat
<1>1. NarrowedScopes(c) \subseteq Scopes
  BY DEF NarrowedScopes
<1>2. \A S : S \subseteq Scopes => IsFiniteSet(S) /\ Cardinality(S) \in Nat
  BY ScopesAreFinite, FS_Subset, FS_CardinalityType
<1> QED
  BY <1>1, <1>2 DEF Narrowed

\* Touch puts s at the end of the line and changes nothing else.
LEMMA TouchIs ==
    ASSUME NEW c \in Caches, NEW s \in Scopes, NEW M \in SUBSET NarrowedScopes(c),
           NarrowedScopes(c) \ {s} \subseteq M, TotalOn(c.older, M)
    PROVE  /\ Touch(c, s) \in Caches
           /\ Touch(c, s).logs = c.logs
           /\ Touch(c, s).prefetch = c.prefetch
           /\ Touch(c, s).generation = c.generation
           /\ NarrowedScopes(Touch(c, s)) = NarrowedScopes(c)
           /\ Inline(Touch(c, s))
           /\ s \in NarrowedScopes(c) => Newest(Touch(c, s), s)
<1> DEFINE N == NarrowedScopes(c)
<1> DEFINE O == {p \in c.older : p[1] # s /\ p[2] # s} \cup {<<t, s>> : t \in N \ {s}}
<1> DEFINE d == Touch(c, s)
<1>1. CASE s \notin N
  <2>1. d = c /\ M = N
    BY <1>1 DEF Touch
  <2> QED
    BY <2>1, <1>1 DEF Inline
<1>2. CASE s \in N
  <2>1. d = [c EXCEPT !.older = O]
    BY <1>2 DEF Touch
  <2>2. N \subseteq Scopes /\ c.older \subseteq M \X M
    BY DEF NarrowedScopes, TotalOn
  <2>3. O \subseteq N \X N
    BY SMT, <2>2, <1>2
  <2>4. TotalOn(O, N)
    <3>1. \A a, b \in N \ {s} : <<a, b>> \in O <=> <<a, b>> \in c.older
      OBVIOUS
    <3>2. \A a \in N \ {s} : <<a, s>> \in O
      OBVIOUS
    <3>3. \A a \in N : <<s, a>> \notin O
      OBVIOUS
    <3> HIDE DEF O
    <3>4. \A a \in N : <<a, a>> \notin O
      BY <3>1, <3>3 DEF TotalOn
    <3>5. ASSUME NEW a \in N, NEW b \in N, NEW u \in N, <<a, b>> \in O, <<b, u>> \in O
          PROVE  <<a, u>> \in O
      <4>1. a # s /\ b # s
        BY <3>5, <3>3
      <4>2. u # s => <<a, b>> \in c.older /\ <<b, u>> \in c.older
        BY <4>1, <3>5, <3>1
      <4>3. u # s => <<a, u>> \in c.older
        BY <4>1, <4>2 DEF TotalOn
      <4> QED
        BY <4>1, <4>3, <3>1, <3>2
    <3>6. ASSUME NEW a \in N, NEW b \in N, a # b PROVE <<a, b>> \in O \/ <<b, a>> \in O
      <4>1. a # s /\ b # s => <<a, b>> \in c.older \/ <<b, a>> \in c.older
        BY <3>6 DEF TotalOn
      <4> QED
        BY <4>1, <3>1, <3>2, <3>6
    <3> HIDE DEF N
    <3> QED
      BY <2>3, <3>4, <3>5, <3>6 DEF TotalOn
  <2>5. d \in Caches /\ d.logs = c.logs /\ d.prefetch = c.prefetch
        /\ d.generation = c.generation /\ d.older = O
    <3>1. O \subseteq Scopes \X Scopes
      BY <2>2, <2>3
    <3> HIDE DEF O
    <3> QED
      BY <2>1, <3>1 DEF Caches
  <2>6. NarrowedScopes(d) = N
    BY <2>5 DEF NarrowedScopes, Has
  <2>7. \A t \in N \ {s} : <<t, s>> \in O
    OBVIOUS
  <2> QED
    BY <2>4, <2>5, <2>6, <2>7 DEF Inline, Newest
<1> QED
  BY <1>1, <1>2

\* What Evict takes are the oldest of the narrowed scopes at rest.
IdleScopes(c) == {s \in NarrowedScopes(c) : ~c.logs[s].pending}
Gone(c) == {s \in IdleScopes(c) :
              Cardinality({t \in IdleScopes(c) : <<t, s>> \in c.older}) < Narrowed(c) - MaxNarrowed}

\* What Evict takes is as much as the cache is over its bound, or all that is at rest.
LEMMA GoneIs ==
    ASSUME NEW c \in Caches, Inline(c)
    PROVE  /\ Gone(c) \subseteq IdleScopes(c)
           /\ Narrowed(c) <= MaxNarrowed => Gone(c) = {}
           /\ \/ Gone(c) = IdleScopes(c)
              \/ Narrowed(c) <= MaxNarrowed
              \/ Cardinality(Gone(c)) = Narrowed(c) - MaxNarrowed
           /\ \A s \in IdleScopes(c) :
                 /\ Newest(c, s)
                 /\ Cardinality(NarrowedScopes(c) \ IdleScopes(c)) < MaxNarrowed
                 => s \notin Gone(c)
<1> DEFINE I == IdleScopes(c)
           R == c.older \cap (I \X I)
           over == Narrowed(c) - MaxNarrowed
<1>1. I \subseteq NarrowedScopes(c) /\ I \subseteq Scopes
  BY DEF IdleScopes, NarrowedScopes
<1>2. IsFiniteSet(I) /\ Cardinality(I) \in Nat /\ Narrowed(c) \in Nat /\ over \in Int
  BY SMT, <1>1, NarrowedIs, LimitsFit
<1>3. TotalOn(R, I)
  <2>1. R \subseteq I \X I /\ \A a, b \in I : <<a, b>> \in R <=> <<a, b>> \in c.older
    OBVIOUS
  <2> HIDE DEF R, I
  <2> QED
    BY <1>1, <2>1 DEF TotalOn, Inline
<1>4. \A s \in I : {t \in I : <<t, s>> \in c.older} = Below(R, I, s)
  BY DEF Below
<1>5. Gone(c) = First(R, I, over)
  BY <1>4 DEF Gone, First
<1>6. \A s \in I : /\ Cardinality(Below(R, I, s)) \in Nat
                   /\ Cardinality(Below(R, I, s)) < Cardinality(I)
  <2> HIDE DEF R, I
  <2> QED
    BY <1>2, <1>3, RankIs
<1>7. Gone(c) \subseteq I
  BY DEF Gone
<1>8. over <= 0 => Gone(c) = {}
  <2> SUFFICES ASSUME over <= 0, NEW s \in Gone(c) PROVE FALSE
    OBVIOUS
  <2>1. s \in I /\ Cardinality(Below(R, I, s)) < over
    BY <1>5 DEF First
  <2> HIDE DEF R, I
  <2> QED
    BY SMT, <2>1, <1>6, <1>2
<1>9. over > Cardinality(I) => Gone(c) = I
  BY SMTT(40), <1>2, <1>5, <1>6 DEF First
<1>10. over > 0 /\ over <= Cardinality(I) => Cardinality(Gone(c)) = over
  <2> HIDE DEF R, I
  <2> SUFFICES ASSUME over > 0, over <= Cardinality(I) PROVE Cardinality(Gone(c)) = over
    OBVIOUS
  <2>1. over \in Nat
    BY SMT, <1>2
  <2> HIDE DEF over
  <2> QED
    BY <2>1, <1>2, <1>3, <1>5, FirstAre
<1>11. ASSUME NEW s \in I, Newest(c, s),
              Cardinality(NarrowedScopes(c) \ I) < MaxNarrowed
       PROVE  s \notin Gone(c)
  <2>1. Below(R, I, s) = I \ {s}
    BY <1>11, <1>1, <1>3 DEF Newest, Below, TotalOn
  <2>2. Cardinality(Below(R, I, s)) = Cardinality(I) - 1
    BY <2>1, <1>2, FS_RemoveElement
  <2>3. Narrowed(c) = Cardinality(I) + Cardinality(NarrowedScopes(c) \ I)
    <3>1. NarrowedScopes(c) = I \cup (NarrowedScopes(c) \ I) /\ I \cap (NarrowedScopes(c) \ I) = {}
      BY <1>1
    <3>2. IsFiniteSet(NarrowedScopes(c) \ I)
      BY NarrowedIs
    <3>3. Cardinality(I \cup (NarrowedScopes(c) \ I))
              = Cardinality(I) + Cardinality(NarrowedScopes(c) \ I)
                    - Cardinality(I \cap (NarrowedScopes(c) \ I))
      BY <3>2, <1>2, FS_Union
    <3>4. Cardinality(NarrowedScopes(c) \ I) \in Nat /\ Cardinality({}) = 0
      BY NarrowedIs, FS_EmptySet
    <3>5. Narrowed(c) = Cardinality(I \cup (NarrowedScopes(c) \ I))
      BY <3>1 DEF Narrowed
    <3>6. Cardinality(I \cap (NarrowedScopes(c) \ I)) = 0
      BY <3>1, <3>4
    <3> HIDE DEF I
    <3> QED
      BY SMT, <3>3, <3>4, <3>5, <3>6, <1>2
  <2>4. Cardinality(NarrowedScopes(c) \ I) \in Nat
    BY NarrowedIs
  <2>5. over <= Cardinality(I) - 1
    BY SMT, <2>3, <2>4, <1>2, <1>11, LimitsFit
  <2> QED
    BY SMT, <2>2, <2>5, <1>2, <1>5 DEF First
<1> HIDE DEF I, R
<1>12. over <= 0 <=> Narrowed(c) <= MaxNarrowed
  BY SMT, <1>2, LimitsFit
<1> QED
  BY SMTT(40), <1>2, <1>7, <1>8, <1>9, <1>10, <1>11, <1>12, LimitsFit DEF I

\* Evict leaves a cache that is trimmed, in line and never grown, and keeps what waits.
LEMMA EvictIs ==
    ASSUME NEW c \in Caches, Inline(c)
    PROVE  /\ Evict(c) \in Caches
           /\ Evict(c).prefetch = c.prefetch
           /\ Evict(c).generation = c.generation
           /\ \A s \in Scopes : Evict(c).logs[s] = IF s \in Gone(c) THEN Absent ELSE c.logs[s]
           /\ NarrowedScopes(Evict(c)) = NarrowedScopes(c) \ Gone(c)
           /\ Inline(Evict(c))
           /\ Trimmed(Evict(c))
           /\ \A s : Newest(c, s) /\ s \notin Gone(c) => Newest(Evict(c), s)
<1> DEFINE e == Evict(c)
           O == {p \in c.older : p[1] \notin Gone(c) /\ p[2] \notin Gone(c)}
           L == [s \in Scopes |-> IF s \in Gone(c) THEN Absent ELSE c.logs[s]]
<1>1. e = [c EXCEPT !.logs = L, !.older = O]
  BY DEF Evict, Gone, IdleScopes, Caches
<1>2. L \in [Scopes -> Logs \cup {Absent}] /\ O \subseteq c.older /\ O \subseteq Scopes \X Scopes
  BY DEF Caches
<1>3. e \in Caches /\ e.prefetch = c.prefetch /\ e.generation = c.generation /\ e.logs = L /\ e.older = O
  <2> HIDE DEF L, O
  <2> QED
    BY <1>1, <1>2 DEF Caches
<1>4. \A s \in Scopes : e.logs[s] = IF s \in Gone(c) THEN Absent ELSE c.logs[s]
  BY <1>3
<1> HIDE DEF L, e
<1>5. NarrowedScopes(e) = NarrowedScopes(c) \ Gone(c)
  BY <1>4 DEF NarrowedScopes, Has
<1>6. Inline(e)
  <2>1. \A a, b : <<a, b>> \in O <=> <<a, b>> \in c.older /\ a \notin Gone(c) /\ b \notin Gone(c)
    OBVIOUS
  <2>2. O \subseteq (NarrowedScopes(c) \ Gone(c)) \X (NarrowedScopes(c) \ Gone(c))
    BY DEF Inline, TotalOn
  <2> HIDE DEF O
  <2> QED
    BY <1>3, <1>5, <2>1, <2>2 DEF Inline, TotalOn
<1>7. Trimmed(e)
  <2>1. CASE Gone(c) = IdleScopes(c)
    <3>1. \A s \in NarrowedScopes(e) : e.logs[s].pending
      BY <2>1, <1>4, <1>5 DEF IdleScopes, NarrowedScopes
    <3> QED
      BY <3>1 DEF Trimmed
  <2>2. CASE Narrowed(c) <= MaxNarrowed
    <3>1. NarrowedScopes(e) = NarrowedScopes(c)
      BY <2>2, <1>5, GoneIs
    <3> QED
      BY <2>2, <3>1 DEF Trimmed, Narrowed
  <2>3. CASE Cardinality(Gone(c)) = Narrowed(c) - MaxNarrowed
    <3>1. Gone(c) \subseteq NarrowedScopes(c) /\ NarrowedScopes(e) \subseteq Scopes
      BY GoneIs DEF IdleScopes, NarrowedScopes
    <3>2. NarrowedScopes(c) = NarrowedScopes(e) \cup Gone(c) /\ NarrowedScopes(e) \cap Gone(c) = {}
      BY <1>5, <3>1
    <3>3. IsFiniteSet(NarrowedScopes(e)) /\ IsFiniteSet(Gone(c)) /\ Narrowed(c) \in Nat
          /\ Cardinality(NarrowedScopes(e)) \in Nat
      BY <3>1, NarrowedIs
    <3>4. Narrowed(c) = Cardinality(NarrowedScopes(e)) + Cardinality(Gone(c)) - Cardinality({})
      BY ZenonT(40), <3>2, <3>3, FS_Union DEF Narrowed
    <3>5. Narrowed(e) = MaxNarrowed
      BY SMT, <3>3, <3>4, <2>3, FS_EmptySet, LimitsFit DEF Narrowed
    <3> QED
      BY SMT, <3>5, LimitsFit DEF Trimmed
  <2> QED
    BY <2>1, <2>2, <2>3, GoneIs
<1>8. \A s : Newest(c, s) /\ s \notin Gone(c) => Newest(e, s)
  BY <1>3, <1>5 DEF Newest
<1> QED
  BY <1>3, <1>4, <1>5, <1>6, <1>7, <1>8 DEF e

------------------------------------------------------------------------------
\* The log of a first page that is out.
New(g) == [entries |-> <<>>, next |-> 0, pending |-> TRUE, generation |-> g, loaded |-> FALSE]

\* What a handler may do to the cache besides taking an answer: start loads of its own
\* and drop logs, never one that waits.
Grows(a, b) ==
    /\ b \in Caches /\ a.generation <= b.generation
    /\ \A s \in Scopes :
          \/ b.logs[s] = a.logs[s]
          \/ ~Held(a, s).pending /\ b.logs[s] = Absent
          \/ ~Held(a, s).pending /\ \E g \in a.generation + 1 .. b.generation : b.logs[s] = New(g)

\* A log that was never answered is empty.
Blank(c) == \A s \in Scopes : ~Held(c, s).loaded => Held(c, s).entries = <<>> /\ Held(c, s).next = 0

\* Growing goes on.
LEMMA GrowsOn ==
    ASSUME NEW a \in Caches, NEW b \in Caches, NEW c \in Caches, Grows(a, b), Grows(b, c)
    PROVE  Grows(a, c)
<1>1. a.generation \in Nat /\ b.generation \in Nat /\ c.generation \in Nat
  BY DEF Caches
<1>2. ASSUME NEW s \in Scopes
      PROVE  \/ c.logs[s] = a.logs[s]
             \/ ~Held(a, s).pending /\ c.logs[s] = Absent
             \/ /\ ~Held(a, s).pending
                /\ \E g \in a.generation + 1 .. c.generation : c.logs[s] = New(g)
  <2>1. CASE b.logs[s] = a.logs[s]
    <3>1. Held(b, s) = Held(a, s)
      BY <2>1 DEF Held, Has
    <3> QED
      BY SMT, <2>1, <3>1, <1>1 DEF Grows
  <2>2. CASE ~Held(a, s).pending /\ b.logs[s] = Absent
    BY SMT, <2>2, <1>1 DEF Grows
  <2>3. CASE ~Held(a, s).pending /\ \E g \in a.generation + 1 .. b.generation : b.logs[s] = New(g)
    <3>1. b.logs[s] # Absent /\ b.logs[s].pending
      <4>1. PICK g \in a.generation + 1 .. b.generation : b.logs[s] = New(g)
        BY <2>3
      <4>2. New(g) \in Logs /\ New(g).pending
        BY SMT, <1>1 DEF New, Logs
      <4> QED
        BY <4>1, <4>2, AbsentIsNoLog
    <3>2. Held(b, s).pending
      BY <3>1 DEF Held, Has
    <3>3. c.logs[s] = b.logs[s]
      BY <3>2 DEF Grows
    <3> QED
      BY SMT, <3>3, <2>3, <1>1 DEF Grows
  <2> QED
    BY <2>1, <2>2, <2>3 DEF Grows
<1> QED
  BY SMT, <1>1, <1>2 DEF Grows

\* Where nothing is loaded, nothing appears.
LEMMA GrowsBlank ==
    ASSUME NEW a \in Caches, NEW b \in Caches, Blank(a), Grows(a, b)
    PROVE  Blank(b)
<1> SUFFICES ASSUME NEW s \in Scopes, ~Held(b, s).loaded
             PROVE  Held(b, s).entries = <<>> /\ Held(b, s).next = 0
  BY DEF Blank
<1>1. CASE b.logs[s] = a.logs[s]
  <2>1. Held(b, s) = Held(a, s)
    BY <1>1 DEF Held, Has
  <2> QED
    BY <2>1 DEF Blank
<1>2. CASE b.logs[s] = Absent
  BY <1>2 DEF Held, Has, EmptyLog
<1>3. CASE \E g : b.logs[s] = New(g)
  <2>1. PICK g : b.logs[s] = New(g)
    BY <1>3
  <2>2. New(g).entries = <<>> /\ New(g).next = 0
    BY DEF New
  <2> QED
    BY <2>1, <2>2 DEF Held, Has, EmptyLog
<1> QED
  BY <1>1, <1>2, <1>3 DEF Grows

\* A log is what its fields are.
LEMMA LogFields ==
    ASSUME NEW h \in Logs
    PROVE  h = [entries |-> h.entries, next |-> h.next, pending |-> h.pending,
                generation |-> h.generation, loaded |-> h.loaded]
BY DEF Logs

\* A log that is not loaded begins as a new one.
LEMMA BegunIs ==
    ASSUME NEW c \in Caches, Blank(c), NEW s \in Scopes, ~Served(c, s), NEW g \in Nat
    PROVE  /\ [Held(c, s) EXCEPT !.generation = g, !.next = 0, !.pending = TRUE] = New(g)
           /\ New(g) \in Logs /\ New(g) # Absent /\ New(g).pending
<1>1. Held(c, s) \in Logs
  BY LogIs
<1>2. Held(c, s).loaded = FALSE /\ Held(c, s).entries = <<>>
  BY <1>1 DEF Served, Blank, Logs
<1>3. New(g) \in Logs /\ New(g).pending
  BY SMT DEF New, Logs
<1>4. New(g) # Absent
  BY <1>3, AbsentIsNoLog
<1> DEFINE h == Held(c, s)
           x == [h EXCEPT !.generation = g, !.next = 0, !.pending = TRUE]
<1>5. h \in Logs /\ h.loaded = FALSE /\ h.entries = <<>>
  BY <1>1, <1>2
<1> HIDE DEF h
<1>6. x \in Logs
  BY <1>5 DEF Logs
<1>7. /\ x.generation = g /\ x.next = 0 /\ x.pending = TRUE
      /\ x.entries = <<>> /\ x.loaded = FALSE
  BY <1>5 DEF Logs
<1> HIDE DEF x
<1>8. x = New(g)
  BY <1>6, <1>7, LogFields DEF New
<1> QED
  BY <1>3, <1>4, <1>8 DEF x, h

\* Begin makes the scope wait under a fresh number and leaves the other logs as they were.
LEMMA BeginIs ==
    ASSUME NEW c \in Caches, Inline(c), Blank(c), NEW s \in Scopes, ~Served(c, s)
    PROVE  /\ Grows(c, Begin(c, s)) /\ Inline(Begin(c, s)) /\ Trimmed(Begin(c, s))
           /\ Begin(c, s).prefetch = c.prefetch
           /\ Begin(c, s).logs[s] = New(c.generation + 1)
           /\ ~IsPlain(s) => Newest(Begin(c, s), s)
<1> DEFINE g == c.generation + 1
           x == [c EXCEPT !.logs[s] = New(g), !.generation = g]
           y == Touch(x, s)
           b == Evict(y)
<1>1. c.generation \in Nat /\ g \in Nat
  BY SMT DEF Caches
<1>2. /\ [Held(c, s) EXCEPT !.generation = g, !.next = 0, !.pending = TRUE] = New(g)
      /\ New(g) \in Logs /\ New(g) # Absent /\ New(g).pending
  BY <1>1, BegunIs
<1>3. Begin(c, s) = b
  BY <1>2 DEF Begin
<1> HIDE DEF g
<1>4. /\ x \in Caches /\ x.prefetch = c.prefetch /\ x.generation = g /\ x.older = c.older
      /\ x.logs[s] = New(g) /\ \A t \in Scopes \ {s} : x.logs[t] = c.logs[t]
  BY <1>1, <1>2 DEF Caches
<1> HIDE DEF x
<1>5. /\ NarrowedScopes(c) \subseteq NarrowedScopes(x)
      /\ NarrowedScopes(x) \ {s} \subseteq NarrowedScopes(c)
      /\ ~IsPlain(s) => s \in NarrowedScopes(x)
  BY <1>2, <1>4 DEF NarrowedScopes, Has
<1>6. /\ y \in Caches /\ y.logs = x.logs /\ y.prefetch = x.prefetch /\ y.generation = x.generation
      /\ Inline(y) /\ NarrowedScopes(y) = NarrowedScopes(x)
      /\ s \in NarrowedScopes(x) => Newest(y, s)
  <2>1. TotalOn(x.older, NarrowedScopes(c))
    BY <1>4 DEF Inline
  <2> QED
    BY <2>1, <1>4, <1>5, TouchIs
<1> HIDE DEF y
<1>7. /\ b \in Caches /\ b.prefetch = y.prefetch /\ b.generation = y.generation
      /\ \A t \in Scopes : b.logs[t] = IF t \in Gone(y) THEN Absent ELSE y.logs[t]
      /\ Inline(b) /\ Trimmed(b)
      /\ \A t : Newest(y, t) /\ t \notin Gone(y) => Newest(b, t)
  BY <1>6, EvictIs
<1> HIDE DEF b
<1>8. \A t \in Gone(y) : t \in Scopes /\ t # s /\ ~Held(c, t).pending
  <2> SUFFICES ASSUME NEW t \in Gone(y) PROVE t \in Scopes /\ t # s /\ ~Held(c, t).pending
    OBVIOUS
  <2>1. t \in NarrowedScopes(y) /\ ~y.logs[t].pending
    BY <1>6, GoneIs DEF IdleScopes
  <2>2. t \in Scopes /\ Has(y, t)
    BY <2>1 DEF NarrowedScopes
  <2>3. t # s
    BY <2>1, <1>6, <1>4, <1>2
  <2> QED
    BY <2>1, <2>2, <2>3, <1>4, <1>6 DEF Held, Has
<1>9. ~Held(c, s).pending
  BY DEF Served
<1>10. b.logs[s] = New(g)
  BY <1>4, <1>6, <1>7, <1>8
<1>11. Grows(c, b)
  <2>1. c.generation <= b.generation /\ g \in c.generation + 1 .. b.generation
    BY SMT, <1>1, <1>4, <1>6, <1>7 DEF g
  <2>2. \A t \in Scopes \ {s} : b.logs[t] = c.logs[t] \/ (~Held(c, t).pending /\ b.logs[t] = Absent)
    BY ZenonT(40), <1>4, <1>6, <1>7, <1>8
  <2> QED
    BY <2>1, <2>2, <1>7, <1>9, <1>10 DEF Grows
<1>12. ~IsPlain(s) => Newest(b, s)
  BY <1>5, <1>6, <1>7, <1>8
<1> QED
  BY <1>3, <1>4, <1>6, <1>7, <1>10, <1>11, <1>12 DEF g

\* Opening a scope uses it, and begins its load if it has none.
LEMMA EnsuredIs ==
    ASSUME NEW c \in Caches, Inline(c), Blank(c), NEW s \in Scopes
    PROVE  /\ Grows(c, Ensured(c, s)) /\ Inline(Ensured(c, s))
           /\ Ensured(c, s).prefetch = c.prefetch
           /\ EntriesOf(Ensured(c, s), s) = EntriesOf(c, s)
           /\ Has(Ensured(c, s), s)
           /\ ~IsPlain(s) => Newest(Ensured(c, s), s)
           /\ \/ Ensured(c, s).generation = c.generation /\ Ensured(c, s).logs = c.logs
              \/ Trimmed(Ensured(c, s))
<1> DEFINE y == Touch(c, s)
<1>1. /\ y \in Caches /\ y.logs = c.logs /\ y.prefetch = c.prefetch /\ y.generation = c.generation
      /\ NarrowedScopes(y) = NarrowedScopes(c) /\ Inline(y)
      /\ s \in NarrowedScopes(c) => Newest(y, s)
  BY TouchIs DEF Inline
<1>2. \A t : Held(y, t) = Held(c, t) /\ Served(y, t) = Served(c, t)
  BY <1>1 DEF Held, Has, Served
<1>3. Blank(y) /\ Grows(c, y)
  <2>1. c.generation \in Nat
    BY DEF Caches
  <2> QED
    BY SMT, <2>1, <1>1, <1>2 DEF Blank, Grows
<1>4. CASE Served(c, s)
  <2>1. Ensured(c, s) = y
    BY <1>4 DEF Ensured
  <2>2. Has(c, s)
    BY <1>4 DEF Served, Held, EmptyLog
  <2>3. ~IsPlain(s) => s \in NarrowedScopes(c)
    BY <2>2 DEF NarrowedScopes
  <2>4. Has(y, s)
    BY <2>2, <1>1 DEF Has
  <2> HIDE DEF y
  <2> QED
    BY <2>1, <2>3, <2>4, <1>1, <1>2, <1>3 DEF EntriesOf
<1>5. CASE ~Served(c, s)
  <2> DEFINE b == Begin(y, s)
  <2>1. Ensured(c, s) = b
    BY <1>5 DEF Ensured
  <2> HIDE DEF y
  <2>2. /\ Grows(y, b) /\ Inline(b) /\ Trimmed(b) /\ b.prefetch = y.prefetch
        /\ b.logs[s] = New(y.generation + 1)
        /\ ~IsPlain(s) => Newest(b, s)
    BY <1>1, <1>2, <1>3, <1>5, BeginIs
  <2> HIDE DEF b
  <2>3. b \in Caches /\ Grows(c, b)
    BY <2>2, <1>1, <1>3, GrowsOn DEF Grows
  <2>4. y.generation + 1 \in Nat
    BY SMT, <1>1 DEF Caches
  <2>5. b.logs[s] # Absent
    BY <2>2, <2>4, <1>1, <1>2, <1>3, <1>5, BegunIs
  <2>6. EntriesOf(b, s) = <<>>
    BY SMT, <2>2, <2>5 DEF EntriesOf, Held, Has, New
  <2>7. EntriesOf(c, s) = <<>>
    BY <1>5 DEF EntriesOf, Blank, Served
  <2> QED
    BY <2>1, <2>2, <2>3, <2>5, <2>6, <2>7, <1>1 DEF Has
<1> QED
  BY <1>4, <1>5

\* Extending a log makes it wait and uses it.
LEMMA ExtendIs ==
    ASSUME NEW c \in Caches, Inline(c), NEW s \in Scopes, Has(c, s)
    PROVE  /\ Extend(c, s) \in Caches /\ Inline(Extend(c, s))
           /\ Extend(c, s).prefetch = c.prefetch
           /\ Extend(c, s).generation = c.generation
           /\ Extend(c, s).logs[s] = [c.logs[s] EXCEPT !.pending = TRUE]
           /\ \A t \in Scopes \ {s} :
                 \/ Extend(c, s).logs[t] = c.logs[t]
                 \/ ~Held(c, t).pending /\ Extend(c, s).logs[t] = Absent
           /\ ~IsPlain(s) => Newest(Extend(c, s), s)
<1> DEFINE l == [c.logs[s] EXCEPT !.pending = TRUE]
           x == [c EXCEPT !.logs[s] = l]
           y == Touch(x, s)
           b == Evict(y)
<1>1. Extend(c, s) = b
  <2>1. [c EXCEPT !.logs[s] = [@ EXCEPT !.pending = TRUE]] = x
    BY DEF Caches
  <2> QED
    BY <2>1 DEF Extend
<1>2. l \in Logs /\ l.pending /\ l # Absent
  <2>1. c.logs[s] \in Logs
    BY LogIs
  <2>2. l \in Logs /\ l.pending = TRUE
    BY <2>1 DEF Logs
  <2> QED
    BY <2>2, AbsentIsNoLog
<1> HIDE DEF l
<1>4. /\ x \in Caches /\ x.prefetch = c.prefetch /\ x.generation = c.generation
      /\ x.older = c.older
      /\ x.logs[s] = l /\ \A t \in Scopes \ {s} : x.logs[t] = c.logs[t]
  BY <1>2 DEF Caches
<1> HIDE DEF x
<1>5. NarrowedScopes(c) = NarrowedScopes(x) /\ (~IsPlain(s) => s \in NarrowedScopes(x))
  BY <1>2, <1>4 DEF NarrowedScopes, Has
<1>6. /\ y \in Caches /\ y.logs = x.logs /\ y.prefetch = x.prefetch /\ y.generation = x.generation
      /\ Inline(y) /\ NarrowedScopes(y) = NarrowedScopes(x)
      /\ s \in NarrowedScopes(x) => Newest(y, s)
  <2>1. TotalOn(x.older, NarrowedScopes(x))
    BY <1>4, <1>5 DEF Inline
  <2> QED
    BY <2>1, <1>4, <1>5, TouchIs
<1> HIDE DEF y
<1>7. /\ b \in Caches /\ b.prefetch = y.prefetch /\ b.generation = y.generation
      /\ \A t \in Scopes : b.logs[t] = IF t \in Gone(y) THEN Absent ELSE y.logs[t]
      /\ Inline(b)
      /\ \A t : Newest(y, t) /\ t \notin Gone(y) => Newest(b, t)
  BY <1>6, EvictIs
<1> HIDE DEF b
<1>8. \A t \in Gone(y) : t \in Scopes /\ t # s /\ ~Held(c, t).pending
  <2> SUFFICES ASSUME NEW t \in Gone(y) PROVE t \in Scopes /\ t # s /\ ~Held(c, t).pending
    OBVIOUS
  <2>1. t \in NarrowedScopes(y) /\ ~y.logs[t].pending
    BY <1>6, GoneIs DEF IdleScopes
  <2>2. t \in Scopes /\ Has(y, t)
    BY <2>1 DEF NarrowedScopes
  <2>3. t # s
    BY <2>1, <1>6, <1>4, <1>2
  <2> QED
    BY <2>1, <2>2, <2>3, <1>4, <1>6 DEF Held, Has
<1> QED
  BY SMTT(40), <1>1, <1>4, <1>5, <1>6, <1>7, <1>8 DEF l

------------------------------------------------------------------------------
\* The queue holds tabs, each once.
Queue(c) ==
    /\ \A i \in 1 .. Len(c.prefetch) : IsPlain(c.prefetch[i])
    /\ \A i, j \in 1 .. Len(c.prefetch) : c.prefetch[i] = c.prefetch[j] => i = j

\* The queued loads that pumping starts.
Begun(c) == {i \in Owed(c) : i <= Popped(c)}

\* Counting what is owed.
LEMMA OwedIs ==
    ASSUME NEW c \in Caches
    PROVE  /\ Len(c.prefetch) \in Nat /\ Owed(c) \subseteq 1 .. Len(c.prefetch)
           /\ \A i \in Owed(c) : c.prefetch[i] \in Scopes /\ ~Served(c, c.prefetch[i])
           /\ \A S : S \subseteq Owed(c) => IsFiniteSet(S) /\ Cardinality(S) \in Nat
           /\ \A n : OwedTo(c, n) \in Nat
           /\ Inflight(c) \in Nat /\ Room(c) \in Int
<1>1. c.prefetch \in Seq(Scopes) /\ Len(c.prefetch) \in Nat
  BY SMT DEF Caches
<1>2. Owed(c) \subseteq 1 .. Len(c.prefetch)
  BY DEF Owed
<1>3. \A i \in Owed(c) : c.prefetch[i] \in Scopes /\ ~Served(c, c.prefetch[i])
  BY SMT, <1>1 DEF Owed
<1>4. IsFiniteSet(1 .. Len(c.prefetch))
  BY SMT, <1>1, FS_Interval
<1>5. \A S : S \subseteq Owed(c) => IsFiniteSet(S) /\ Cardinality(S) \in Nat
  BY <1>2, <1>4, FS_Subset, FS_CardinalityType
<1>6. Inflight(c) \in Nat
  BY NarrowedIs DEF Inflight
<1> QED
  BY SMTT(40), <1>1, <1>2, <1>3, <1>5, <1>6, LimitsFit DEF OwedTo, Room

\* One more place owes at most one more page.
LEMMA OwedStep ==
    ASSUME NEW c \in Caches, NEW n \in Nat, n # 0
    PROVE  OwedTo(c, n) = IF n \in Owed(c) THEN OwedTo(c, n - 1) + 1 ELSE OwedTo(c, n - 1)
<1> DEFINE A == Owed(c) \cap (1 .. n - 1)
<1>1. n \notin A /\ Owed(c) \cap (1 .. n) = IF n \in Owed(c) THEN A \cup {n} ELSE A
  BY SMT, OwedIs
<1>2. IsFiniteSet(A)
  BY OwedIs
<1>3. Cardinality(A \cup {n}) = Cardinality(A) + 1
  <2> HIDE DEF A
  <2> QED
    BY <1>1, <1>2, FS_AddElement
<1> QED
  BY <1>1, <1>3 DEF OwedTo

\* The queue is popped to its end, or as far as the limit lets it.
LEMMA PoppedIs ==
    ASSUME NEW c \in Caches
    PROVE  /\ Popped(c) \in 0 .. Len(c.prefetch)
           /\ Begun(c) # {} => Room(c) > 0
           /\ Popped(c) < Len(c.prefetch) => Cardinality(Begun(c)) >= Room(c)
<1> DEFINE P == Popped(c)
           L == Len(c.prefetch)
<1>1. /\ L \in Nat /\ Owed(c) \subseteq 1 .. L /\ Room(c) \in Int /\ \A n : OwedTo(c, n) \in Nat
      /\ IsFiniteSet(Begun(c)) /\ Cardinality(Begun(c)) \in Nat
  BY OwedIs DEF Begun
<1>2. CASE Room(c) <= 0
  <2>1. P = 0
    BY <1>2 DEF Popped
  <2>2. Begun(c) = {}
    BY SMT, <2>1, <1>1 DEF Begun
  <2> QED
    BY SMT, <2>1, <2>2, <1>1, <1>2
<1>3. CASE Room(c) > 0 /\ OwedTo(c, L) < Room(c)
  <2>1. P = L
    BY SMT, <1>3, <1>1 DEF Popped
  <2> QED
    BY SMT, <2>1, <1>1, <1>3
<1>4. CASE Room(c) > 0 /\ OwedTo(c, L) >= Room(c)
  <2>1. \E n \in Owed(c) : OwedTo(c, n) = Room(c)
    <3> DEFINE T == {n \in Nat : OwedTo(c, n) >= Room(c)}
    <3>1. PICK n \in T : \A m \in T : n <= m
      <4>1. L \in T
        BY <1>1, <1>4
      <4> QED
        BY <4>1, NatMin
    <3>2. n # 0
      <4>1. Owed(c) \cap (1 .. 0) = {}
        BY SMT, <1>1
      <4>2. OwedTo(c, 0) = 0
        BY <4>1, FS_EmptySet DEF OwedTo
      <4> QED
        BY SMT, <3>1, <4>2, <1>4, <1>1
    <3>3. n - 1 \in Nat /\ n - 1 \notin T
      BY SMT, <3>1, <3>2
    <3>4. OwedTo(c, n - 1) < Room(c) /\ OwedTo(c, n) >= Room(c)
      BY SMT, <3>1, <3>3, <1>1
    <3>5. OwedTo(c, n) = IF n \in Owed(c) THEN OwedTo(c, n - 1) + 1 ELSE OwedTo(c, n - 1)
      BY <3>1, <3>2, OwedStep
    <3> QED
      BY SMTT(40), <3>4, <3>5, <1>1
  <2>2. P = CHOOSE n \in Owed(c) : OwedTo(c, n) = Room(c)
    BY SMT, <1>4, <1>1 DEF Popped
  <2>3. P \in Owed(c) /\ OwedTo(c, P) = Room(c)
    BY <2>1, <2>2
  <2>4. Begun(c) = Owed(c) \cap (1 .. P)
    BY SMT, <2>3, <1>1 DEF Begun
  <2> QED
    BY SMTT(40), <2>3, <2>4, <1>1, <1>4 DEF OwedTo
<1> QED
  BY SMTT(40), <1>1, <1>2, <1>3, <1>4

\* Where in the queue the load of s that pumping starts is.
At(c, s) == CHOOSE i \in Begun(c) : c.prefetch[i] = s
Starts(c, s) == \E i \in Begun(c) : c.prefetch[i] = s

\* What pumping starts, before the cache is trimmed.
Pumping(c) ==
    [c EXCEPT !.logs = [s \in Scopes |-> IF Starts(c, s) THEN New(c.generation + OwedTo(c, At(c, s)))
                                         ELSE c.logs[s]],
              !.generation = c.generation + Cardinality(Begun(c)),
              !.prefetch = SubSeq(c.prefetch, Popped(c) + 1, Len(c.prefetch))]

\* What is left of a queue.
LEMMA Suffix ==
    ASSUME NEW T, NEW q \in Seq(T), NEW p \in 0 .. Len(q)
    PROVE  /\ SubSeq(q, p + 1, Len(q)) \in Seq(T)
           /\ Len(SubSeq(q, p + 1, Len(q))) = Len(q) - p
           /\ \A i \in 1 .. Len(q) - p : SubSeq(q, p + 1, Len(q))[i] = q[p + i]
<1>1. Len(q) \in Nat /\ \A i \in 1 .. Len(q) : q[i] \in T
  BY SMT
<1>2. \A i \in p + 1 .. Len(q) : q[i] \in T
  BY SMT, <1>1
<1>3. SubSeq(q, p + 1, Len(q)) \in Seq(T)
  BY SMTT(40), <1>1, <1>2, SubSeqProperties
<1>4. Len(SubSeq(q, p + 1, Len(q))) = IF p + 1 <= Len(q) THEN Len(q) - (p + 1) + 1 ELSE 0
  BY SMTT(40), <1>1, <1>2, SubSeqProperties
<1>5. \A i \in 1 .. Len(q) - (p + 1) + 1 : SubSeq(q, p + 1, Len(q))[i] = q[(p + 1) + i - 1]
  BY SMTT(40), <1>1, <1>2, SubSeqProperties
<1>6. \A i \in 1 .. Len(q) - p : i \in 1 .. Len(q) - (p + 1) + 1 /\ (p + 1) + i - 1 = p + i
  BY SMT, <1>1
<1> QED
  BY SMTT(40), <1>1, <1>3, <1>4, <1>5, <1>6

\* Pumping starts the loads the queue is owed, each under a number of its own.
LEMMA PumpingIs ==
    ASSUME NEW c \in Caches, Inline(c), Blank(c), Queue(c)
    PROVE  /\ Pumping(c) \in Caches /\ Grows(c, Pumping(c)) /\ Queue(Pumping(c))
           /\ NarrowedScopes(Pumping(c)) = NarrowedScopes(c)
           /\ Pumping(c).older = c.older
           /\ \A s \in Scopes : ~IsPlain(s) => Pumping(c).logs[s] = c.logs[s]
           /\ \A s \in Scopes : EntriesOf(Pumping(c), s) = EntriesOf(c, s)
           /\ Pumping(c).prefetch # <<>> => Inflight(Pumping(c)) >= MaxPrefetch
           /\ Begun(c) = {} => Pumping(c).logs = c.logs /\ Pumping(c).generation = c.generation
<1> DEFINE x == Pumping(c)
           B == Begun(c)
           L == [s \in Scopes |-> IF Starts(c, s) THEN New(c.generation + OwedTo(c, At(c, s)))
                                  ELSE c.logs[s]]
           Q == SubSeq(c.prefetch, Popped(c) + 1, Len(c.prefetch))
<1>1. /\ c.generation \in Nat /\ c.prefetch \in Seq(Scopes) /\ Len(c.prefetch) \in Nat
      /\ Popped(c) \in 0 .. Len(c.prefetch)
      /\ B \subseteq Owed(c) /\ IsFiniteSet(B) /\ Cardinality(B) \in Nat
  BY OwedIs, PoppedIs DEF Caches, Begun
<1>2. /\ Q \in Seq(Scopes) /\ Len(Q) = Len(c.prefetch) - Popped(c)
      /\ \A i \in 1 .. Len(Q) : Q[i] = c.prefetch[Popped(c) + i]
  <2> HIDE DEF Q
  <2> QED
    BY <1>1, Suffix DEF Q
<1>3. ASSUME NEW s \in Scopes, Starts(c, s)
      PROVE  /\ ~Served(c, s) /\ IsPlain(s) /\ ~Held(c, s).pending
             /\ OwedTo(c, At(c, s)) \in 1 .. Cardinality(B)
  <2>1. At(c, s) \in B /\ c.prefetch[At(c, s)] = s
    BY <1>3 DEF Starts, At
  <2>2. ~Served(c, s) /\ IsPlain(s) /\ ~Held(c, s).pending
    BY <2>1, <1>1, OwedIs DEF Queue, Served
  <2> DEFINE i == At(c, s)
             S == Owed(c) \cap (1 .. i)
  <2>3. i \in S /\ S \subseteq B
    <3>1. i \in 1 .. Len(c.prefetch) /\ i \in Owed(c) /\ i <= Popped(c)
      BY <2>1, <1>1, OwedIs DEF Begun
    <3> QED
      BY SMT, <3>1, <1>1, OwedIs DEF Begun
  <2> HIDE DEF i, S
  <2>4. IsFiniteSet(S) /\ Cardinality(S) \in Nat /\ Cardinality(S) <= Cardinality(B)
    BY <2>3, <1>1, FS_Subset, FS_CardinalityType
  <2>5. Cardinality(S) # 0
    BY <2>3, <2>4, FS_EmptySet
  <2> QED
    BY SMTT(40), <2>2, <2>4, <2>5, <1>1 DEF OwedTo, S, i
<1>4. \A s \in Scopes : Starts(c, s) =>
          /\ New(c.generation + OwedTo(c, At(c, s))) \in Logs
          /\ New(c.generation + OwedTo(c, At(c, s))) # Absent
          /\ New(c.generation + OwedTo(c, At(c, s))).pending
  <2> SUFFICES ASSUME NEW s \in Scopes, Starts(c, s)
               PROVE  /\ New(c.generation + OwedTo(c, At(c, s))) \in Logs
                      /\ New(c.generation + OwedTo(c, At(c, s))) # Absent
                      /\ New(c.generation + OwedTo(c, At(c, s))).pending
    OBVIOUS
  <2>1. ~Served(c, s) /\ c.generation + OwedTo(c, At(c, s)) \in Nat
    BY SMT, <1>1, <1>3
  <2> QED
    BY <2>1, BegunIs
<1>5. L \in [Scopes -> Logs \cup {Absent}]
  BY <1>4 DEF Caches
<1>6. /\ x \in Caches /\ x.logs = L /\ x.older = c.older /\ x.prefetch = Q
      /\ x.generation = c.generation + Cardinality(B)
  <2> DEFINE n == c.generation + Cardinality(B)
  <2>1. x = [c EXCEPT !.logs = L, !.generation = n, !.prefetch = Q]
    BY DEF Pumping
  <2>2. n \in Nat /\ Q \in Seq(Scopes)
    BY SMT, <1>1, <1>2
  <2>3. x \in Caches /\ x.logs = L /\ x.older = c.older /\ x.prefetch = Q /\ x.generation = n
    <3> HIDE DEF x, L, Q, n
    <3> QED
      BY <2>1, <2>2, <1>5 DEF Caches
  <2> QED
    BY <2>3
<1> HIDE DEF x
<1>7. /\ \A s \in Scopes : Starts(c, s) => x.logs[s] = New(c.generation + OwedTo(c, At(c, s)))
      /\ \A s \in Scopes : ~Starts(c, s) => x.logs[s] = c.logs[s]
  BY <1>6
<1> HIDE DEF L
<1>8. \A s \in Scopes : ~IsPlain(s) => x.logs[s] = c.logs[s]
  BY <1>3, <1>7
<1>9. NarrowedScopes(x) = NarrowedScopes(c)
  BY <1>8 DEF NarrowedScopes, Has
<1>10. Grows(c, x)
  <2>1. c.generation <= x.generation
    BY SMT, <1>1, <1>6
  <2>2. ASSUME NEW s \in Scopes, Starts(c, s)
        PROVE  ~Held(c, s).pending /\ \E g \in c.generation + 1 .. x.generation : x.logs[s] = New(g)
    <3>1. c.generation + OwedTo(c, At(c, s)) \in c.generation + 1 .. x.generation
      BY SMTT(40), <2>2, <1>1, <1>3, <1>6
    <3> QED
      BY <3>1, <2>2, <1>3, <1>7
  <2> QED
    BY <2>1, <2>2, <1>6, <1>7 DEF Grows
<1>11. Queue(x)
  <2>1. \A i \in 1 .. Len(Q) : Popped(c) + i \in 1 .. Len(c.prefetch)
    BY SMTT(40), <1>1, <1>2
  <2>2. \A i, j \in 1 .. Len(Q) : Popped(c) + i = Popped(c) + j => i = j
    BY SMT, <1>1, <1>2
  <2> HIDE DEF Q
  <2>3. \A i \in 1 .. Len(Q) : IsPlain(Q[i])
    BY <2>1, <1>2 DEF Queue
  <2>4. \A i, j \in 1 .. Len(Q) : Q[i] = Q[j] => i = j
    BY <2>1, <2>2, <1>2 DEF Queue
  <2> QED
    BY <2>3, <2>4, <1>6 DEF Queue
<1>12. \A s \in Scopes : EntriesOf(x, s) = EntriesOf(c, s)
  <2> SUFFICES ASSUME NEW s \in Scopes PROVE EntriesOf(x, s) = EntriesOf(c, s)
    OBVIOUS
  <2>1. CASE ~Starts(c, s)
    BY <2>1, <1>7 DEF EntriesOf, Held, Has
  <2>2. CASE Starts(c, s)
    <3>1. EntriesOf(c, s) = <<>>
      BY <2>2, <1>3 DEF EntriesOf, Blank, Served
    <3>2. EntriesOf(x, s) = <<>>
      <4> DEFINE l == New(c.generation + OwedTo(c, At(c, s)))
      <4>1. x.logs[s] = l /\ l # Absent /\ l.entries = <<>>
        BY <2>2, <1>4, <1>7 DEF New
      <4> HIDE DEF l
      <4> QED
        BY <4>1 DEF EntriesOf, Held, Has
    <3> QED
      BY <3>1, <3>2
  <2> QED
    BY <2>1, <2>2
<1>13. x.prefetch # <<>> => Inflight(x) >= MaxPrefetch
  <2> SUFFICES ASSUME Q # <<>> PROVE Inflight(x) >= MaxPrefetch
    BY <1>6
  <2>1. Popped(c) < Len(c.prefetch)
    BY SMT, <1>1, <1>2
  <2>2. Cardinality(B) >= Room(c)
    BY <2>1, PoppedIs
  <2> DEFINE Old == {s \in Scopes : Held(c, s).pending}
             Fresh == {s \in Scopes : Starts(c, s)}
  <2>3. /\ IsFiniteSet(Old) /\ IsFiniteSet(Fresh)
        /\ Cardinality(Old) \in Nat /\ Cardinality(Fresh) \in Nat
    BY NarrowedIs
  <2>4. Cardinality(B) <= Cardinality(Fresh)
    <3> DEFINE f == [i \in B |-> c.prefetch[i]]
    <3>1. f \in Injection(B, Fresh)
      <4>1. \A i \in B : i \in 1 .. Len(c.prefetch) /\ c.prefetch[i] \in Scopes
        BY <1>1, OwedIs
      <4>2. \A i \in B : c.prefetch[i] \in Fresh
        BY <4>1 DEF Starts
      <4>3. \A i, j \in B : c.prefetch[i] = c.prefetch[j] => i = j
        BY <4>1 DEF Queue
      <4> QED
        BY <4>2, <4>3 DEF Injection, IsInjective
    <3> HIDE DEF f, B, Fresh
    <3> QED
      BY <3>1, <2>3, FS_Injection
  <2>5. Old \cap Fresh = {}
    BY <1>3
  <2>6. Old \cup Fresh \subseteq {s \in Scopes : Held(x, s).pending}
    BY <1>4, <1>7 DEF Held, Has
  <2>7. /\ Cardinality(Old \cup Fresh) = Cardinality(Old) + Cardinality(Fresh) - Cardinality(Old \cap Fresh)
        /\ Cardinality(Old \cup Fresh) <= Inflight(x)
    <3>1. IsFiniteSet({s \in Scopes : Held(x, s).pending})
      BY NarrowedIs
    <3>2. Cardinality(Old \cup Fresh) <= Inflight(x)
      BY <3>1, <2>6, FS_Subset DEF Inflight
    <3> HIDE DEF Old, Fresh
    <3> QED
      BY <3>2, <2>3, FS_Union
  <2>8. Cardinality(Old) = Inflight(c) /\ Inflight(x) \in Nat /\ Cardinality(Old \cap Fresh) = 0
    BY <2>5, <1>6, OwedIs, FS_EmptySet DEF Inflight
  <2> HIDE DEF Old, Fresh, B
  <2> QED
    BY SMTT(40), <2>2, <2>3, <2>4, <2>7, <2>8, <1>1, LimitsFit DEF Room
<1>14. B = {} => x.logs = c.logs /\ x.generation = c.generation
  <2> SUFFICES ASSUME B = {} PROVE x.logs = c.logs /\ x.generation = c.generation
    OBVIOUS
  <2>1. \A s \in Scopes : ~Starts(c, s)
    BY DEF Starts
  <2>2. x.logs \in [Scopes -> Logs \cup {Absent}] /\ c.logs \in [Scopes -> Logs \cup {Absent}]
    BY <1>6 DEF Caches
  <2>3. x.logs = c.logs
    BY SMTT(40), <2>1, <2>2, <1>7
  <2> QED
    BY SMTT(40), <2>3, <1>1, <1>6, FS_EmptySet
<1> QED
  BY <1>6, <1>8, <1>9, <1>10, <1>11, <1>12, <1>13, <1>14 DEF x

------------------------------------------------------------------------------
\* Pumping, trimmed where it began anything.
LEMMA PumpedAs ==
    ASSUME NEW c \in Caches, Inline(c), Blank(c), Queue(c)
    PROVE  Pumped(c) = IF Begun(c) = {} THEN Pumping(c) ELSE Evict(Pumping(c))
<1> DEFINE log(s) == [Held(c, s) EXCEPT !.generation = c.generation + OwedTo(c, At(c, s)), !.next = 0,
                                        !.pending = TRUE]
<1>1. \A s \in Scopes : Starts(c, s) => log(s) = New(c.generation + OwedTo(c, At(c, s)))
  <2> SUFFICES ASSUME NEW s \in Scopes, Starts(c, s)
               PROVE  log(s) = New(c.generation + OwedTo(c, At(c, s)))
    OBVIOUS
  <2>1. At(c, s) \in Begun(c) /\ c.prefetch[At(c, s)] = s
    BY DEF Starts, At
  <2>2. ~Served(c, s) /\ OwedTo(c, At(c, s)) \in Nat /\ c.generation \in Nat
    BY <2>1, OwedIs DEF Begun, Caches
  <2>3. c.generation + OwedTo(c, At(c, s)) \in Nat
    BY SMT, <2>2
  <2> DEFINE g == c.generation + OwedTo(c, At(c, s))
  <2>4. g \in Nat
    BY <2>3
  <2> HIDE DEF g
  <2>5. /\ [Held(c, s) EXCEPT !.generation = g, !.next = 0, !.pending = TRUE] = New(g)
        /\ New(g) \in Logs /\ New(g) # Absent /\ New(g).pending
    <3> HIDE DEF log
    <3> QED
      BY <2>2, <2>4, BegunIs
  <2> QED
    BY <2>5 DEF g
<1>2. [s \in Scopes |-> IF Starts(c, s) THEN log(s) ELSE c.logs[s]]
        = [s \in Scopes |-> IF Starts(c, s) THEN New(c.generation + OwedTo(c, At(c, s))) ELSE c.logs[s]]
  BY <1>1
<1>3. Pumping(c)
        = [c EXCEPT !.logs = [s \in Scopes |-> IF Starts(c, s) THEN log(s) ELSE c.logs[s]],
                    !.generation = c.generation + Cardinality(Begun(c)),
                    !.prefetch = SubSeq(c.prefetch, Popped(c) + 1, Len(c.prefetch))]
  BY <1>2 DEF Pumping
<1> QED
  BY <1>3, Zenon DEF Pumped, Begun, At, Starts

\* What next_prefetch does to the cache: it starts loads of tabs, keeps the queue
\* moving, and takes nothing that was used last.
LEMMA PumpedIs ==
    ASSUME NEW c \in Caches, Inline(c), Blank(c), Queue(c)
    PROVE  /\ Grows(c, Pumped(c)) /\ Inline(Pumped(c)) /\ Queue(Pumped(c))
           /\ Pumped(c).prefetch # <<>> => Inflight(Pumped(c)) >= MaxPrefetch
           /\ \/ Pumped(c).generation = c.generation /\ Pumped(c).logs = c.logs
              \/ Trimmed(Pumped(c))
           /\ \A s \in Scopes : Has(c, s) /\ (IsPlain(s) \/ Newest(c, s)) =>
                 /\ Has(Pumped(c), s)
                 /\ EntriesOf(Pumped(c), s) = EntriesOf(c, s)
                 /\ ~IsPlain(s) => Newest(Pumped(c), s)
           /\ \A s \in Scopes : ~Has(c, s) =>
                /\ EntriesOf(Pumped(c), s) = <<>>
                /\ ~IsPlain(s) => ~Has(Pumped(c), s)
<1> DEFINE x == Pumping(c)
           e == Evict(x)
<1>1. /\ x \in Caches /\ Grows(c, x) /\ Queue(x)
      /\ NarrowedScopes(x) = NarrowedScopes(c)
      /\ x.older = c.older
      /\ \A s \in Scopes : ~IsPlain(s) => x.logs[s] = c.logs[s]
      /\ \A s \in Scopes : EntriesOf(x, s) = EntriesOf(c, s)
      /\ x.prefetch # <<>> => Inflight(x) >= MaxPrefetch
      /\ Begun(c) = {} => x.logs = c.logs /\ x.generation = c.generation
  BY PumpingIs
<1>2. Inline(x) /\ \A s : Newest(c, s) => Newest(x, s)
  BY <1>1 DEF Inline, Newest
<1>3. \A s \in Scopes : ~Has(c, s) => EntriesOf(c, s) = <<>>
  BY DEF EntriesOf, Held, EmptyLog
<1>3a. \A s \in Scopes : Has(c, s) => Has(x, s)
  <2> SUFFICES ASSUME NEW s \in Scopes, Has(c, s), x.logs[s] = Absent PROVE FALSE
    BY DEF Has
  <2>1. Starts(c, s)
    <3>1. ~Starts(c, s) => x.logs[s] = c.logs[s]
      BY DEF Pumping, Caches
    <3> QED
      BY <3>1 DEF Has
  <2>2. At(c, s) \in Begun(c) /\ c.prefetch[At(c, s)] = s
    BY <2>1 DEF Starts, At
  <2>3. IsPlain(s) /\ ~Served(c, s) /\ OwedTo(c, At(c, s)) \in Nat /\ c.generation \in Nat
    BY SMT, <2>2, OwedIs DEF Begun, Caches, Queue
  <2>4. x.logs[s] = New(c.generation + OwedTo(c, At(c, s)))
    BY <2>1 DEF Pumping, Caches
  <2>5. c.generation + OwedTo(c, At(c, s)) \in Nat
    BY SMT, <2>3
  <2> HIDE DEF x
  <2> QED
    BY <2>3, <2>4, <2>5, BegunIs
<1> HIDE DEF x
<1>4. CASE Begun(c) = {}
  <2>1. Pumped(c) = x
    BY <1>4, PumpedAs DEF x
  <2>2. \A s : Has(x, s) = Has(c, s)
    BY <1>1, <1>4 DEF Has
  <2> QED
    BY <2>1, <2>2, <1>1, <1>2, <1>3, <1>4
<1>5. CASE Begun(c) # {}
  <2>1. Pumped(c) = e
    BY <1>5, PumpedAs DEF x
  <2>2. /\ e \in Caches /\ e.prefetch = x.prefetch /\ e.generation = x.generation
        /\ \A s \in Scopes : e.logs[s] = IF s \in Gone(x) THEN Absent ELSE x.logs[s]
        /\ Inline(e) /\ Trimmed(e)
        /\ \A s : Newest(x, s) /\ s \notin Gone(x) => Newest(e, s)
    BY <1>1, <1>2, EvictIs
  <2> HIDE DEF e
  <2>3. ASSUME NEW s \in Gone(x)
        PROVE  s \in Scopes /\ ~IsPlain(s) /\ Has(x, s) /\ ~Held(x, s).pending /\ ~Held(c, s).pending
    <3>1. s \in NarrowedScopes(x) /\ ~x.logs[s].pending
      BY <2>3, <1>1, <1>2, GoneIs DEF IdleScopes
    <3> QED
      BY <3>1, <1>1 DEF NarrowedScopes, Held, Has
  <2>4. \A s \in Scopes : s \notin Gone(x) => Held(e, s) = Held(x, s) /\ Has(e, s) = Has(x, s)
    BY <2>2 DEF Held, Has
  <2>5. {s \in Scopes : Held(e, s).pending} = {s \in Scopes : Held(x, s).pending}
    <3>1. \A s \in Scopes : s \in Gone(x) => ~Held(e, s).pending
      BY <2>2 DEF Held, Has, EmptyLog
    <3> QED
      BY <3>1, <2>3, <2>4
  <2>6. Grows(c, e)
    <3>1. Grows(x, e)
      <4>1. x.generation \in Nat
        BY <1>1 DEF Caches
      <4> QED
        BY SMT, <4>1, <2>2, <2>3 DEF Grows
    <3> QED
      BY <3>1, <1>1, <2>2, GrowsOn
  <2>7. Queue(e) /\ Inflight(e) = Inflight(x)
    BY <1>1, <2>2, <2>5 DEF Queue, Inflight
  <2>8. ASSUME NEW s \in Scopes, Newest(c, s) PROVE s \notin Gone(x)
    <3>1. SUFFICES ASSUME s \in Gone(x) PROVE FALSE
      OBVIOUS
    <3>2. s \in IdleScopes(x)
      BY <3>1, <1>1, <1>2, GoneIs
    <3> DEFINE W == NarrowedScopes(x) \ IdleScopes(x)
               Old == {t \in Scopes : Held(c, t).pending}
    <3>3. W \subseteq Old
      BY <1>1 DEF IdleScopes, NarrowedScopes, Held, Has
    <3>4. Cardinality(W) <= Inflight(c) /\ Cardinality(W) \in Nat /\ Inflight(c) \in Nat
      <4>1. IsFiniteSet(Old) /\ IsFiniteSet(W)
        BY <3>3, NarrowedIs
      <4>2. Cardinality(W) <= Cardinality(Old) /\ Cardinality(W) \in Nat /\ Cardinality(Old) \in Nat
        BY <4>1, <3>3, FS_Subset, FS_CardinalityType
      <4> QED
        BY <4>2 DEF Inflight
    <3>5. Inflight(c) < MaxPrefetch
      BY SMTT(40), <1>5, <3>4, PoppedIs, LimitsFit DEF Room
    <3>6. Cardinality(W) < MaxNarrowed
      BY SMT, <3>4, <3>5, LimitsFit
    <3> QED
      BY <3>1, <3>2, <3>6, <2>8, <1>1, <1>2, GoneIs
  <2>9. \A s \in Scopes : IsPlain(s) => s \notin Gone(x)
    BY <2>3
  <2>10. \A s \in Scopes : s \notin Gone(x) => EntriesOf(e, s) = EntriesOf(c, s)
    BY <2>4, <1>1 DEF EntriesOf
  <2>11. \A s \in Scopes : ~Has(c, s) => s \notin Gone(x)
    BY <2>3, <1>1 DEF Has
  <2>12. \A s \in Scopes : ~Has(c, s) /\ ~IsPlain(s) => ~Has(e, s)
    BY <2>4, <2>11, <1>1 DEF Has
  <2> QED
    BY ZenonT(40), <2>1, <2>2, <2>4, <2>6, <2>7, <2>8, <2>9, <2>10, <2>11, <2>12, <1>1, <1>2,
       <1>3, <1>3a
<1> QED
  BY <1>4, <1>5

------------------------------------------------------------------------------
\* Loads are numbered, and no number is used twice.
Dated(c, S) ==
    /\ \A s \in Scopes : Has(c, s) => c.logs[s].generation \in 1 .. c.generation
    /\ \A r \in S : r.generation <= c.generation

\* A log holds the first pages of its scope, as its load read them.
PureLog(l, s, src) ==
    /\ \A i \in 1 .. Len(l.entries) :
          /\ l.entries[i].scope = s
          /\ l.entries[i].source = src
          /\ l.entries[i].position = i - 1
          /\ l.entries[i].generation = l.generation
    /\ l.next \in {0, Len(l.entries)}

\* Every cached log is such a prefix.
Pure(c, src) == \A s \in Scopes : Has(c, s) => PureLog(c.logs[s], s, src)

\* A request its log still takes asks for the page that comes next.
Answers(c, S, src) ==
    \A r \in S : Accepts(c, r) =>
        /\ c.logs[r.scope].pending /\ r.source = src
        /\ \/ r.offset = 0 /\ ~c.logs[r.scope].loaded
           \/ r.offset > 0 /\ c.logs[r.scope].loaded /\ r.offset = Len(c.logs[r.scope].entries)

\* A log that waits waits for a request.
Waits(c, S) ==
    \A s \in Scopes : Has(c, s) /\ c.logs[s].pending => \E r \in S : Accepts(c, r) /\ r.scope = s

\* The cache c, with the requests S out and the sources numbered up to src.
CacheInv(c, S, src) ==
    /\ c \in Caches /\ S \subseteq Requests /\ src \in Nat
    /\ Inline(c) /\ Blank(c) /\ Queue(c)
    /\ Dated(c, S) /\ Pure(c, src) /\ Answers(c, S, src) /\ Waits(c, S)

\* A request is what its fields are.
LEMMA RequestFields ==
    ASSUME NEW r \in Requests
    PROVE  r = [scope |-> r.scope, generation |-> r.generation, offset |-> r.offset, source |-> r.source]
BY DEF Requests

\* Of one log no two requests are out.
LEMMA OneAnswer ==
    ASSUME NEW c, NEW S, NEW src, CacheInv(c, S, src), NEW r \in S, NEW q \in S,
           Accepts(c, r), Accepts(c, q), r.scope = q.scope
    PROVE  r = q
<1>1. r \in Requests /\ q \in Requests
  BY DEF CacheInv
<1>2. r.generation = q.generation /\ r.source = q.source /\ r.offset = q.offset
  BY <1>1 DEF CacheInv, Answers, Accepts
<1>3. /\ r = [scope |-> r.scope, generation |-> r.generation, offset |-> r.offset, source |-> r.source]
      /\ q = [scope |-> q.scope, generation |-> q.generation, offset |-> q.offset, source |-> q.source]
  BY <1>1, RequestFields
<1> QED
  BY <1>2, <1>3

\* The requests made for what was begun.
LEMMA IssuedAre ==
    ASSUME NEW a \in Caches, NEW b \in Caches, source \in Nat
    PROVE  /\ Issued(a, b) \subseteq Requests
           /\ \A r \in Issued(a, b) :
                 /\ r.scope \in Scopes /\ Has(b, r.scope) /\ b.logs[r.scope].pending
                 /\ r.generation = b.logs[r.scope].generation /\ r.offset = 0 /\ r.source = source
                 /\ ~Has(a, r.scope) \/ a.logs[r.scope].generation # b.logs[r.scope].generation
           /\ \A s \in Scopes :
                 Has(b, s) /\ b.logs[s].pending
                     /\ (~Has(a, s) \/ a.logs[s].generation # b.logs[s].generation)
                 => \E r \in Issued(a, b) : r.scope = s /\ r.generation = b.logs[s].generation
<1> DEFINE req(s) == [scope |-> s, generation |-> b.logs[s].generation, offset |-> 0, source |-> source]
           T == {t \in Scopes : Has(b, t) /\ b.logs[t].pending
                                /\ (~Has(a, t) \/ a.logs[t].generation # b.logs[t].generation)}
<1>1. Issued(a, b) = {req(s) : s \in T}
  BY DEF Issued
<1>2. ASSUME NEW s \in T
      PROVE  /\ req(s) \in Requests /\ req(s).scope = s /\ req(s).generation = b.logs[s].generation
             /\ req(s).offset = 0 /\ req(s).source = source
  <2>1. b.logs[s] \in Logs
    BY <1>2, LogIs
  <2>2. b.logs[s].generation \in Nat
    BY <2>1 DEF Logs
  <2> QED
    BY <2>2 DEF Requests
<1> HIDE DEF req
<1> QED
  BY SMT, <1>1, <1>2

\* A load that has begun.
LEMMA NewIs ==
    ASSUME NEW g \in Nat
    PROVE  /\ New(g) \in Logs /\ New(g) # Absent /\ New(g).pending /\ New(g).generation = g
           /\ New(g).entries = <<>> /\ New(g).next = 0 /\ New(g).loaded = FALSE
<1>1. New(g) \in Logs
  BY SMT DEF New, Logs
<1> QED
  BY <1>1, AbsentIsNoLog DEF New

\* Starting loads and dropping logs at rest leaves every log exact, with the
\* requests the new loads make.
LEMMA GrowsKeeps ==
    ASSUME NEW a, NEW b, NEW S, CacheInv(a, S, source), Grows(a, b), Inline(b), Queue(b)
    PROVE  CacheInv(b, S \cup Issued(a, b), source)
<1> DEFINE I == Issued(a, b)
<1>1. a \in Caches /\ b \in Caches /\ S \subseteq Requests /\ source \in Nat
  BY DEF CacheInv, Grows
<1>2. a.generation \in Nat /\ b.generation \in Nat /\ a.generation <= b.generation
  BY <1>1 DEF Caches, Grows
<1>3. /\ I \subseteq Requests
      /\ \A r \in I :
            /\ r.scope \in Scopes /\ Has(b, r.scope) /\ b.logs[r.scope].pending
            /\ r.generation = b.logs[r.scope].generation /\ r.offset = 0 /\ r.source = source
            /\ ~Has(a, r.scope) \/ a.logs[r.scope].generation # b.logs[r.scope].generation
      /\ \A s \in Scopes :
            Has(b, s) /\ b.logs[s].pending
                /\ (~Has(a, s) \/ a.logs[s].generation # b.logs[s].generation)
            => \E r \in I : r.scope = s /\ r.generation = b.logs[s].generation
  BY <1>1, IssuedAre
<1>4. \A s \in Scopes :
          \/ b.logs[s] = a.logs[s]
          \/ b.logs[s] = Absent
          \/ /\ Has(b, s) /\ b.logs[s].pending /\ b.logs[s].generation \in a.generation + 1 .. b.generation
             /\ b.logs[s].entries = <<>> /\ b.logs[s].next = 0 /\ b.logs[s].loaded = FALSE
  <2> SUFFICES ASSUME NEW s \in Scopes, NEW g \in a.generation + 1 .. b.generation, b.logs[s] = New(g)
               PROVE  /\ Has(b, s) /\ b.logs[s].pending
                      /\ b.logs[s].generation \in a.generation + 1 .. b.generation
                      /\ b.logs[s].entries = <<>> /\ b.logs[s].next = 0 /\ b.logs[s].loaded = FALSE
    BY DEF Grows
  <2>1. g \in Nat
    BY SMTT(40), <1>2
  <2> QED
    BY <2>1, NewIs DEF Has
<1> HIDE DEF I
<1>5. Dated(b, S \cup I)
  <2>1. ASSUME NEW s \in Scopes, Has(b, s) PROVE b.logs[s].generation \in 1 .. b.generation
    <3>1. CASE b.logs[s] = a.logs[s]
      <4>1. a.logs[s].generation \in 1 .. a.generation
        BY <2>1, <3>1 DEF CacheInv, Dated, Has
      <4> QED
        BY SMTT(40), <4>1, <3>1, <1>2
    <3>2. CASE b.logs[s].generation \in a.generation + 1 .. b.generation
      BY SMTT(40), <3>2, <1>2
    <3> QED
      BY ZenonT(40), <3>1, <3>2, <2>1, <1>4 DEF Has
  <2>2. ASSUME NEW r \in S PROVE r.generation <= b.generation
    <3>1. r.generation <= a.generation /\ r.generation \in Nat
      BY <1>1 DEF CacheInv, Dated, Requests
    <3> QED
      BY SMTT(40), <3>1, <1>2
  <2>3. ASSUME NEW r \in I PROVE r.generation <= b.generation
    BY SMTT(40), <2>1, <1>3, <1>2
  <2> QED
    BY <2>1, <2>2, <2>3 DEF Dated
<1>6. Pure(b, source)
  <2> SUFFICES ASSUME NEW s \in Scopes, Has(b, s) PROVE PureLog(b.logs[s], s, source)
    BY DEF Pure
  <2>1. CASE b.logs[s] = a.logs[s]
    BY <2>1 DEF CacheInv, Pure, Has
  <2>2. CASE b.logs[s].entries = <<>> /\ b.logs[s].next = 0
    BY SMT, <2>2 DEF PureLog
  <2> QED
    BY <2>1, <2>2, <1>4 DEF Has
<1>7. ASSUME NEW r \in S, Accepts(b, r) PROVE b.logs[r.scope] = a.logs[r.scope] /\ Accepts(a, r)
  <2>1. r.scope \in Scopes /\ r.generation \in Nat /\ r.generation <= a.generation
    BY <1>1 DEF CacheInv, Dated, Requests
  <2>2. b.logs[r.scope] = a.logs[r.scope]
    BY SMTT(40), <2>1, <1>7, <1>4, <1>2 DEF Accepts, Has
  <2> QED
    BY <2>2, <1>7 DEF Accepts, Has
<1>8. ASSUME NEW r \in I PROVE ~b.logs[r.scope].loaded
  <2>1. b.logs[r.scope] # a.logs[r.scope]
    BY <1>3 DEF Has
  <2> QED
    BY <2>1, <1>3, <1>4 DEF Has
<1>9. Answers(b, S \cup I, source)
  <2> SUFFICES ASSUME NEW r \in S \cup I, Accepts(b, r)
               PROVE  /\ b.logs[r.scope].pending /\ r.source = source
                      /\ \/ r.offset = 0 /\ ~b.logs[r.scope].loaded
                         \/ /\ r.offset > 0 /\ b.logs[r.scope].loaded
                            /\ r.offset = Len(b.logs[r.scope].entries)
    BY DEF Answers
  <2>1. CASE r \in S
    BY <2>1, <1>7 DEF CacheInv, Answers
  <2>2. CASE r \in I
    BY <2>2, <1>3, <1>8
  <2> QED
    BY <2>1, <2>2
<1>10. Waits(b, S \cup I)
  <2> SUFFICES ASSUME NEW s \in Scopes, Has(b, s), b.logs[s].pending
               PROVE  \E r \in S \cup I : Accepts(b, r) /\ r.scope = s
    BY DEF Waits
  <2>1. CASE b.logs[s] = a.logs[s]
    <3>1. PICK r \in S : Accepts(a, r) /\ r.scope = s
      BY <2>1 DEF CacheInv, Waits, Has
    <3>2. Accepts(b, r)
      BY <3>1, <2>1 DEF Accepts, Has
    <3> QED
      BY <3>1, <3>2
  <2>2. CASE b.logs[s].generation \in a.generation + 1 .. b.generation
    <3>1. Has(a, s) => a.logs[s].generation \in 1 .. a.generation
      BY DEF CacheInv, Dated
    <3>2. ~Has(a, s) \/ a.logs[s].generation # b.logs[s].generation
      BY SMTT(40), <3>1, <2>2, <1>2
    <3>3. PICK r \in I : r.scope = s /\ r.generation = b.logs[s].generation
      BY <3>2, <1>3
    <3> QED
      BY <3>3 DEF Accepts
  <2> QED
    BY <2>1, <2>2, <1>4 DEF Has
<1>11. Blank(b)
  BY <1>1, GrowsBlank DEF CacheInv
<1> QED
  BY <1>1, <1>3, <1>5, <1>6, <1>9, <1>10, <1>11 DEF CacheInv, I

------------------------------------------------------------------------------
\* A request nobody waits for may go.
LEMMA DropKeeps ==
    ASSUME NEW c, NEW S, NEW src, CacheInv(c, S, src), NEW r, ~Accepts(c, r)
    PROVE  CacheInv(c, S \ {r}, src)
<1>1. Waits(c, S \ {r})
  BY DEF CacheInv, Waits
<1> QED
  BY <1>1 DEF CacheInv, Dated, Answers

\* The cache with another log of s.
With(c, s, l) == [c EXCEPT !.logs[s] = l]

\* Replacing the log of a scope replaces nothing else.
LEMMA WithIs ==
    ASSUME NEW c \in Caches, NEW s \in Scopes, NEW l \in Logs
    PROVE  /\ With(c, s, l) \in Caches
           /\ With(c, s, l).older = c.older /\ With(c, s, l).generation = c.generation
           /\ With(c, s, l).prefetch = c.prefetch
           /\ With(c, s, l).logs[s] = l
           /\ \A t \in Scopes \ {s} : With(c, s, l).logs[t] = c.logs[t]
BY DEF Caches, With

\* l may be the log of r's scope once r is answered.
Settles(c, r, l, src) ==
    /\ l \in Logs /\ ~l.pending /\ l.generation = c.logs[r.scope].generation
    /\ PureLog(l, r.scope, src)
    /\ ~l.loaded => l.entries = <<>> /\ l.next = 0

\* An answer that is taken ends the wait of its log and of no other.
LEMMA AnswerKeeps ==
    ASSUME NEW c, NEW S, NEW src, CacheInv(c, S, src), NEW r \in S, Accepts(c, r),
           NEW l, Settles(c, r, l, src)
    PROVE  CacheInv(With(c, r.scope, l), S \ {r}, src)
<1> DEFINE d == With(c, r.scope, l)
<1> USE DEF Settles
<1>1. c \in Caches /\ S \subseteq Requests /\ r.scope \in Scopes /\ Has(c, r.scope)
  BY DEF CacheInv, Requests, Accepts
<1>2. /\ d \in Caches /\ d.older = c.older /\ d.generation = c.generation /\ d.prefetch = c.prefetch
      /\ d.logs[r.scope] = l /\ \A s \in Scopes \ {r.scope} : d.logs[s] = c.logs[s]
  BY SMTT(40), <1>1, WithIs
<1> HIDE DEF d
<1>3. l # Absent
  BY AbsentIsNoLog
<1>4. /\ \A s \in Scopes : Has(d, s) = Has(c, s)
      /\ \A s \in Scopes \ {r.scope} : Held(d, s) = Held(c, s)
      /\ Held(d, r.scope) = l
      /\ \A s \in Scopes : Has(d, s) => d.logs[s].generation = c.logs[s].generation
  BY <1>1, <1>2, <1>3 DEF Has, Held
<1>5. NarrowedScopes(d) = NarrowedScopes(c)
  BY <1>4 DEF NarrowedScopes
<1>6. Inline(d) /\ Queue(d)
  BY <1>2, <1>5 DEF CacheInv, Inline, Queue
<1>7. Blank(d)
  BY <1>4 DEF CacheInv, Blank
<1>8. Dated(d, S \ {r})
  BY <1>2, <1>4 DEF CacheInv, Dated
<1>9. Pure(d, src)
  <2> SUFFICES ASSUME NEW s \in Scopes, Has(d, s) PROVE PureLog(d.logs[s], s, src)
    BY DEF Pure
  <2>1. CASE s = r.scope
    BY <2>1, <1>2
  <2>2. CASE s # r.scope
    BY <2>2, <1>2, <1>4 DEF CacheInv, Pure
  <2> QED
    BY <2>1, <2>2
<1>10. ASSUME NEW q \in S \ {r}, Accepts(d, q)
       PROVE  q.scope \in Scopes \ {r.scope} /\ Accepts(c, q) /\ d.logs[q.scope] = c.logs[q.scope]
  <2>1. q.scope \in Scopes
    BY <1>1 DEF Requests
  <2>2. Accepts(c, q)
    BY <2>1, <1>10, <1>4 DEF Accepts
  <2>3. q.scope # r.scope
    BY <2>2, <1>10, OneAnswer
  <2> QED
    BY <2>1, <2>2, <2>3, <1>2
<1>11. Answers(d, S \ {r}, src)
  BY <1>10 DEF CacheInv, Answers
<1>12. Waits(d, S \ {r})
  <2> SUFFICES ASSUME NEW s \in Scopes, Has(d, s), d.logs[s].pending
               PROVE  \E q \in S \ {r} : Accepts(d, q) /\ q.scope = s
    BY DEF Waits
  <2>1. s # r.scope
    BY <1>2
  <2>2. PICK q \in S : Accepts(c, q) /\ q.scope = s
    BY <2>1, <1>2, <1>4 DEF CacheInv, Waits
  <2> QED
    BY <2>1, <2>2, <1>2, <1>4 DEF Accepts
<1> QED
  BY ZenonT(40), <1>1, <1>2, <1>5, <1>6, <1>7, <1>8, <1>9, <1>11, <1>12 DEF CacheInv, d

\* A failed page leaves its log as it was, at rest.
LEMMA FailedIs ==
    ASSUME NEW c, NEW S, NEW src, CacheInv(c, S, src), NEW r \in S, Accepts(c, r)
    PROVE  /\ CacheInv(Failed(c, r), S \ {r}, src)
           /\ Failed(c, r).older = c.older /\ Failed(c, r).generation = c.generation
           /\ NarrowedScopes(Failed(c, r)) = NarrowedScopes(c)
           /\ \A s \in Scopes : /\ Has(Failed(c, r), s) = Has(c, s)
                                /\ EntriesOf(Failed(c, r), s) = EntriesOf(c, s)
<1> DEFINE h == c.logs[r.scope]
           l == [h EXCEPT !.pending = FALSE]
           d == Failed(c, r)
<1>1. c \in Caches /\ r.scope \in Scopes /\ Has(c, r.scope) /\ h \in Logs
  BY LogIs DEF CacheInv, Requests, Accepts
<1>2. /\ l \in Logs /\ l.pending = FALSE /\ l.generation = h.generation /\ l.entries = h.entries
      /\ l.next = h.next /\ l.loaded = h.loaded
  BY <1>1 DEF Logs
<1>3. d = With(c, r.scope, l)
  BY <1>1 DEF Failed, Caches, With
<1>4. PureLog(h, r.scope, src) /\ (~h.loaded => h.entries = <<>> /\ h.next = 0)
  BY <1>1 DEF CacheInv, Pure, Blank, Held
<1> HIDE DEF l, d
<1>4a. PureLog(l, r.scope, src) /\ (~l.loaded => l.entries = <<>> /\ l.next = 0)
  BY <1>2, <1>4 DEF PureLog
<1>5. /\ CacheInv(d, S \ {r}, src)
      /\ d.older = c.older /\ d.generation = c.generation
      /\ NarrowedScopes(d) = NarrowedScopes(c)
      /\ d.logs[r.scope] = l
      /\ \A s \in Scopes \ {r.scope} : d.logs[s] = c.logs[s]
  <2>1. Settles(c, r, l, src)
    BY <1>2, <1>4a DEF Settles
  <2> HIDE DEF h
  <2>2. CacheInv(d, S \ {r}, src)
    BY <2>1, <1>3, AnswerKeeps
  <2>4. /\ d.older = c.older /\ d.generation = c.generation
        /\ d.logs[r.scope] = l /\ \A s \in Scopes \ {r.scope} : d.logs[s] = c.logs[s]
    BY SMTT(40), <1>1, <1>2, <1>3, WithIs
  <2>5. NarrowedScopes(d) = NarrowedScopes(c)
    BY <2>4, <1>1, <1>2, AbsentIsNoLog DEF NarrowedScopes, Has
  <2> QED
    BY <2>2, <2>4, <2>5
<1> HIDE DEF h
<1>6. \A s \in Scopes : Has(d, s) = Has(c, s) /\ EntriesOf(d, s) = EntriesOf(c, s)
  <2> SUFFICES ASSUME NEW s \in Scopes PROVE Has(d, s) = Has(c, s) /\ EntriesOf(d, s) = EntriesOf(c, s)
    OBVIOUS
  <2>1. CASE s = r.scope
    <3>1. d.logs[s] # Absent /\ c.logs[s] # Absent
      BY ZenonT(40), <2>1, <1>1, <1>2, <1>5, AbsentIsNoLog DEF Has
    <3> QED
      BY <3>1, <2>1, <1>2, <1>5 DEF Has, EntriesOf, Held, h
  <2>2. CASE s # r.scope
    BY <2>2, <1>5 DEF Has, EntriesOf, Held
  <2> QED
    BY <2>1, <2>2
<1> QED
  BY <1>5, <1>6 DEF d

\* d is what the answer r may make of c: nothing changes but the log of r's scope.
AfterAnswer(c, d, S, r, src) ==
    /\ CacheInv(d, S \ {r}, src)
    /\ d.older = c.older /\ d.generation = c.generation
    /\ NarrowedScopes(d) = NarrowedScopes(c)
    /\ \A s \in Scopes : Has(d, s) = Has(c, s)
    /\ \A s \in Scopes \ {r.scope} : EntriesOf(d, s) = EntriesOf(c, s)

\* The page that answers r, of n entries.
PageOf(r, n) ==
    [i \in 1 .. n |-> [scope |-> r.scope, source |-> r.source, generation |-> r.generation,
                        position |-> r.offset]]

\* A page is logged where it belongs, behind what its load has read.
LEMMA AppliedIs ==
    ASSUME NEW c, NEW S, NEW src, CacheInv(c, S, src), NEW r \in S, Accepts(c, r),
           NEW n \in 0 .. 1, NEW more \in BOOLEAN,
           NEW page, page = PageOf(r, n)
    PROVE  AfterAnswer(c, Applied(c, r, page, more), S, r, src)
<1> DEFINE h == c.logs[r.scope]
           e == [scope |-> r.scope, source |-> r.source, generation |-> r.generation,
                 position |-> r.offset]
           E == IF r.offset = 0 THEN page ELSE h.entries \o page
           N == IF more THEN r.offset + Len(page) ELSE 0
           l == [h EXCEPT !.entries = E, !.next = N, !.pending = FALSE, !.loaded = TRUE]
           d == Applied(c, r, page, more)
<1>1. c \in Caches /\ r \in Requests /\ r.scope \in Scopes /\ Has(c, r.scope) /\ h \in Logs
  BY ZenonT(40), LogIs DEF CacheInv, Requests, Accepts
<1>2. /\ h.entries \in Seq(Entries) /\ Len(h.entries) \in Nat /\ r.offset \in Nat
      /\ r.generation = h.generation /\ r.source = src
      /\ r.offset = 0 \/ r.offset = Len(h.entries)
  BY SMTT(40), <1>1 DEF Logs, Requests, Accepts, CacheInv, Answers
<1>3. /\ \A i \in 1 .. Len(h.entries) :
            /\ h.entries[i].scope = r.scope
            /\ h.entries[i].source = src
            /\ h.entries[i].position = i - 1
            /\ h.entries[i].generation = h.generation
  BY <1>1 DEF CacheInv, Pure, PureLog
<1>4. e \in Entries /\ e.scope = r.scope /\ e.source = src /\ e.position = r.offset
      /\ e.generation = h.generation
  BY <1>1, <1>2 DEF Entries, Requests
<1> HIDE DEF h
<1>5. page \in Seq(Entries) /\ Len(page) = n /\ \A i \in 1 .. n : page[i] = e
  <2>1. page = [i \in 1 .. n |-> e]
    BY DEF PageOf
  <2> HIDE DEF e
  <2> QED
    BY SMTT(40), <2>1, <1>4
<1> HIDE DEF e
<1>6. /\ E \in Seq(Entries) /\ Len(E) = r.offset + n
      /\ \A i \in 1 .. Len(E) :
            /\ E[i].scope = r.scope
            /\ E[i].source = src
            /\ E[i].position = i - 1
            /\ E[i].generation = h.generation
  <2>1. CASE r.offset = 0
    <3>1. E = page /\ \A i \in 1 .. n : i - 1 = r.offset
      BY SMTT(40), <2>1
    <3> QED
      BY SMTT(40), <3>1, <2>1, <1>4, <1>5
  <2>2. CASE r.offset # 0
    <3>1. E = h.entries \o page /\ r.offset = Len(h.entries)
      BY <2>2, <1>2
    <3>2. /\ E \in Seq(Entries) /\ Len(E) = Len(h.entries) + n
          /\ \A i \in 1 .. Len(h.entries) : E[i] = h.entries[i]
          /\ \A i \in 1 .. Len(h.entries) + n : i > Len(h.entries) => E[i] = page[i - Len(h.entries)]
      <4> HIDE DEF E
      <4> DEFINE old == h.entries
      <4>1. old \in Seq(Entries) /\ page \in Seq(Entries) /\ E = old \o page /\ Len(page) = n
        BY <3>1, <1>2, <1>5
      <4> HIDE DEF old
      <4>2. /\ E \in Seq(Entries) /\ Len(E) = Len(old) + Len(page)
            /\ \A i \in 1 .. Len(old) + Len(page) :
                  E[i] = IF i <= Len(old) THEN old[i] ELSE page[i - Len(old)]
        BY <4>1, ConcatProperties
      <4>3. Len(old) \in Nat /\ n \in Nat
        BY SMTT(40), <4>1
      <4>4. /\ \A i \in 1 .. Len(old) : i \in 1 .. Len(old) + Len(page) /\ i <= Len(old)
            /\ \A i \in 1 .. Len(old) + n : i > Len(old) => ~(i <= Len(old))
        BY SMTT(40), <4>1, <4>3
      <4> QED
        BY <4>1, <4>2, <4>4 DEF old
    <3> HIDE DEF E
    <3>3. ASSUME NEW i \in 1 .. Len(E)
          PROVE  /\ E[i].scope = r.scope
                 /\ E[i].source = src
                 /\ E[i].position = i - 1
                 /\ E[i].generation = h.generation
      <4>1. CASE i <= Len(h.entries)
        BY SMTT(40), <4>1, <3>2, <1>2, <1>3
      <4>2. CASE i > Len(h.entries)
        <5>1. i - Len(h.entries) \in 1 .. n /\ i - 1 = Len(h.entries)
          BY SMTT(40), <4>2, <3>2, <1>2
        <5>2. E[i] = e
          BY ZenonT(40), <5>1, <4>2, <3>2, <1>5
        <5> QED
          BY <5>1, <5>2, <3>1, <1>4
      <4> QED
        BY SMTT(40), <4>1, <4>2, <1>2
    <3> QED
      BY <3>1, <3>2, <3>3
  <2> QED
    BY <2>1, <2>2
<1>7. N \in Nat /\ N \in {0, Len(E)}
  BY SMTT(40), <1>2, <1>5, <1>6
<1>8. h \in Logs
  BY <1>1
<1>9. d = With(c, r.scope, l)
  BY DEF Applied, With, h
<1> HIDE DEF E, N
<1>10. /\ l \in Logs /\ l.pending = FALSE /\ l.generation = h.generation /\ l.entries = E
       /\ l.next = N /\ l.loaded = TRUE
  BY <1>6, <1>7, <1>8 DEF Logs
<1> HIDE DEF l, d
<1>11. /\ CacheInv(d, S \ {r}, src)
       /\ d.older = c.older /\ d.generation = c.generation
       /\ NarrowedScopes(d) = NarrowedScopes(c)
       /\ d.logs[r.scope] = l
       /\ \A s \in Scopes \ {r.scope} : d.logs[s] = c.logs[s]
  <2>1. PureLog(l, r.scope, src)
    BY <1>6, <1>7, <1>10 DEF PureLog
  <2>2. Settles(c, r, l, src)
    BY <2>1, <1>10 DEF h, Settles
  <2>3. CacheInv(d, S \ {r}, src)
    BY <2>2, <1>9, AnswerKeeps
  <2>4. /\ d.older = c.older /\ d.generation = c.generation
        /\ d.logs[r.scope] = l /\ \A s \in Scopes \ {r.scope} : d.logs[s] = c.logs[s]
    BY SMTT(40), <1>1, <1>10, <1>9, WithIs
  <2>5. NarrowedScopes(d) = NarrowedScopes(c)
    BY <2>4, <1>1, <1>10, AbsentIsNoLog DEF NarrowedScopes, Has
  <2> QED
    BY <2>3, <2>4, <2>5
<1>12. \A s \in Scopes : Has(d, s) = Has(c, s)
  BY <1>1, <1>10, <1>11, AbsentIsNoLog DEF Has
<1>13. \A s \in Scopes \ {r.scope} : EntriesOf(d, s) = EntriesOf(c, s)
  BY <1>11 DEF EntriesOf, Held, Has
<1> QED
  BY <1>11, <1>12, <1>13 DEF d, AfterAnswer

------------------------------------------------------------------------------
\* A tab's own scope.
LEMMA PlainIs ==
    ASSUME NEW p \in Platforms \cup {All}
    PROVE  PlainScope(p) \in Scopes /\ IsPlain(PlainScope(p)) /\ PlainScope(p).platform = p
BY NamesDiffer DEF PlainScope, Scopes, IsPlain

\* What is queued joins the queue, and nothing else happens.
LEMMA QueuedIs ==
    ASSUME NEW c, NEW S, NEW src, CacheInv(c, S, src), NEW ps \in SUBSET Platforms,
           NEW o \in Orders(Unqueued(c, ps))
    PROVE  /\ CacheInv(Queued(c, o), S, src)
           /\ Queued(c, o).logs = c.logs /\ Queued(c, o).older = c.older
           /\ Queued(c, o).generation = c.generation
<1> DEFINE T == Unqueued(c, ps)
           n == Cardinality(T)
           old == c.prefetch
           add == [i \in 1 .. Len(o) |-> PlainScope(o[i])]
           q == old \o add
           d == Queued(c, o)
<1>1. T \subseteq Platforms \cup {All} /\ \A p \in T : \A i \in DOMAIN old : old[i] # PlainScope(p)
  BY DEF Unqueued
<1>2. c \in Caches /\ old \in Seq(Scopes)
  BY DEF CacheInv, Caches
<1>3. IsFiniteSet(T) /\ n \in Nat
  <2> DEFINE f == [p \in T |-> PlainScope(p)]
  <2>1. f \in Injection(T, Scopes)
    <3>1. \A p \in T : PlainScope(p) \in Scopes /\ PlainScope(p).platform = p
      BY <1>1, PlainIs
    <3> HIDE DEF T
    <3> QED
      BY <3>1 DEF Injection, IsInjective
  <2> HIDE DEF f, T
  <2>2. IsFiniteSet(T)
    BY <2>1, ScopesAreFinite, FS_Injection
  <2> QED
    BY <2>2, FS_CardinalityType
<1>4. o \in [1 .. n -> T] /\ \A i, j \in 1 .. n : o[i] = o[j] => i = j
  BY DEF Orders
<1> HIDE DEF T, n
<1>5. Len(o) = n
  BY SMTT(40), <1>3, <1>4
<1>6. /\ add \in Seq(Scopes) /\ Len(add) = n
      /\ \A i \in 1 .. n : add[i] = PlainScope(o[i]) /\ o[i] \in T
  <2>1. \A i \in 1 .. n : o[i] \in T /\ PlainScope(o[i]) \in Scopes
    BY <1>1, <1>4, PlainIs
  <2> QED
    BY SMTT(40), <2>1, <1>3, <1>5
<1> HIDE DEF add, old
<1>7. /\ q \in Seq(Scopes) /\ Len(q) = Len(old) + n /\ Len(old) \in Nat
      /\ \A i \in 1 .. Len(old) + n : q[i] = IF i <= Len(old) THEN old[i] ELSE add[i - Len(old)]
  <2>1. /\ q \in Seq(Scopes) /\ Len(q) = Len(old) + Len(add)
        /\ \A i \in 1 .. Len(old) + Len(add) :
              q[i] = IF i <= Len(old) THEN old[i] ELSE add[i - Len(old)]
    BY <1>2, <1>6, ConcatProperties
  <2>2. Len(add) = n /\ Len(old) \in Nat
    BY SMT, <1>2, <1>6
  <2> HIDE DEF q
  <2> QED
    BY <2>1, <2>2
<1>8. d = [c EXCEPT !.prefetch = q]
  BY DEF Queued, q, old, add
<1> HIDE DEF q, d
<1>9. /\ d \in Caches /\ d.logs = c.logs /\ d.older = c.older /\ d.generation = c.generation
      /\ d.prefetch = q
  BY <1>2, <1>7, <1>8 DEF Caches
<1>10. ASSUME NEW i \in 1 .. Len(q)
       PROVE  \/ i \in 1 .. Len(old) /\ q[i] = old[i]
              \/ i > Len(old) /\ i - Len(old) \in 1 .. n /\ q[i] = add[i - Len(old)]
  BY SMTT(40), <1>10, <1>3, <1>7
<1>11. Queue(d)
  <2>1. /\ \A i \in 1 .. Len(old) : IsPlain(old[i])
        /\ \A i, j \in 1 .. Len(old) : old[i] = old[j] => i = j
    BY DEF CacheInv, Queue, old
  <2>2. ASSUME NEW i \in 1 .. n
        PROVE  /\ IsPlain(add[i]) /\ add[i].platform = o[i]
               /\ \A j \in 1 .. Len(old) : old[j] # add[i]
    <3>1. add[i] = PlainScope(o[i]) /\ o[i] \in T /\ o[i] \in Platforms \cup {All}
      BY <1>1, <1>6
    <3>2. IsPlain(add[i]) /\ add[i].platform = o[i]
      BY <3>1, PlainIs
    <3>3. \A j \in 1 .. Len(old) : old[j] # PlainScope(o[i])
      BY SMTT(40), <3>1, <1>1, <1>2 DEF old
    <3> QED
      BY <3>1, <3>2, <3>3
  <2>3. \A i, j \in 1 .. n : add[i] = add[j] => i = j
    BY ZenonT(40), <2>2, <1>4
  <2>4. \A i \in 1 .. Len(q) : IsPlain(q[i])
    BY <1>10, <2>1, <2>2
  <2>5. ASSUME NEW i \in 1 .. Len(q), NEW j \in 1 .. Len(q), q[i] = q[j] PROVE i = j
    <3>1. CASE i \in 1 .. Len(old) /\ j \in 1 .. Len(old)
      BY SMTT(40), <3>1, <2>5, <1>10, <2>1, <1>7
    <3>2. CASE i > Len(old) /\ j > Len(old)
      <4>1. i - Len(old) \in 1 .. n /\ j - Len(old) \in 1 .. n /\ add[i - Len(old)] = add[j - Len(old)]
        BY SMTT(40), <3>2, <2>5, <1>10, <1>7
      <4>2. i - Len(old) = j - Len(old)
        BY <4>1, <2>3
      <4> QED
        BY SMTT(40), <4>2, <1>7
    <3> QED
      BY <3>1, <3>2, <2>5, <2>2, <1>10
  <2> QED
    BY <2>4, <2>5, <1>9 DEF Queue
<1>12. \A s : Has(d, s) = Has(c, s) /\ Held(d, s) = Held(c, s)
  BY <1>9 DEF Has, Held
<1>13. NarrowedScopes(d) = NarrowedScopes(c) /\ \A r : Accepts(d, r) = Accepts(c, r)
  BY <1>9, <1>12 DEF NarrowedScopes, Accepts
<1>14. Inline(d) /\ Blank(d)
  BY <1>9, <1>12, <1>13 DEF Inline, Blank, CacheInv
<1>15. Dated(d, S) /\ Pure(d, src)
  BY <1>9, <1>12 DEF Dated, Pure, CacheInv
<1>16. Answers(d, S, src) /\ Waits(d, S)
  BY <1>9, <1>12, <1>13 DEF Answers, Waits, CacheInv
<1> QED
  BY <1>9, <1>11, <1>14, <1>15, <1>16 DEF CacheInv, d

\* What is out stays out while the cache grows.
LEMMA GrowsInflight ==
    ASSUME NEW a \in Caches, NEW b \in Caches, Grows(a, b)
    PROVE  Inflight(a) <= Inflight(b) /\ Inflight(a) \in Nat /\ Inflight(b) \in Nat
<1> DEFINE A == {s \in Scopes : Held(a, s).pending}
           B == {s \in Scopes : Held(b, s).pending}
<1>1. A \subseteq B
  BY DEF Grows, Held, Has
<1>2. IsFiniteSet(A) /\ IsFiniteSet(B) /\ Cardinality(A) \in Nat /\ Cardinality(B) \in Nat
  BY NarrowedIs
<1>3. Cardinality(A) <= Cardinality(B)
  BY <1>1, <1>2, FS_Subset
<1> QED
  BY <1>2, <1>3 DEF Inflight

\* What is drawn of a scope is a sequence of entries.
LEMMA EntriesAre ==
    ASSUME NEW c \in Caches, NEW s \in Scopes
    PROVE  EntriesOf(c, s) \in Seq(Entries)
<1>1. Held(c, s) \in Logs
  BY LogIs
<1> QED
  BY <1>1 DEF EntriesOf, Logs

------------------------------------------------------------------------------
\* Loads are queued only while as many as may be are out.
Moving(c) == c.prefetch # <<>> => Inflight(c) >= MaxPrefetch

\* The grid draws s, and s, if it is a search, was used last.
OnScreen(c, s, drawn) ==
    /\ drawn = EntriesOf(c, s)
    /\ Has(c, s) /\ ~IsPlain(s) => Newest(c, s)

\* The inductive invariant of the console grid.
ConsoleInv ==
    /\ TypeOK
    /\ CacheInv(console, sent, source)
    /\ Moving(console)
    /\ section = "console" /\ ~Settling => OnScreen(console, scope, visible)

\* What a step keeps and trims.
Keeps ==
    section = "console" /\ ~Settling /\ Has(console, scope) /\ scope' = scope /\ source' = source
        => Has(console', scope)

\* A step that starts a load leaves the cache trimmed.
Trims == console'.generation # console.generation => Trimmed(console')

\* A handler that only starts loads.
LEMMA BecomesIs ==
    ASSUME ConsoleInv, NEW b, Grows(console, b), Inline(b), Queue(b), Moving(b), Becomes(b),
           source' = source
    PROVE  /\ CacheInv(console', sent', source') /\ Moving(console') /\ console' \in Caches
           /\ sent' \subseteq Requests /\ source' \in Nat /\ console' = b
<1>1. CacheInv(b, sent \cup Issued(console, b), source)
  BY GrowsKeeps DEF ConsoleInv
<1>2. console' = b /\ sent' = sent \cup Issued(console, b)
  BY DEF Becomes
<1> QED
  BY <1>1, <1>2 DEF CacheInv

\* Opening a scope.
LEMMA EnsuredKeeps ==
    ASSUME NEW a, NEW S, CacheInv(a, S, source), Moving(a), NEW s \in Scopes
    PROVE  /\ Grows(a, Ensured(a, s)) /\ Inline(Ensured(a, s)) /\ Queue(Ensured(a, s))
           /\ Moving(Ensured(a, s)) /\ Has(Ensured(a, s), s)
           /\ ~IsPlain(s) => Newest(Ensured(a, s), s)
           /\ \/ Ensured(a, s).generation = a.generation /\ Ensured(a, s).logs = a.logs
              \/ Trimmed(Ensured(a, s))
<1> DEFINE b == Ensured(a, s)
<1>1. a \in Caches /\ Inline(a) /\ Blank(a) /\ Queue(a)
  BY DEF CacheInv
<1>2. /\ Grows(a, b) /\ Inline(b) /\ b.prefetch = a.prefetch /\ Has(b, s)
      /\ ~IsPlain(s) => Newest(b, s)
      /\ (b.generation = a.generation /\ b.logs = a.logs) \/ Trimmed(b)
  BY <1>1, EnsuredIs
<1> HIDE DEF b
<1>3. b \in Caches
  BY <1>2 DEF Grows
<1>4. Queue(b)
  BY <1>1, <1>2 DEF Queue
<1>5. Moving(b)
  BY SMTT(40), <1>1, <1>2, <1>3, GrowsInflight, LimitsFit DEF Moving
<1> QED
  BY <1>2, <1>4, <1>5 DEF b

\* The handlers that put a scope on screen.
LEMMA ShowKeeps ==
    ASSUME ConsoleInv, NEW s \in Scopes, section' = "console", scope' = s,
           Becomes(Ensured(console, s)), visible' = EntriesOf(console', s),
           source' = source, timers' \in Seq(Terms)
    PROVE  ConsoleInv' /\ Keeps /\ Trims
<1> DEFINE b == Ensured(console, s)
<1>1. CacheInv(console, sent, source) /\ Moving(console) /\ TypeOK
  BY DEF ConsoleInv
<1>2. /\ Grows(console, b) /\ Inline(b) /\ Queue(b) /\ Moving(b) /\ Has(b, s)
      /\ ~IsPlain(s) => Newest(b, s)
      /\ (b.generation = console.generation /\ b.logs = console.logs) \/ Trimmed(b)
  BY <1>1, EnsuredKeeps
<1> HIDE DEF b
<1>3. /\ CacheInv(console', sent', source') /\ Moving(console') /\ console' \in Caches
      /\ sent' \subseteq Requests /\ source' \in Nat /\ console' = b
  BY <1>2, BecomesIs DEF b
<1>4. TypeOK'
  BY <1>3, EntriesAre DEF TypeOK
<1>5. OnScreen(console', scope', visible')
  BY <1>2, <1>3 DEF OnScreen
<1>6. ConsoleInv'
  BY <1>3, <1>4, <1>5 DEF ConsoleInv
<1>7. Keeps /\ Trims
  BY <1>2, <1>3 DEF Keeps, Trims
<1> QED
  BY <1>6, <1>7

------------------------------------------------------------------------------
\* The next page of a log at rest that has more.
LEMMA ExtendKeeps ==
    ASSUME NEW c, NEW S, NEW src, CacheInv(c, S, src), Moving(c), NEW s \in Scopes,
           Held(c, s).next > 0, ~Held(c, s).pending,
           NEW r, r = [scope |-> s, generation |-> c.logs[s].generation, offset |-> c.logs[s].next,
                       source |-> src]
    PROVE  /\ CacheInv(Extend(c, s), S \cup {r}, src) /\ Moving(Extend(c, s))
           /\ Extend(c, s).generation = c.generation
           /\ Has(Extend(c, s), s) /\ EntriesOf(Extend(c, s), s) = EntriesOf(c, s)
           /\ ~IsPlain(s) => Newest(Extend(c, s), s)
<1> DEFINE h == c.logs[s]
           l == [h EXCEPT !.pending = TRUE]
           b == Extend(c, s)
<1>1. c \in Caches /\ S \subseteq Requests /\ src \in Nat /\ Inline(c) /\ Queue(c)
  BY DEF CacheInv
<1>2. Has(c, s) /\ h \in Logs /\ h.next > 0 /\ ~h.pending
  <2>1. Has(c, s)
    BY SMTT(40) DEF Held, EmptyLog
  <2> QED
    BY ZenonT(40), <2>1, <1>1, LogIs DEF Held
<1>3. /\ h.next = Len(h.entries) /\ h.loaded /\ h.next \in Nat /\ h.generation \in 1 .. c.generation
      /\ PureLog(h, s, src)
  <2>1. PureLog(h, s, src) /\ h.generation \in 1 .. c.generation /\ h.next \in Nat
    BY ZenonT(40), <1>2 DEF CacheInv, Pure, Dated, Logs
  <2>2. h.next = Len(h.entries)
    BY SMTT(40), <2>1, <1>2 DEF PureLog
  <2>3. h.loaded
    BY SMT, <1>2 DEF CacheInv, Blank, Held
  <2> QED
    BY <2>1, <2>2, <2>3
<1>4. /\ b \in Caches /\ Inline(b) /\ b.prefetch = c.prefetch /\ b.generation = c.generation
      /\ b.logs[s] = l
      /\ \A t \in Scopes \ {s} :
            b.logs[t] = c.logs[t] \/ (~Held(c, t).pending /\ b.logs[t] = Absent)
      /\ ~IsPlain(s) => Newest(b, s)
  BY <1>1, <1>2, ExtendIs
<1>5. /\ l \in Logs /\ l.pending = TRUE /\ l.generation = h.generation /\ l.entries = h.entries
      /\ l.next = h.next /\ l.loaded = h.loaded /\ l # Absent
  <2>1. /\ l \in Logs /\ l.pending = TRUE /\ l.generation = h.generation /\ l.entries = h.entries
        /\ l.next = h.next /\ l.loaded = h.loaded
    BY <1>2 DEF Logs
  <2> QED
    BY <2>1, AbsentIsNoLog
<1> HIDE DEF b, l
<1>6. Has(b, s) /\ EntriesOf(b, s) = EntriesOf(c, s) /\ Held(b, s) = l
  BY <1>2, <1>4, <1>5 DEF Has, EntriesOf, Held
<1>7. /\ r \in Requests /\ r.scope = s /\ r.generation = h.generation /\ r.offset = h.next
      /\ r.source = src
  <2>1. h.generation \in Nat
    BY <1>2 DEF Logs
  <2> QED
    BY <2>1, <1>1, <1>3 DEF Requests
<1> HIDE DEF h
<1>8. \A t \in Scopes \ {s} : Has(b, t) => b.logs[t] = c.logs[t] /\ Has(c, t)
  BY <1>4 DEF Has
<1>9. Blank(b)
  <2> SUFFICES ASSUME NEW t \in Scopes, ~Held(b, t).loaded
               PROVE  Held(b, t).entries = <<>> /\ Held(b, t).next = 0
    BY DEF Blank
  <2>1. t # s
    BY <1>3, <1>5, <1>6
  <2>2. CASE Has(b, t)
    <3>1. Held(b, t) = Held(c, t)
      BY <2>1, <2>2, <1>8 DEF Held
    <3> QED
      BY <3>1 DEF CacheInv, Blank
  <2>3. CASE ~Has(b, t)
    BY <2>3 DEF Held, EmptyLog
  <2> QED
    BY <2>2, <2>3
<1>10. Queue(b)
  BY <1>1, <1>4 DEF Queue
<1>11. Dated(b, S \cup {r})
  <2>1. c.generation \in Nat
    BY ZenonT(40), <1>1 DEF Caches
  <2>2. r.generation <= b.generation
    BY SMTT(40), <2>1, <1>3, <1>4, <1>7
  <2>3. \A t \in Scopes : Has(b, t) => b.logs[t].generation \in 1 .. b.generation
    BY ZenonT(40), <1>3, <1>4, <1>5, <1>8 DEF CacheInv, Dated
  <2> QED
    BY <2>2, <2>3, <1>4 DEF CacheInv, Dated
<1>12. Pure(b, src)
  <2>1. PureLog(l, s, src)
    BY <1>3, <1>5 DEF PureLog
  <2> QED
    BY <2>1, <1>4, <1>8 DEF CacheInv, Pure
<1>13. ASSUME NEW q \in S, Accepts(b, q)
       PROVE  q.scope \in Scopes \ {s} /\ Accepts(c, q) /\ b.logs[q.scope] = c.logs[q.scope]
  <2>1. q.scope \in Scopes
    BY <1>1 DEF Requests
  <2>2. q.scope # s
    <3>1. SUFFICES ASSUME q.scope = s PROVE FALSE
      OBVIOUS
    <3>2. Accepts(c, q)
      BY ZenonT(40), <3>1, <1>13, <1>2, <1>4, <1>5 DEF Accepts, h
    <3>3. c.logs[s].pending
      BY <3>1, <3>2 DEF CacheInv, Answers
    <3> QED
      BY <3>3, <1>2 DEF h
  <2> QED
    BY <2>1, <2>2, <1>13, <1>8 DEF Accepts
<1>14. Answers(b, S \cup {r}, src)
  <2> SUFFICES ASSUME NEW q \in S \cup {r}, Accepts(b, q)
               PROVE  /\ b.logs[q.scope].pending /\ q.source = src
                      /\ \/ q.offset = 0 /\ ~b.logs[q.scope].loaded
                         \/ /\ q.offset > 0 /\ b.logs[q.scope].loaded
                            /\ q.offset = Len(b.logs[q.scope].entries)
    BY DEF Answers
  <2>1. CASE q = r
    BY <2>1, <1>2, <1>3, <1>4, <1>5, <1>7
  <2>2. CASE q \in S
    BY <2>2, <1>13 DEF CacheInv, Answers
  <2> QED
    BY <2>1, <2>2
<1>15. Waits(b, S \cup {r})
  <2> SUFFICES ASSUME NEW t \in Scopes, Has(b, t), b.logs[t].pending
               PROVE  \E q \in S \cup {r} : Accepts(b, q) /\ q.scope = t
    BY DEF Waits
  <2>1. CASE t = s
    <3>1. Accepts(b, r)
      BY <1>4, <1>5, <1>6, <1>7 DEF Accepts
    <3> QED
      BY <3>1, <2>1, <1>7
  <2>2. CASE t # s
    <3>1. PICK q \in S : Accepts(c, q) /\ q.scope = t
      BY <2>2, <1>8 DEF CacheInv, Waits
    <3>2. Accepts(b, q)
      BY ZenonT(40), <3>1, <2>2, <1>8 DEF Accepts
    <3> QED
      BY <3>1, <3>2
  <2> QED
    BY <2>1, <2>2
<1>16. Moving(b)
  <2> DEFINE A == {t \in Scopes : Held(c, t).pending}
             B == {t \in Scopes : Held(b, t).pending}
  <2>1. A \subseteq B
    BY <1>4, <1>5, <1>6 DEF Held, Has
  <2>2. IsFiniteSet(A) /\ IsFiniteSet(B) /\ Cardinality(A) \in Nat /\ Cardinality(B) \in Nat
    BY NarrowedIs
  <2>3. Cardinality(A) <= Cardinality(B)
    BY <2>1, <2>2, FS_Subset
  <2>4. Inflight(c) = Cardinality(A) /\ Inflight(b) = Cardinality(B)
    BY DEF Inflight
  <2> HIDE DEF A, B
  <2> QED
    BY SMTT(40), <2>2, <2>3, <2>4, <1>4, LimitsFit DEF Moving
<1> QED
  BY ZenonT(40), <1>1, <1>4, <1>6, <1>7, <1>9, <1>10, <1>11, <1>12, <1>14, <1>15, <1>16
     DEF CacheInv, b

------------------------------------------------------------------------------
\* The warm-up, and the requests it makes.
LEMMA PumpKeeps ==
    ASSUME NEW c, NEW S, CacheInv(c, S, source)
    PROVE  CacheInv(Pumped(c), S \cup Issued(c, Pumped(c)), source) /\ Moving(Pumped(c))
<1>1. c \in Caches /\ Inline(c) /\ Blank(c) /\ Queue(c)
  BY DEF CacheInv
<1>2. Grows(c, Pumped(c)) /\ Inline(Pumped(c)) /\ Queue(Pumped(c)) /\ Moving(Pumped(c))
  BY <1>1, PumpedIs DEF Moving
<1> QED
  BY <1>2, GrowsKeeps

\* The handlers of an answer.
LEMMA AnswerStep ==
    ASSUME ConsoleInv, NEW r \in sent, NEW c, AfterAnswer(console, c, sent, r, source),
           console' = Pumped(c), sent' = (sent \ {r}) \cup Issued(c, console'),
           UNCHANGED <<source, section, scope, timers>>,
           \/ visible' = EntriesOf(console', scope)
           \/ visible' = visible /\ (section = "console" => EntriesOf(c, scope) = EntriesOf(console, scope))
    PROVE  ConsoleInv' /\ Keeps /\ Trims
<1> DEFINE b == Pumped(c)
<1>1. TypeOK /\ scope \in Scopes /\ console \in Caches
  BY DEF ConsoleInv, TypeOK
<1>2. /\ c \in Caches /\ Inline(c) /\ Blank(c) /\ Queue(c) /\ CacheInv(c, sent \ {r}, source)
      /\ c.older = console.older /\ c.generation = console.generation
      /\ NarrowedScopes(c) = NarrowedScopes(console)
      /\ \A s \in Scopes : Has(c, s) = Has(console, s)
  BY DEF AfterAnswer, CacheInv
<1>3. CacheInv(console', sent', source') /\ Moving(console')
  BY <1>2, PumpKeeps
<1>4. /\ (b.generation = c.generation /\ b.logs = c.logs) \/ Trimmed(b)
      /\ \A s \in Scopes : Has(c, s) /\ (IsPlain(s) \/ Newest(c, s)) =>
            /\ Has(b, s)
            /\ EntriesOf(b, s) = EntriesOf(c, s)
            /\ ~IsPlain(s) => Newest(b, s)
      /\ \A s \in Scopes : ~Has(c, s) => EntriesOf(b, s) = <<>> /\ (~IsPlain(s) => ~Has(b, s))
  BY <1>2, PumpedIs
<1> HIDE DEF b
<1>5. console' = b /\ b \in Caches
  BY <1>3 DEF CacheInv, b
<1>6. TypeOK'
  <2>1. visible' \in Seq(Entries)
    BY <1>1, <1>5, EntriesAre DEF TypeOK
  <2>2. console' \in Caches /\ sent' \subseteq Requests /\ source' \in Nat
    BY <1>3 DEF CacheInv
  <2> QED
    BY <2>1, <2>2, <1>1 DEF TypeOK
<1>7. ASSUME section = "console", ~Settling
      PROVE  /\ OnScreen(console', scope', visible')
             /\ Has(console, scope) => Has(console', scope)
  <2>1. /\ visible = EntriesOf(console, scope)
        /\ Has(console, scope) /\ ~IsPlain(scope) => Newest(console, scope)
    BY <1>7 DEF ConsoleInv, OnScreen
  <2>2. Has(c, scope) = Has(console, scope) /\ (Newest(console, scope) => Newest(c, scope))
    BY <1>1, <1>2 DEF Newest
  <2>3. CASE Has(console, scope)
    <3>1. Has(c, scope) /\ (IsPlain(scope) \/ Newest(c, scope))
      BY <2>1, <2>2, <2>3
    <3>2. /\ Has(b, scope) /\ EntriesOf(b, scope) = EntriesOf(c, scope)
          /\ ~IsPlain(scope) => Newest(b, scope)
      BY <3>1, <1>1, <1>4
    <3> QED
      BY <3>2, <2>1, <1>5, <1>7 DEF OnScreen
  <2>4. CASE ~Has(console, scope)
    <3>1. EntriesOf(b, scope) = <<>> /\ (~IsPlain(scope) => ~Has(b, scope))
      BY <2>2, <2>4, <1>1, <1>4
    <3>2. EntriesOf(console, scope) = <<>>
      BY <2>4 DEF EntriesOf, Held, EmptyLog
    <3> QED
      BY <3>1, <3>2, <2>1, <2>4, <1>5, <1>7 DEF OnScreen
  <2> QED
    BY <2>3, <2>4
<1>8. ConsoleInv'
  <2>1. section' = "console" /\ ~Settling' => section = "console" /\ ~Settling
    BY DEF Settling
  <2> QED
    BY <2>1, <1>3, <1>6, <1>7 DEF ConsoleInv
<1>9. Keeps
  BY <1>7 DEF Keeps
<1>10. Trims
  BY <1>2, <1>4, <1>5 DEF Trims
<1> QED
  BY <1>8, <1>9, <1>10

\* The answer to a page keeps the invariant, whether its log still takes it or not.
LEMMA PageLoadedKeeps ==
    ASSUME ConsoleInv, NEW r \in sent, PageLoaded(r)
    PROVE  ConsoleInv' /\ Keeps /\ Trims
<1> DEFINE Then(n, more, c) ==
             /\ console' = Pumped(c)
             /\ sent' = (sent \ {r}) \cup Issued(c, console')
             /\ visible' = IF Accepts(console, r) /\ section = "console" /\ r.scope = scope
                           THEN EntriesOf(console', scope) ELSE visible
             /\ UNCHANGED <<source, section, scope, timers>>
<1>1. PICK n \in 0 .. 1, more \in BOOLEAN :
         Then(n, more, IF Accepts(console, r) THEN Applied(console, r, PageOf(r, n), more) ELSE console)
  BY DEF PageLoaded, PageOf
<1> DEFINE page == PageOf(r, n)
           c == IF Accepts(console, r) THEN Applied(console, r, page, more) ELSE console
<1>2. /\ console' = Pumped(c)
      /\ sent' = (sent \ {r}) \cup Issued(c, console')
      /\ visible' = IF Accepts(console, r) /\ section = "console" /\ r.scope = scope
                    THEN EntriesOf(console', scope) ELSE visible
      /\ UNCHANGED <<source, section, scope, timers>>
  BY <1>1
<1>3. CacheInv(console, sent, source) /\ scope \in Scopes
  BY DEF ConsoleInv, TypeOK
<1>4. /\ AfterAnswer(console, c, sent, r, source)
      /\ \/ Accepts(console, r) /\ r.scope = scope
         \/ EntriesOf(c, scope) = EntriesOf(console, scope)
  <2>1. CASE ~Accepts(console, r)
    <3>1. c = console
      BY <2>1
    <3>2. CacheInv(console, sent \ {r}, source)
      BY <2>1, <1>3, DropKeeps
    <3> HIDE DEF c
    <3> QED
      BY <3>1, <3>2 DEF AfterAnswer
  <2>2. CASE Accepts(console, r)
    <3>1. AfterAnswer(console, Applied(console, r, page, more), sent, r, source)
      BY <2>2, <1>2, <1>3, AppliedIs
    <3>2. c = Applied(console, r, page, more)
      BY <2>2
    <3> HIDE DEF c
    <3>3. AfterAnswer(console, c, sent, r, source)
      BY <3>1, <3>2
    <3> QED
      BY <3>3, <2>2, <1>3 DEF AfterAnswer
  <2> QED
    BY <2>1, <2>2
<1> HIDE DEF c, page
<1>5. \/ visible' = EntriesOf(console', scope)
      \/ visible' = visible /\ (section = "console" => EntriesOf(c, scope) = EntriesOf(console, scope))
  BY <1>2, <1>4
<1> QED
  BY <1>2, <1>4, <1>5, AnswerStep

\* The failure of a page keeps the invariant, whether its log still takes it or not.
LEMMA PageFailedKeeps ==
    ASSUME ConsoleInv, NEW r \in sent, PageFailed(r)
    PROVE  ConsoleInv' /\ Keeps /\ Trims
<1> DEFINE c == IF Accepts(console, r) THEN Failed(console, r) ELSE console
<1>1. /\ console' = Pumped(c) /\ sent' = (sent \ {r}) \cup Issued(c, console')
      /\ UNCHANGED <<source, section, scope, timers>> /\ visible' = visible
  BY DEF PageFailed
<1>2. CacheInv(console, sent, source) /\ scope \in Scopes
  BY DEF ConsoleInv, TypeOK
<1>3. AfterAnswer(console, c, sent, r, source) /\ EntriesOf(c, scope) = EntriesOf(console, scope)
  <2>1. CASE ~Accepts(console, r)
    <3>1. c = console
      BY <2>1
    <3>2. CacheInv(console, sent \ {r}, source)
      BY <2>1, <1>2, DropKeeps
    <3> HIDE DEF c
    <3> QED
      BY <3>1, <3>2 DEF AfterAnswer
  <2>2. CASE Accepts(console, r)
    <3>1. c = Failed(console, r)
      BY <2>2
    <3> HIDE DEF c
    <3> QED
      BY <3>1, <2>2, <1>2, FailedIs DEF AfterAnswer
  <2> QED
    BY <2>1, <2>2
<1> HIDE DEF c
<1> QED
  BY <1>1, <1>3, AnswerStep

------------------------------------------------------------------------------
\* A step that leaves the cache and its requests alone.
LEMMA IdleKeeps ==
    ASSUME ConsoleInv, UNCHANGED <<console, sent, source>>,
           section' \in {"console", "local"}, scope' \in Scopes, timers' \in Seq(Terms),
           visible' \in Seq(Entries),
           section' = "console" /\ ~Settling' => OnScreen(console, scope', visible')
    PROVE  ConsoleInv' /\ Keeps /\ Trims
<1>1. TypeOK'
  BY DEF ConsoleInv, TypeOK
<1>2. ConsoleInv'
  BY <1>1 DEF ConsoleInv
<1> QED
  BY <1>2 DEF Keeps, Trims

\* The cache of a connection that is gone.
LEMMA RetiredIs ==
    ASSUME NEW c, NEW S, NEW src, CacheInv(c, S, src)
    PROVE  /\ CacheInv(Retired(c), S, src + 1) /\ Moving(Retired(c))
           /\ Retired(c).generation = c.generation
           /\ \A s \in Scopes : ~Has(Retired(c), s) /\ EntriesOf(Retired(c), s) = <<>>
<1> DEFINE d == Retired(c)
           L == [s \in Scopes |-> Absent]
<1>1. c \in Caches /\ S \subseteq Requests /\ src + 1 \in Nat
  BY SMT DEF CacheInv
<1>2. L \in [Scopes -> Logs \cup {Absent}] /\ \A s \in Scopes : L[s] = Absent
  OBVIOUS
<1>3. d \in Caches /\ d.logs = L /\ d.older = {} /\ d.prefetch = <<>> /\ d.generation = c.generation
  <2> DEFINE none == <<>>
             alone == {}
  <2>1. d = [c EXCEPT !.logs = L, !.older = alone, !.prefetch = none]
    BY DEF Retired
  <2>2. none \in Seq(Scopes) /\ alone \in SUBSET (Scopes \X Scopes)
    BY SMT
  <2>3. d \in Caches /\ d.logs = L /\ d.older = alone /\ d.prefetch = none /\ d.generation = c.generation
    <3> HIDE DEF d, L, none, alone
    <3> QED
      BY <2>1, <2>2, <1>1, <1>2 DEF Caches
  <2> QED
    BY <2>3
<1> HIDE DEF d, L
<1>4. \A s \in Scopes : ~Has(d, s) /\ Held(d, s) = EmptyLog
  BY <1>2, <1>3 DEF Has, Held
<1>5. NarrowedScopes(d) = {} /\ \A r \in S : ~Accepts(d, r)
  BY <1>1, <1>4 DEF NarrowedScopes, Accepts, Requests
<1>6. Inline(d)
  BY <1>3, <1>5 DEF Inline, TotalOn
<1>7. Blank(d) /\ \A s \in Scopes : EntriesOf(d, s) = <<>>
  BY SMT, <1>4 DEF Blank, EmptyLog, EntriesOf
<1>8. Queue(d) /\ Moving(d)
  BY SMT, <1>3 DEF Queue, Moving
<1>9. Dated(d, S)
  BY <1>3, <1>4 DEF Dated, CacheInv
<1>10. Pure(d, src + 1) /\ Answers(d, S, src + 1) /\ Waits(d, S)
  BY <1>4, <1>5 DEF Pure, Answers, Waits
<1> QED
  BY ZenonT(40), <1>1, <1>3, <1>4, <1>6, <1>7, <1>8, <1>9, <1>10 DEF CacheInv, d

\* The handlers that retire the source.
LEMMA RetireKeeps ==
    ASSUME ConsoleInv, source' = source + 1, console' = Retired(console),
           UNCHANGED <<sent, section, timers>>, scope' \in Scopes,
           \/ section = "console" /\ visible' = <<>>
           \/ section # "console" /\ visible' = visible
    PROVE  ConsoleInv' /\ Keeps /\ Trims
<1>1. TypeOK /\ CacheInv(console, sent, source)
  BY DEF ConsoleInv
<1>2. /\ CacheInv(console', sent', source') /\ Moving(console')
      /\ console'.generation = console.generation
      /\ \A s \in Scopes : ~Has(console', s) /\ EntriesOf(console', s) = <<>>
  BY <1>1, RetiredIs
<1>3. TypeOK'
  <2>0. <<>> \in Seq(Entries) /\ visible \in Seq(Entries)
    BY SMT, <1>1 DEF TypeOK
  <2>1. visible' \in Seq(Entries)
    <3>1. CASE section = "console"
      BY <3>1, <2>0
    <3>2. CASE section # "console"
      BY <3>2, <2>0
    <3> QED
      BY <3>1, <3>2
  <2>2. console' \in Caches /\ sent' \subseteq Requests /\ source' \in Nat
    BY <1>2 DEF CacheInv
  <2> QED
    BY <2>1, <2>2, <1>1 DEF TypeOK
<1>4. section' = "console" => OnScreen(console', scope', visible')
  BY <1>2 DEF OnScreen
<1>5. ConsoleInv'
  BY <1>2, <1>3, <1>4 DEF ConsoleInv
<1>6. Keeps
  BY SMT, <1>1 DEF Keeps, TypeOK
<1> QED
  BY <1>2, <1>5, <1>6 DEF Trims

\* Being trimmed is a matter of the logs.
LEMMA TrimmedBy ==
    ASSUME NEW a, NEW b, a.logs = b.logs, Trimmed(a)
    PROVE  Trimmed(b)
<1>1. NarrowedScopes(a) = NarrowedScopes(b)
  BY DEF NarrowedScopes, Has
<1> QED
  BY <1>1 DEF Trimmed, Narrowed

\* A new list of consoles keeps the invariant: it only queues tabs not cached yet.
LEMMA ConsolesLoadedKeeps ==
    ASSUME ConsoleInv, NEW ps \in SUBSET Platforms, NEW o \in Orders(Unqueued(console, ps)),
           ConsolesLoaded(ps, o)
    PROVE  ConsoleInv' /\ Keeps /\ Trims
<1> DEFINE q == Queued(console, o)
           c == Pumped(q)
           s == IF scope.platform \in ps \cup {All} THEN scope
                ELSE [scope EXCEPT !.platform = All, !.facets = {}]
           b == Ensured(c, s)
           S == sent \cup Issued(q, c)
<1>1. TypeOK /\ CacheInv(console, sent, source) /\ console \in Caches /\ scope \in Scopes
  BY DEF ConsoleInv, TypeOK
<1>2. s \in Scopes
  BY <1>1 DEF Scopes
<1>3. /\ CacheInv(q, sent, source) /\ q.logs = console.logs /\ q.generation = console.generation
  BY <1>1, QueuedIs
<1> HIDE DEF q, s
<1>4. q \in Caches /\ Inline(q) /\ Blank(q) /\ Queue(q)
  BY <1>3 DEF CacheInv
<1>5. /\ Grows(q, c) /\ Inline(c) /\ Queue(c)
      /\ (c.generation = q.generation /\ c.logs = q.logs) \/ Trimmed(c)
  BY <1>4, PumpedIs
<1>6. CacheInv(c, S, source) /\ Moving(c) /\ c \in Caches
  <2>1. CacheInv(c, S, source) /\ Moving(c)
    BY <1>3, PumpKeeps
  <2> QED
    BY <2>1 DEF CacheInv
<1> HIDE DEF c, S
<1>7. Grows(console, c)
  <2>1. \A t : Held(q, t) = Held(console, t)
    BY <1>3 DEF Held, Has
  <2> QED
    BY <2>1, <1>3, <1>5 DEF Grows
<1>8. /\ Grows(c, b) /\ Inline(b) /\ Queue(b) /\ Moving(b) /\ Has(b, s)
      /\ ~IsPlain(s) => Newest(b, s)
      /\ (b.generation = c.generation /\ b.logs = c.logs) \/ Trimmed(b)
  BY <1>2, <1>6, EnsuredKeeps
<1> HIDE DEF b
<1>9. /\ IF section = "console"
         THEN Becomes(b) /\ scope' = s /\ visible' = EntriesOf(console', s)
         ELSE Becomes(c) /\ UNCHANGED <<scope, visible>>
      /\ UNCHANGED <<source, section, timers>>
  BY DEF ConsolesLoaded, b, c, q, s
<1>10. CASE section = "console"
  <2>1. Grows(console, b)
    BY <1>1, <1>6, <1>7, <1>8, GrowsOn DEF Grows
  <2>2. /\ CacheInv(console', sent', source') /\ Moving(console') /\ console' \in Caches
        /\ sent' \subseteq Requests /\ source' \in Nat /\ console' = b
    BY <2>1, <1>8, <1>9, <1>10, BecomesIs
  <2>3. visible' \in Seq(Entries)
    BY <2>2, <1>2, <1>9, <1>10, EntriesAre
  <2>4. TypeOK'
    BY <2>2, <2>3, <1>1, <1>2, <1>9, <1>10 DEF TypeOK
  <2>5. OnScreen(console', scope', visible')
    BY <2>2, <1>8, <1>9, <1>10 DEF OnScreen
  <2>6. ConsoleInv'
    BY <2>2, <2>4, <2>5 DEF ConsoleInv
  <2>7. Keeps
    BY <2>2, <1>8, <1>9, <1>10 DEF Keeps
  <2>8. Trims
    <3>1. CASE Trimmed(b)
      BY <3>1, <2>2 DEF Trims
    <3>2. CASE b.generation = c.generation /\ b.logs = c.logs
      <4>1. CASE Trimmed(c)
        BY <4>1, <3>2, <2>2, TrimmedBy DEF Trims
      <4>2. CASE c.generation = q.generation
        BY <4>2, <3>2, <2>2, <1>3 DEF Trims
      <4> QED
        BY <4>1, <4>2, <1>5
    <3> QED
      BY <3>1, <3>2, <1>8
  <2> QED
    BY <2>6, <2>7, <2>8
<1>11. CASE section # "console"
  <2>1. /\ CacheInv(console', sent', source') /\ Moving(console') /\ console' \in Caches
        /\ sent' \subseteq Requests /\ source' \in Nat /\ console' = c
    BY ZenonT(40), <1>5, <1>6, <1>7, <1>9, <1>11, BecomesIs
  <2>2. TypeOK'
    BY <2>1, <1>1, <1>9, <1>11 DEF TypeOK
  <2>3. ConsoleInv'
    BY <2>1, <2>2, <1>9, <1>11 DEF ConsoleInv
  <2>4. Keeps /\ Trims
    BY <2>1, <1>3, <1>5, <1>11 DEF Keeps, Trims
  <2> QED
    BY <2>3, <2>4
<1> QED
  BY <1>10, <1>11

\* Asking for the next page keeps the invariant.
LEMMA GridScrolledKeeps ==
    ASSUME ConsoleInv, GridScrolled
    PROVE  ConsoleInv' /\ Keeps /\ Trims
<1> DEFINE r == [scope |-> scope, generation |-> console.logs[scope].generation,
                 offset |-> console.logs[scope].next, source |-> source]
           b == Extend(console, scope)
<1>1. TypeOK /\ CacheInv(console, sent, source) /\ Moving(console) /\ scope \in Scopes
  BY DEF ConsoleInv, TypeOK
<1>2. /\ Held(console, scope).next > 0 /\ ~Held(console, scope).pending
      /\ console' = b /\ sent' = sent \cup {r}
      /\ UNCHANGED <<source, section, scope, timers, visible>> /\ section = "console"
  BY DEF GridScrolled
<1> HIDE DEF r
<1>3. /\ CacheInv(b, sent \cup {r}, source) /\ Moving(b) /\ b.generation = console.generation
      /\ Has(b, scope) /\ EntriesOf(b, scope) = EntriesOf(console, scope)
      /\ ~IsPlain(scope) => Newest(b, scope)
  BY <1>1, <1>2, ExtendKeeps DEF r
<1> HIDE DEF b
<1>4. TypeOK'
  BY <1>1, <1>2, <1>3 DEF TypeOK, CacheInv
<1>5. ~Settling => OnScreen(console', scope', visible')
  BY <1>2, <1>3 DEF ConsoleInv, OnScreen
<1>6. Settling' = Settling
  BY <1>2 DEF Settling
<1>7. ConsoleInv'
  BY <1>2, <1>3, <1>4, <1>5, <1>6 DEF ConsoleInv
<1> QED
  BY <1>2, <1>3, <1>7 DEF Keeps, Trims

------------------------------------------------------------------------------
\* The empty cache meets the invariant.
LEMMA InitKeeps == Init => ConsoleInv
<1> SUFFICES ASSUME Init PROVE ConsoleInv
  OBVIOUS
<1> DEFINE L == [s \in Scopes |-> Absent]
<1>1. /\ console = [logs |-> L, older |-> {}, prefetch |-> <<>>, generation |-> 0]
      /\ sent = {} /\ source = 0 /\ section = "local" /\ scope = PlainScope(All)
      /\ timers = <<>> /\ visible = <<>>
  BY DEF Init
<1>2. L \in [Scopes -> Logs \cup {Absent}] /\ \A s \in Scopes : L[s] = Absent
  OBVIOUS
<1> HIDE DEF L
<1>3. /\ console \in Caches /\ console.logs = L /\ console.older = {} /\ console.prefetch = <<>>
      /\ console.generation = 0
  BY SMTT(40), <1>1, <1>2 DEF Caches
<1>4. \A s \in Scopes : ~Has(console, s) /\ Held(console, s) = EmptyLog
  BY <1>2, <1>3 DEF Has, Held
<1>5. NarrowedScopes(console) = {}
  BY <1>4 DEF NarrowedScopes
<1>6. Inline(console) /\ Blank(console) /\ Queue(console) /\ Moving(console)
  <2>1. Inline(console)
    BY <1>3, <1>5 DEF Inline, TotalOn
  <2>2. Blank(console)
    BY SMT, <1>4 DEF Blank, EmptyLog
  <2>3. Queue(console) /\ Moving(console)
    BY SMT, <1>3 DEF Queue, Moving
  <2> QED
    BY <2>1, <2>2, <2>3
<1>7. /\ Dated(console, sent) /\ Pure(console, source)
      /\ Answers(console, sent, source) /\ Waits(console, sent)
  BY <1>1, <1>4 DEF Dated, Pure, Answers, Waits
<1>8. TypeOK
  <2>1. scope \in Scopes
    BY <1>1, PlainIs
  <2>2. visible \in Seq(Entries) /\ timers \in Seq(Terms)
    BY SMT, <1>1
  <2> QED
    BY <2>1, <2>2, <1>1, <1>3 DEF TypeOK
<1> QED
  BY <1>1, <1>3, <1>6, <1>7, <1>8 DEF ConsoleInv, CacheInv

\* Every step keeps the invariant, what is on screen, and the cache within its bound.
LEMMA StepKeeps ==
    ASSUME ConsoleInv, [Next]_vars
    PROVE  ConsoleInv' /\ Keeps /\ Trims
<1>1. /\ TypeOK /\ scope \in Scopes /\ section \in {"console", "local"} /\ timers \in Seq(Terms)
      /\ visible \in Seq(Entries) /\ console \in Caches
      /\ PlainScope(All) \in Scopes
      /\ section = "console" /\ ~Settling => OnScreen(console, scope, visible)
  BY PlainIs DEF ConsoleInv, TypeOK
<1>2. ASSUME NEW s \in Scopes, Show(s) PROVE ConsoleInv' /\ Keeps /\ Trims
  BY <1>2, <1>1, ShowKeeps DEF Show
<1>3. CASE EnterSection
  BY <1>2, <1>3, PlainIs DEF EnterSection
<1>4. CASE LeaveSection
  <2>1. visible' \in Seq(Entries)
    BY SMTT(40), <1>4 DEF LeaveSection
  <2> QED
    BY <2>1, <1>1, <1>4, IdleKeeps DEF LeaveSection
<1>5. CASE SelectFacet
  <2>1. PICK f \in SUBSET Facets : Show([scope EXCEPT !.facets = f])
    BY <1>5 DEF SelectFacet
  <2>2. [scope EXCEPT !.facets = f] \in Scopes
    BY <1>1 DEF Scopes
  <2> QED
    BY <2>1, <2>2, <1>2
<1>6. CASE \E p \in Platforms \cup {All} : SelectTab(p)
  <2>1. PICK p \in Platforms \cup {All} : Show([scope EXCEPT !.platform = p, !.facets = {}])
    BY <1>6 DEF SelectTab
  <2>2. [scope EXCEPT !.platform = p, !.facets = {}] \in Scopes
    BY <1>1 DEF Scopes
  <2> QED
    BY <2>1, <2>2, <1>2
<1>7. CASE SearchSettled
  <2>1. timers # <<>> /\ timers' = Tail(timers) /\ timers' \in Seq(Terms) /\ source' = source
    BY SMTT(40), <1>1, <1>7 DEF SearchSettled
  <2>2. CASE section # "console" \/ Head(timers) # scope.search
    <3>1. UNCHANGED <<console, sent, section, scope, visible>>
      BY <1>7, <2>2 DEF SearchSettled
    <3>2. section = "console" /\ Settling => Settling'
      <4> SUFFICES ASSUME section = "console", NEW i \in 1 .. Len(timers), timers[i] = scope.search
                   PROVE  Settling'
        BY DEF Settling
      <4>1. i # 1
        BY SMTT(40), <2>1, <2>2, <1>1
      <4>2. i - 1 \in 1 .. Len(timers') /\ timers'[i - 1] = timers[i]
        BY SMTT(40), <4>1, <2>1, <1>1
      <4> QED
        BY <4>2, <3>1 DEF Settling
    <3> QED
      BY <3>1, <3>2, <2>1, <1>1, IdleKeeps
  <2>3. CASE section = "console" /\ Head(timers) = scope.search
    <3>1. Becomes(Ensured(console, scope)) /\ visible' = EntriesOf(console', scope)
          /\ section' = "console" /\ scope' = scope
      BY <1>7, <2>3 DEF SearchSettled
    <3> QED
      BY ZenonT(40), <3>1, <2>1, <1>1, ShowKeeps
  <2> QED
    BY <2>2, <2>3
<1>8. CASE \E t \in Terms : Type(t)
  <2>1. PICK t \in Terms : Type(t)
    BY <1>8
  <2>2. /\ scope' = [scope EXCEPT !.search = t] /\ timers' = Append(timers, t)
        /\ UNCHANGED <<console, sent, source, section, visible>>
    BY <2>1 DEF Type
  <2>3. scope' \in Scopes /\ scope'.search = t
    BY <2>2, <1>1 DEF Scopes
  <2>4. timers' \in Seq(Terms) /\ Len(timers') \in 1 .. Len(timers') /\ timers'[Len(timers')] = t
    BY SMTT(40), <2>2, <1>1
  <2>5. Settling'
    BY <2>3, <2>4 DEF Settling
  <2> QED
    BY ZenonT(40), <2>2, <2>3, <2>4, <2>5, <1>1, IdleKeeps
<1>9. CASE GridScrolled
  BY <1>9, GridScrolledKeeps
<1>10. CASE FeedResumed
  <2>1. [scope EXCEPT !.facets = {}] \in Scopes
    BY <1>1 DEF Scopes
  <2> QED
    BY <2>1, <1>1, <1>10, RetireKeeps DEF FeedResumed
<1>11. CASE ConnectionChanged
  <2>1. [scope EXCEPT !.platform = All, !.facets = {}] \in Scopes
    BY <1>1 DEF Scopes
  <2> QED
    BY <2>1, <1>1, <1>11, RetireKeeps DEF ConnectionChanged
<1>12. CASE Refilter
  <2>1. EntriesOf(console, scope) \in Seq(Entries)
    BY <1>1, EntriesAre
  <2>2. /\ section = "console" /\ visible' = EntriesOf(console, scope)
        /\ UNCHANGED <<console, sent, source, section, scope, timers>>
    BY <1>12 DEF Refilter
  <2>3. Settling' = Settling
    BY <2>2 DEF Settling
  <2>4. ~Settling' => OnScreen(console, scope', visible')
    BY <2>2, <2>3, <1>1 DEF OnScreen
  <2> QED
    BY ZenonT(40), <2>1, <2>2, <2>4, <1>1, IdleKeeps
<1>13. CASE \E r \in sent : PageLoaded(r) \/ PageFailed(r)
  BY <1>13, PageLoadedKeeps, PageFailedKeeps
<1>14. CASE \E ps \in SUBSET Platforms :
               \E o \in Orders(Unqueued(console, ps)) : ConsolesLoaded(ps, o)
  BY <1>14, ConsolesLoadedKeeps
<1>15. CASE UNCHANGED vars
  <2>1. UNCHANGED <<console, sent, source, section, scope, timers, visible>> /\ Settling' = Settling
    BY <1>15 DEF vars, Settling
  <2> QED
    BY <2>1, <1>1, IdleKeeps
<1> QED
  BY ZenonT(40), <1>3, <1>4, <1>5, <1>6, <1>7, <1>8, <1>9, <1>10, <1>11, <1>12, <1>13, <1>14,
     <1>15
     DEF Next

\* The invariant says what the pages, the grid and the cache promise.
LEMMA InvIsExact == ConsoleInv => TypeOK /\ PagesAreExact /\ GridDrawsScope
<1> SUFFICES ASSUME ConsoleInv PROVE TypeOK /\ PagesAreExact /\ GridDrawsScope
  OBVIOUS
<1>1. TypeOK /\ CacheInv(console, sent, source) /\ console \in Caches
  BY DEF ConsoleInv, TypeOK
<1>2. LogsArePure
  <2> SUFFICES ASSUME NEW s \in Scopes, Has(console, s)
               PROVE  /\ \A i \in 1 .. Len(console.logs[s].entries) :
                            /\ console.logs[s].entries[i].scope = s
                            /\ console.logs[s].entries[i].source = source
                            /\ console.logs[s].entries[i].position = i - 1
                            /\ console.logs[s].entries[i].generation
                                   = console.logs[s].entries[1].generation
                      /\ console.logs[s].next \in {0, Len(console.logs[s].entries)}
    BY DEF LogsArePure
  <2>1. PureLog(console.logs[s], s, source) /\ console.logs[s] \in Logs
    BY <1>1, LogIs DEF CacheInv, Pure
  <2>2. console.logs[s].entries \in Seq(Entries)
    BY <2>1 DEF Logs
  <2>3. \A i \in 1 .. Len(console.logs[s].entries) : 1 \in 1 .. Len(console.logs[s].entries)
    BY SMT, <2>2
  <2> QED
    BY <2>1, <2>3 DEF PureLog
<1>3. PendingIsExact
  <2> SUFFICES ASSUME NEW s \in Scopes, Has(console, s)
               PROVE  Cardinality({r \in sent : Accepts(console, r) /\ r.scope = s})
                          = IF console.logs[s].pending THEN 1 ELSE 0
    BY DEF PendingIsExact
  <2> DEFINE R == {r \in sent : Accepts(console, r) /\ r.scope = s}
  <2>1. CASE console.logs[s].pending
    <3>1. PICK r \in sent : Accepts(console, r) /\ r.scope = s
      BY <2>1, <1>1 DEF CacheInv, Waits
    <3>2. R = {r}
      BY <3>1, <1>1, OneAnswer
    <3> QED
      BY <3>2, <2>1, FS_Singleton
  <2>2. CASE ~console.logs[s].pending
    <3>1. R = {}
      BY <2>2, <1>1 DEF CacheInv, Answers
    <3> QED
      BY <3>1, <2>2, FS_EmptySet
  <2> QED
    BY <2>1, <2>2
<1>4. PrefetchMoves
  BY DEF ConsoleInv, Moving, PrefetchMoves
<1>5. GridDrawsScope
  BY DEF ConsoleInv, OnScreen, GridDrawsScope
<1> QED
  BY <1>1, <1>2, <1>3, <1>4, <1>5 DEF PagesAreExact

\* Every variable of the console grid keeps its type.
THEOREM ConsoleIsTyped == Spec => []TypeOK
<1>1. ConsoleInv /\ [Next]_vars => ConsoleInv'
  BY StepKeeps
<1> QED
  BY InitKeeps, <1>1, InvIsExact, PTL DEF Spec

\* Whatever is opened, answered or failed, and in whatever order, a log holds its own
\* scope's pages in order and waits for exactly the one request that is out for it, and
\* the warm-up never stalls.
THEOREM PagesStayExact == Spec => []PagesAreExact
<1>1. ConsoleInv /\ [Next]_vars => ConsoleInv'
  BY StepKeeps
<1> QED
  BY InitKeeps, <1>1, InvIsExact, PTL DEF Spec

\* Once the typing has settled the grid draws the log of the scope on screen, whatever was
\* loaded, evicted or retired behind it.
THEOREM GridStaysDrawn == Spec => []GridDrawsScope
<1>1. ConsoleInv /\ [Next]_vars => ConsoleInv'
  BY StepKeeps
<1> QED
  BY InitKeeps, <1>1, InvIsExact, PTL DEF Spec

\* Opening a scope leaves the searches in the cache within their bound, or only ones
\* still loading above it, and the log on screen goes only with its connection.
THEOREM EvictionStaysExact == Spec => EvictionIsExact
<1> DEFINE T == console'.generation # console.generation =>
                  \/ Narrowed(console') <= MaxNarrowed
                  \/ \A s \in Scopes : Has(console', s) /\ ~IsPlain(s) => console'.logs[s].pending
           K == section = "console" /\ ~Settling /\ Has(console, scope) /\ scope' = scope
                   /\ source' = source => Has(console', scope)
<1>1. ConsoleInv /\ [Next]_vars => ConsoleInv'
  BY StepKeeps
<1>2. ConsoleInv /\ [Next]_vars => [T]_vars /\ [K]_vars
  <2> SUFFICES ASSUME ConsoleInv, [Next]_vars PROVE T /\ K
    OBVIOUS
  <2>1. Keeps /\ Trims
    BY StepKeeps
  <2> QED
    BY <2>1 DEF Keeps, Trims, Trimmed, NarrowedScopes
<1>3. Spec => [][T]_vars /\ [][K]_vars
  <2> HIDE DEF T, K
  <2> QED
    BY InitKeeps, <1>1, <1>2, PTL DEF Spec
<1> QED
  BY <1>3, PTL DEF EvictionIsExact, CacheIsTrimmed, ScreenIsKept
==============================================================================

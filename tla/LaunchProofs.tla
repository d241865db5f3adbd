----------------------------- MODULE LaunchProofs -----------------------------
(***************************************************************************)
(* Theorems about one launch: what the settings of any number of keys and  *)
(* lines come to (Settings), which of several versions is the last         *)
(* (VersionOrder), which runner the settings choose (RunnerChoice) and how *)
(* the launcher ends, whatever the instant of a signal (ExitPath).         *)
(***************************************************************************)
EXTENDS ExitPath, RunnerChoice, FiniteSetTheorems, TLAPS

-----------------------------------------------------------------------------
(* Induction over the natural numbers, with sets instead of predicates.    *)

\* A set of numbers that holds 0 and the successor of each of its members holds all.
LEMMA SetInduction ==
  ASSUME NEW S \in SUBSET Nat, 0 \in S, \A n \in S : n + 1 \in S
  PROVE  S = Nat
  <1> SUFFICES ASSUME Nat \ S # {} PROVE FALSE
    OBVIOUS
  <1>1. PICK x \in Nat \ S : \A y \in Nat \ S : <<y, x>> \notin OpToRel(<, Nat)
    <2>1. Nat \ S \subseteq Nat
      OBVIOUS
    <2> QED BY <2>1, NatLessThanWellFounded, WFMin, Zenon
  <1>2. \A y \in Nat \ S : ~(y < x)
    BY <1>1 DEF OpToRel
  <1>3. x \in Nat /\ x \notin S /\ x # 0
    OBVIOUS
  <1>4. x - 1 \in Nat /\ x - 1 < x /\ (x - 1) + 1 = x
    OBVIOUS
  <1>5. x - 1 \in S
    BY ONLY <1>2, <1>4
  <1>6. (x - 1) + 1 \in S
    BY <1>5
  <1> QED BY <1>4, <1>6

\* A set of numbers from 1 to n has a largest one, which Strongest and Max find.
LEMMA StrongestIn ==
  ASSUME NEW n \in Nat, NEW S \in SUBSET (1..n), S # {}
  PROVE  Strongest(S) \in S /\ \A j \in S : j <= Strongest(S)
  <1> DEFINE Has(m) == \A T \in SUBSET (1..m) : T # {} => \E i \in T : \A j \in T : j <= i
             N == {m \in Nat : Has(m)}
  <1>1. 0 \in N
    <2>1. \A T \in SUBSET (1..0) : T = {}
      OBVIOUS
    <2> QED BY <2>1
  <1>2. ASSUME NEW m \in N PROVE m + 1 \in N
    <2>1. ASSUME NEW T \in SUBSET (1..m + 1), T # {} PROVE \E i \in T : \A j \in T : j <= i
      <3>1. CASE m + 1 \in T
        BY <3>1
      <3>2. CASE m + 1 \notin T
        BY <2>1, <3>2
      <3> QED BY <3>1, <3>2
    <2> QED BY <2>1
  <1>3. N = Nat
    <2> HIDE DEF N
    <2>1. N \in SUBSET Nat
      BY DEF N
    <2> QED BY <1>1, <1>2, <2>1, SetInduction
  <1>4. n \in N
    BY <1>3
  <1>5. \E i \in S : \A j \in S : j <= i
    BY <1>4
  <1> QED BY <1>5 DEF Strongest

\* Max of the community modules is the same number.
LEMMA MaxIs ==
  ASSUME NEW n \in Nat, NEW S \in SUBSET (1..n), S # {}
  PROVE  Max(S) \in S /\ \A j \in S : j <= Max(S)
  <1>1. PICK i \in S : \A j \in S : j <= i
    BY StrongestIn
  <1>2. \A j \in S : i >= j
    BY <1>1
  <1>3. Max(S) \in S /\ \A j \in S : Max(S) >= j
    BY <1>2 DEF Max
  <1> QED BY <1>3

\* g[s] is what M makes of env and of the elements of line at the places in s, from the
\* first to the last: the function FoldLeft is defined by.
Folding(g, M, env, line) ==
  g = [s \in SUBSET DOMAIN line |->
         IF s = {} THEN env ELSE M[<<g[s \ {Max(s)}], line[Max(s)]>>]]

\* There is such a function, for lines of any length.
LEMMA FoldExists ==
  ASSUME NEW E, NEW W, NEW M \in [E \X W -> E], NEW env \in E, NEW line \in Seq(W)
  PROVE  \E g \in [SUBSET DOMAIN line -> E] : Folding(g, M, env, line)
  <1> DEFINE Fits(g, n) ==
               g = [s \in SUBSET (1..n) |->
                      IF s = {} THEN env ELSE M[<<g[s \ {Max(s)}], line[Max(s)]>>]]
             Has(n) == \E g \in [SUBSET (1..n) -> E] : Fits(g, n)
             N == {n \in Nat : n <= Len(line) => Has(n)}
  <1>0. Len(line) \in Nat /\ DOMAIN line = 1..Len(line) /\ \A i \in 1..Len(line) : line[i] \in W
    OBVIOUS
  <1>1. Has(0)
    <2> DEFINE g == [s \in SUBSET (1..0) |-> env]
    <2>1. \A s \in SUBSET (1..0) : s = {}
      OBVIOUS
    <2>2. g \in [SUBSET (1..0) -> E] /\ Fits(g, 0)
      BY <2>1
    <2> QED BY <2>2
  <1>2. ASSUME NEW n \in Nat, n + 1 <= Len(line), Has(n) PROVE Has(n + 1)
    <2>1. PICK g \in [SUBSET (1..n) -> E] : Fits(g, n)
      BY <1>2
    <2> DEFINE h == [s \in SUBSET (1..n + 1) |->
                       IF n + 1 \in s THEN M[<<g[s \ {n + 1}], line[n + 1]>>] ELSE g[s]]
    <2>2. \A s \in SUBSET (1..n + 1) : s \ {n + 1} \in SUBSET (1..n)
      OBVIOUS
    <2>3. line[n + 1] \in W
      BY <1>0, <1>2
    <2>4. h \in [SUBSET (1..n + 1) -> E]
      <3> SUFFICES ASSUME NEW s \in SUBSET (1..n + 1)
                   PROVE  (IF n + 1 \in s THEN M[<<g[s \ {n + 1}], line[n + 1]>>]
                            ELSE g[s]) \in E
        OBVIOUS
      <3>1. n + 1 \notin s => s \in SUBSET (1..n)
        BY <2>2
      <3> QED BY <2>2, <2>3, <3>1
    <2>5. ASSUME NEW s \in SUBSET (1..n + 1)
          PROVE  h[s] = IF s = {} THEN env ELSE M[<<h[s \ {Max(s)}], line[Max(s)]>>]
      <3>1. CASE n + 1 \in s
        <4>1. Max(s) = n + 1
          <5>1. Max(s) \in s /\ \A j \in s : j <= Max(s)
            <6>1. n + 1 \in Nat /\ s # {}
              BY <3>1
            <6> QED BY ONLY <6>1, s \in SUBSET (1..n + 1), MaxIs
          <5>2. Max(s) \in 1..n + 1 /\ n + 1 <= Max(s)
            BY <3>1, <5>1
          <5> QED BY ONLY <5>2
        <4>2. h[s \ {n + 1}] = g[s \ {n + 1}]
          BY <2>2
        <4> QED BY <3>1, <4>1, <4>2
      <3>2. CASE n + 1 \notin s
        <4>1. s \in SUBSET (1..n) /\ \A x : s \ {x} \in SUBSET (1..n) /\ n + 1 \notin s \ {x}
          BY <2>2, <3>2
        <4>2. h[s] = g[s] /\ \A x : h[s \ {x}] = g[s \ {x}]
          BY <3>2, <4>1
        <4> QED BY <2>1, <4>1, <4>2
      <3> QED BY <3>1, <3>2
    <2>6. Fits(h, n + 1)
      <3> HIDE DEF h
      <3>1. h = [s \in SUBSET (1..n + 1) |-> h[s]]
        BY <2>4
      <3> QED BY <2>5, <3>1
    <2> QED BY <2>4, <2>6
  <1>3. Has(Len(line))
    <2> HIDE DEF Has
    <2>1. N \in SUBSET Nat /\ 0 \in N
      BY <1>1
    <2>2. \A n \in N : n + 1 \in N
      BY <1>0, <1>2
    <2>3. N = Nat
      BY <2>1, <2>2, SetInduction
    <2>4. \A n \in Nat : n <= Len(line) => Has(n)
      BY <2>3
    <2> QED BY <1>0, <2>4
  <1> QED BY <1>0, <1>3 DEF Folding

-----------------------------------------------------------------------------
(* ENV=: mergeEnvLayer and applyWineEnv over words of any number.          *)

\* A word of an ENV= line, and the values its variables have.
EnvWord == [op : Words, var : EnvVar, val : STRING]
Values == STRING \cup {Blank}
Env == [EnvVar -> Values]

\* MergeWord leaves a value of each variable.
LEMMA MergeTyped == \A e \in Env, w \in EnvWord : MergeWord(e, w) \in Env
  <1>2. \A e \in Env, v \in EnvVar, x \in Values : [e EXCEPT ![v] = x] \in Env
    BY DEF Env
  <1> QED BY <1>2 DEF MergeWord, EnvWord, Values

\* FoldLeft merges the words of a line one after the other.
LEMMA MergeFold ==
  ASSUME NEW env \in Env, NEW line \in Seq(EnvWord)
  PROVE  \E F :
           /\ F[0] = env /\ F[Len(line)] = FoldLeft(MergeWord, env, line)
           /\ \A n \in 1..Len(line) : F[n] = MergeWord(F[n - 1], line[n])
  <1> DEFINE M == [p \in Env \X EnvWord |-> MergeWord(p[1], p[2])]
             Is(g) == g = [s \in SUBSET DOMAIN line |->
                             IF s = {} THEN env ELSE MergeWord(g[s \ {Max(s)}], line[Max(s)])]
             iter == CHOOSE g : Is(g)
             F == [n \in 0..Len(line) |-> iter[1..n]]
  <1>0. Len(line) \in Nat /\ DOMAIN line = 1..Len(line)
        /\ \A i \in 1..Len(line) : line[i] \in EnvWord
    OBVIOUS
  <1>1. FoldLeft(MergeWord, env, line) = iter[DOMAIN line]
    BY DEF FoldLeft, MapThenFoldSet
  <1>2. M \in [Env \X EnvWord -> Env]
    BY MergeTyped
  <1>3. PICK g \in [SUBSET DOMAIN line -> Env] : Folding(g, M, env, line)
    <2> HIDE DEF M
    <2> QED BY <1>2, FoldExists
  <1>4. \A s \in SUBSET DOMAIN line : s # {} => Max(s) \in s
    BY <1>0, MaxIs
  <1>5. Is(g)
    <2>1. \A e \in Env, w \in EnvWord : M[<<e, w>>] = MergeWord(e, w)
      OBVIOUS
    <2>2. \A s \in SUBSET DOMAIN line : s # {} =>
            M[<<g[s \ {Max(s)}], line[Max(s)]>>] = MergeWord(g[s \ {Max(s)}], line[Max(s)])
      BY <1>0, <1>4, <2>1
    <2> HIDE DEF M
    <2> QED BY <1>3, <2>2 DEF Folding
  <1>6. Is(iter)
    BY <1>5
  <1>7. ASSUME NEW n \in 1..Len(line) PROVE F[n] = MergeWord(F[n - 1], line[n])
    <2>1. Max(1..n) = n
      <3>1. Max(1..n) \in 1..n /\ \A j \in 1..n : j <= Max(1..n)
        <4>1. n \in Nat /\ 1..n \in SUBSET (1..n) /\ 1..n # {}
          BY <1>0
        <4> QED BY ONLY <4>1, MaxIs
      <3> QED BY ONLY <3>1, n \in 1..Len(line), <1>0
    <2>2. 1..n \in SUBSET DOMAIN line /\ 1..n # {}
      BY <1>0
    <2>4. (1..n) \ {n} = 1..n - 1
      <3>1. n \in Nat
        BY <1>0
      <3>2. \A i \in 1..n : i # n => i \in 1..n - 1
        OBVIOUS
      <3>3. 1..n - 1 \subseteq 1..n /\ n \notin 1..n - 1
        OBVIOUS
      <3> QED BY <3>3
    <2>3. iter[1..n] = MergeWord(iter[1..n - 1], line[n])
      BY <1>6, <2>1, <2>2, <2>4
    <2> QED BY <2>3
  <1>8. F[0] = env
    <2>1. 1..0 = {} /\ 1..0 \in SUBSET DOMAIN line
      OBVIOUS
    <2>2. \A s \in SUBSET DOMAIN line : s = {} => iter[s] = env
      BY <1>6
    <2>3. 0 \in 0..Len(line)
      BY <1>0
    <2> QED BY <2>1, <2>2, <2>3
  <1>9. F[Len(line)] = FoldLeft(MergeWord, env, line)
    BY <1>0, <1>1
  <1> HIDE DEF F
  <1> QED BY <1>7, <1>8, <1>9

\* The same of ApplyWord.
LEMMA ApplyTyped == \A e \in Env, w \in EnvWord : ApplyWord(e, w) \in Env
  <1>2. \A e \in Env, v \in EnvVar, x \in Values : [e EXCEPT ![v] = x] \in Env
    BY DEF Env
  <1> QED BY <1>2 DEF ApplyWord, EnvWord, Values

\* The same of a line applied as it was written.
LEMMA ApplyFold ==
  ASSUME NEW env \in Env, NEW line \in Seq(EnvWord)
  PROVE  \E F :
           /\ F[0] = env /\ F[Len(line)] = FoldLeft(ApplyWord, env, line)
           /\ \A n \in 1..Len(line) : F[n] = ApplyWord(F[n - 1], line[n])
  <1> DEFINE M == [p \in Env \X EnvWord |-> ApplyWord(p[1], p[2])]
             Is(g) == g = [s \in SUBSET DOMAIN line |->
                             IF s = {} THEN env ELSE ApplyWord(g[s \ {Max(s)}], line[Max(s)])]
             iter == CHOOSE g : Is(g)
             F == [n \in 0..Len(line) |-> iter[1..n]]
  <1>0. Len(line) \in Nat /\ DOMAIN line = 1..Len(line)
        /\ \A i \in 1..Len(line) : line[i] \in EnvWord
    OBVIOUS
  <1>1. FoldLeft(ApplyWord, env, line) = iter[DOMAIN line]
    BY DEF FoldLeft, MapThenFoldSet
  <1>2. M \in [Env \X EnvWord -> Env]
    BY ApplyTyped
  <1>3. PICK g \in [SUBSET DOMAIN line -> Env] : Folding(g, M, env, line)
    <2> HIDE DEF M
    <2> QED BY <1>2, FoldExists
  <1>4. \A s \in SUBSET DOMAIN line : s # {} => Max(s) \in s
    BY <1>0, MaxIs
  <1>5. Is(g)
    <2>1. \A e \in Env, w \in EnvWord : M[<<e, w>>] = ApplyWord(e, w)
      OBVIOUS
    <2>2. \A s \in SUBSET DOMAIN line : s # {} =>
            M[<<g[s \ {Max(s)}], line[Max(s)]>>] = ApplyWord(g[s \ {Max(s)}], line[Max(s)])
      BY <1>0, <1>4, <2>1
    <2> HIDE DEF M
    <2> QED BY <1>3, <2>2 DEF Folding
  <1>6. Is(iter)
    BY <1>5
  <1>7. ASSUME NEW n \in 1..Len(line) PROVE F[n] = ApplyWord(F[n - 1], line[n])
    <2>1. Max(1..n) = n
      <3>1. Max(1..n) \in 1..n /\ \A j \in 1..n : j <= Max(1..n)
        <4>1. n \in Nat /\ 1..n \in SUBSET (1..n) /\ 1..n # {}
          BY <1>0
        <4> QED BY ONLY <4>1, MaxIs
      <3> QED BY ONLY <3>1, n \in 1..Len(line), <1>0
    <2>2. 1..n \in SUBSET DOMAIN line /\ 1..n # {}
      BY <1>0
    <2>4. (1..n) \ {n} = 1..n - 1
      <3>1. n \in Nat
        BY <1>0
      <3>2. \A i \in 1..n : i # n => i \in 1..n - 1
        OBVIOUS
      <3>3. 1..n - 1 \subseteq 1..n /\ n \notin 1..n - 1
        OBVIOUS
      <3> QED BY <3>3
    <2>3. iter[1..n] = ApplyWord(iter[1..n - 1], line[n])
      BY <1>6, <2>1, <2>2, <2>4
    <2> QED BY <2>3
  <1>8. F[0] = env
    <2>1. 1..0 = {} /\ 1..0 \in SUBSET DOMAIN line
      OBVIOUS
    <2>2. \A s \in SUBSET DOMAIN line : s = {} => iter[s] = env
      BY <1>6
    <2>3. 0 \in 0..Len(line)
      BY <1>0
    <2> QED BY <2>1, <2>2, <2>3
  <1>9. F[Len(line)] = FoldLeft(ApplyWord, env, line)
    BY <1>0, <1>1
  <1> HIDE DEF F
  <1> QED BY <1>7, <1>8, <1>9

\* The words of a line that set v, and what a word makes of its variable.
Sets(w, v) == w.var = v /\ w.op = "set"
Setting(line, v) == {j \in DOMAIN line : Sets(line[j], v)}
WordValue(w) == IF w.op = "set" THEN w.val ELSE Blank

\* A merged line: the last word about a variable decides.
LEMMA MergedLine ==
  ASSUME NEW env \in Env, NEW line \in Seq(EnvWord)
  PROVE  LET env2 == FoldLeft(MergeWord, env, line)
         IN  /\ env2 \in Env
             /\ \A v \in EnvVar : env2[v] = IF Naming(line, v) = {} THEN env[v]
                                             ELSE WordValue(line[Strongest(Naming(line, v))])
  <1>0. Len(line) \in Nat /\ DOMAIN line = 1..Len(line)
        /\ \A i \in 1..Len(line) : line[i] \in EnvWord
    OBVIOUS
  <1>1. PICK F : /\ F[0] = env /\ F[Len(line)] = FoldLeft(MergeWord, env, line)
                 /\ \A n \in 1..Len(line) : F[n] = MergeWord(F[n - 1], line[n])
    BY MergeFold
  <1> DEFINE Read(n, v) ==
               /\ (\A j \in 1..n : line[j].var # v) => F[n][v] = env[v]
               /\ \A j \in 1..n : line[j].var = v /\ (\A l \in 1..n : l > j => line[l].var # v)
                                    => F[n][v] = WordValue(line[j])
             Has(n) == F[n] \in Env /\ \A v \in EnvVar : Read(n, v)
             N == {n \in Nat : n <= Len(line) => Has(n)}
  <1>2. Has(0)
    BY <1>1
  <1>3. ASSUME NEW n \in Nat, n + 1 <= Len(line), Has(n) PROVE Has(n + 1)
    <2>1. F[n + 1] = MergeWord(F[n], line[n + 1]) /\ line[n + 1] \in EnvWord
      <3>1. n + 1 \in 1..Len(line) /\ (n + 1) - 1 = n
        BY <1>0, <1>3
      <3> QED BY <1>0, <1>1, <3>1
    <2>2. F[n + 1] \in Env
      BY <1>3, <2>1, MergeTyped
    <2>3. ASSUME NEW v \in EnvVar PROVE Read(n + 1, v)
      <3>1. F[n + 1][v] = IF line[n + 1].var = v THEN WordValue(line[n + 1]) ELSE F[n][v]
        BY <1>3, <2>1 DEF MergeWord, WordValue, Env
      <3>2. \A j \in 1..n + 1 : j \in 1..n \/ j = n + 1
        OBVIOUS
      <3>3. 1..n \subseteq 1..n + 1 /\ n + 1 \in 1..n + 1 /\ \A j \in 1..n : n + 1 > j
        OBVIOUS
      <3>4. (\A j \in 1..n + 1 : line[j].var # v) => F[n + 1][v] = env[v]
        BY <1>3, <3>1, <3>3
      <3>5. ASSUME NEW j \in 1..n + 1, line[j].var = v,
                   \A l \in 1..n + 1 : l > j => line[l].var # v
            PROVE  F[n + 1][v] = WordValue(line[j])
        BY <1>3, <3>1, <3>2, <3>3, <3>5
      <3> QED BY <3>4, <3>5
    <2> QED BY <2>2, <2>3
  <1>4. Has(Len(line))
    <2> HIDE DEF Has
    <2>1. N \in SUBSET Nat /\ 0 \in N
      BY <1>2
    <2>2. \A n \in N : n + 1 \in N
      BY <1>0, <1>3
    <2>3. N = Nat
      BY <2>1, <2>2, SetInduction
    <2>4. \A n \in Nat : n <= Len(line) => Has(n)
      BY <2>3
    <2> QED BY <1>0, <2>4
  <1>5. ASSUME NEW v \in EnvVar, Naming(line, v) = {} PROVE F[Len(line)][v] = env[v]
    BY <1>0, <1>4, <1>5 DEF Naming
  <1>6. ASSUME NEW v \in EnvVar, Naming(line, v) # {}
        PROVE  F[Len(line)][v] = WordValue(line[Strongest(Naming(line, v))])
    <2>0. PICK j : j = Strongest(Naming(line, v))
      OBVIOUS
    <2>1. j \in Naming(line, v) /\ \A l \in Naming(line, v) : l <= j
      BY <1>0, <1>6, <2>0, StrongestIn DEF Naming
    <2>2. j \in 1..Len(line) /\ line[j].var = v
      BY <1>0, <2>1 DEF Naming
    <2>3. ASSUME NEW l \in 1..Len(line), l > j, line[l].var = v PROVE FALSE
      <3>1. l <= j
        BY <1>0, <2>1, <2>3 DEF Naming
      <3> QED BY ONLY <2>2, <2>3, <3>1, <1>0
    <2> QED BY <1>4, <2>0, <2>2, <2>3
  <1> QED BY <1>1, <1>4, <1>5, <1>6

\* A line as it was written: the last word that sets a variable decides.
LEMMA AppliedLine ==
  ASSUME NEW env \in Env, NEW line \in Seq(EnvWord)
  PROVE  LET env2 == FoldLeft(ApplyWord, env, line)
         IN  /\ env2 \in Env
             /\ \A v \in EnvVar : env2[v] = IF Setting(line, v) = {} THEN env[v]
                                             ELSE line[Strongest(Setting(line, v))].val
  <1>0. Len(line) \in Nat /\ DOMAIN line = 1..Len(line)
        /\ \A i \in 1..Len(line) : line[i] \in EnvWord
    OBVIOUS
  <1>1. PICK F : /\ F[0] = env /\ F[Len(line)] = FoldLeft(ApplyWord, env, line)
                 /\ \A n \in 1..Len(line) : F[n] = ApplyWord(F[n - 1], line[n])
    BY ApplyFold
  <1> DEFINE Read(n, v) ==
               /\ (\A j \in 1..n : ~Sets(line[j], v)) => F[n][v] = env[v]
               /\ \A j \in 1..n : Sets(line[j], v)
                  /\ (\A l \in 1..n : l > j => ~Sets(line[l], v))
                                    => F[n][v] = line[j].val
             Has(n) == F[n] \in Env /\ \A v \in EnvVar : Read(n, v)
             N == {n \in Nat : n <= Len(line) => Has(n)}
  <1>2. Has(0)
    BY <1>1
  <1>3. ASSUME NEW n \in Nat, n + 1 <= Len(line), Has(n) PROVE Has(n + 1)
    <2>1. F[n + 1] = ApplyWord(F[n], line[n + 1]) /\ line[n + 1] \in EnvWord
      <3>1. n + 1 \in 1..Len(line) /\ (n + 1) - 1 = n
        BY <1>0, <1>3
      <3> QED BY <1>0, <1>1, <3>1
    <2>2. F[n + 1] \in Env
      BY <1>3, <2>1, ApplyTyped
    <2>3. ASSUME NEW v \in EnvVar PROVE Read(n + 1, v)
      <3>1. F[n + 1][v] = IF Sets(line[n + 1], v) THEN line[n + 1].val ELSE F[n][v]
        BY <1>3, <2>1 DEF ApplyWord, Env, Sets
      <3>2. \A j \in 1..n + 1 : j \in 1..n \/ j = n + 1
        OBVIOUS
      <3>3. 1..n \subseteq 1..n + 1 /\ n + 1 \in 1..n + 1 /\ \A j \in 1..n : n + 1 > j
        OBVIOUS
      <3>4. (\A j \in 1..n + 1 : ~Sets(line[j], v)) => F[n + 1][v] = env[v]
        BY <1>3, <3>1, <3>3
      <3>5. ASSUME NEW j \in 1..n + 1, Sets(line[j], v),
                   \A l \in 1..n + 1 : l > j => ~Sets(line[l], v)
            PROVE  F[n + 1][v] = line[j].val
        BY <1>3, <3>1, <3>2, <3>3, <3>5
      <3> QED BY <3>4, <3>5
    <2> QED BY <2>2, <2>3
  <1>4. Has(Len(line))
    <2> HIDE DEF Has
    <2>1. N \in SUBSET Nat /\ 0 \in N
      BY <1>2
    <2>2. \A n \in N : n + 1 \in N
      BY <1>0, <1>3
    <2>3. N = Nat
      BY <2>1, <2>2, SetInduction
    <2>4. \A n \in Nat : n <= Len(line) => Has(n)
      BY <2>3
    <2> QED BY <1>0, <2>4
  <1>5. ASSUME NEW v \in EnvVar, Setting(line, v) = {} PROVE F[Len(line)][v] = env[v]
    BY <1>0, <1>4, <1>5 DEF Setting
  <1>6. ASSUME NEW v \in EnvVar, Setting(line, v) # {}
        PROVE  F[Len(line)][v] = line[Strongest(Setting(line, v))].val
    <2>0. PICK j : j = Strongest(Setting(line, v))
      OBVIOUS
    <2>1. j \in Setting(line, v) /\ \A l \in Setting(line, v) : l <= j
      BY <1>0, <1>6, <2>0, StrongestIn DEF Setting
    <2>2. j \in 1..Len(line) /\ Sets(line[j], v)
      BY <1>0, <2>1 DEF Setting
    <2>3. ASSUME NEW l \in 1..Len(line), l > j, Sets(line[l], v) PROVE FALSE
      <3>1. l <= j
        BY <1>0, <2>1, <2>3 DEF Setting
      <3> QED BY ONLY <2>2, <2>3, <3>1, <1>0
    <2> QED BY <1>4, <2>0, <2>2, <2>3
  <1> QED BY <1>1, <1>4, <1>5, <1>6

-----------------------------------------------------------------------------
(* The layers: each key and each ENV= variable is what the layers read so far say. *)

\* Layer 1 is the machine's; the others are files, each with a name of its own.
LEMMA LayerNames ==
  /\ Len(Layers) = 5
  /\ Layers[1] = "machine"
  /\ \A i \in 2..5 : Layers[i] \in Files /\ Layers[i] \notin {"machine", "none"}
  /\ \A i \in 1..5 : Layers[i] \in Files \cup {"machine"}
  BY DEF Layers, Files

\* The first line of k in layer i; whether k has no line in the layers above i.
FirstLine(i, k) == IF LinesOf(i, k) = <<>> THEN Blank ELSE LinesOf(i, k)[1]

Unnamed(i, k) == \A j \in 1..5 : i < j /\ j <= read => LinesOf(j, k) = <<>>

\* What has been kept of k is the first line of the strongest layer that has one.
KeyFits(k) ==
    /\ read = 0 => machineVal[k] = Blank
    /\ read # 0 => machineVal[k] = FirstLine(1, k)
    /\ layerSrc[k] = "none" => Unnamed(1, k)
    /\ layerSrc[k] # "none" =>
         \E i \in 2..5 : /\ i <= read /\ LinesOf(i, k) # <<>> /\ Unnamed(i, k)
                         /\ layerSrc[k] = Layers[i] /\ layerVal[k] = FirstLine(i, k)

LayersInv ==
    /\ launch \in Launches /\ read \in 0..Len(Layers)
    /\ machineVal = [k \in Key |-> machineVal[k]]
    /\ layerVal = [k \in Key |-> layerVal[k]] /\ layerSrc = [k \in Key |-> layerSrc[k]]
    /\ \A k \in Key : KeyFits(k)

\* Before the first layer no key has a value.
LEMMA InitLayers == SettingsInit => LayersInv
  <1> SUFFICES ASSUME SettingsInit PROVE LayersInv
    OBVIOUS
  <1>1. \A k \in Key : KeyFits(k)
    <2> TAKE k \in Key
    <2>1. machineVal[k] = Blank /\ layerSrc[k] = "none"
      BY DEF SettingsInit
    <2>0. read = 0
      BY DEF SettingsInit
    <2>2. Unnamed(1, k)
      BY <2>0 DEF Unnamed
    <2> QED BY <2>0, <2>1, <2>2 DEF KeyFits
  <1>2. Len(Layers) = 5
    BY DEF Layers
  <1>3. launch \in Launches /\ read = 0
    BY DEF SettingsInit
  <1>4. machineVal = [k \in Key |-> machineVal[k]]
        /\ layerVal = [k \in Key |-> layerVal[k]] /\ layerSrc = [k \in Key |-> layerSrc[k]]
    BY DEF SettingsInit
  <1> QED BY <1>1, <1>2, <1>3, <1>4 DEF LayersInv

\* Reading a layer, each key takes its line, if there is one (readLayer).
LEMMA ReadLayerStep == LayersInv /\ ReadLayer => LayersInv'
  <1> SUFFICES ASSUME LayersInv, ReadLayer PROVE LayersInv'
    OBVIOUS
  <1> DEFINE lines(k) == LinesOf(read + 1, k)
  <1>1. /\ launch' = launch /\ read' = read + 1 /\ read \in 0..4
    BY LayerNames DEF ReadLayer, LayersInv
  <1>2. \A k \in Key : \A i \in 1..5 :
          LinesOf(i, k) \in Seq(STRING) /\ LinesOf(i, k)' = LinesOf(i, k)
    BY <1>1, SettingsAssumption, LayerNames DEF LinesOf, LayersInv
  <1>3. /\ read = 0 =>
             /\ machineVal' = [k \in Key |-> IF lines(k) = <<>> THEN machineVal[k]
                               ELSE Head(lines(k))]
             /\ UNCHANGED <<layerVal, layerSrc>>
        /\ read # 0 =>
             /\ layerVal' = [k \in Key |-> IF lines(k) = <<>> THEN layerVal[k]
                             ELSE Head(lines(k))]
             /\ layerSrc' = [k \in Key |-> IF lines(k) = <<>> THEN layerSrc[k]
                             ELSE Layers[read + 1]]
             /\ UNCHANGED machineVal
    <2>1. read = 0 <=> Layers[read + 1] = "machine"
      BY <1>1, LayerNames
    <2> QED BY <2>1 DEF ReadLayer, LinesOf, LineOf
  <1>4. ASSUME NEW k \in Key PROVE KeyFits(k)'
    <2>1. KeyFits(k)
      BY DEF LayersInv
    <2>2. \A i \in 1..5 : LinesOf(i, k)' = LinesOf(i, k)
      BY <1>2
    <2>3. \A i \in 1..5 : LinesOf(i, k) # <<>> => Head(LinesOf(i, k)) = FirstLine(i, k)
      BY <1>2 DEF FirstLine
    <2>4. \A i \in 1..5 : FirstLine(i, k)' = FirstLine(i, k)
      BY <2>2 DEF FirstLine
    <2>5. \A i \in 1..5 :
            FirstLine(i, k) = IF LinesOf(i, k) = <<>> THEN Blank ELSE Head(LinesOf(i, k))
      BY <2>3 DEF FirstLine
    <2>6. CASE read = 0
      <3>1. layerSrc[k] = "none" /\ machineVal[k] = Blank
        BY <2>1, <2>6 DEF KeyFits
      <3>2. machineVal'[k] = FirstLine(1, k) /\ layerSrc'[k] = "none"
        BY <1>3, <2>5, <2>6, <3>1
      <3>3. Unnamed(1, k)'
        BY <1>1, <2>6 DEF Unnamed
      <3> QED BY <1>1, <2>4, <2>6, <3>2, <3>3 DEF KeyFits
    <2>7. CASE read # 0 /\ lines(k) = <<>>
      <3>1. machineVal'[k] = machineVal[k] /\ layerSrc'[k] = layerSrc[k]
            /\ layerVal'[k] = layerVal[k]
        BY <1>3, <2>7
      <3>2. \A i \in 1..5 : Unnamed(i, k) => Unnamed(i, k)'
        BY <1>1, <2>2, <2>7 DEF Unnamed
      <3> QED BY <1>1, <2>1, <2>2, <2>4, <2>7, <3>1, <3>2 DEF KeyFits
    <2>8. CASE read # 0 /\ lines(k) # <<>>
      <3>0. PICK n \in 2..5 : n = read + 1
        BY <1>1, <2>8
      <3>1. machineVal'[k] = machineVal[k] /\ layerSrc'[k] = Layers[n]
            /\ layerVal'[k] = FirstLine(n, k)
        BY <1>3, <2>5, <2>8, <3>0
      <3>2. Unnamed(n, k)'
        BY <1>1, <3>0 DEF Unnamed
      <3>3. machineVal'[k] = FirstLine(1, k)'
        BY <2>1, <2>4, <2>8, <3>1 DEF KeyFits
      <3>4. n <= read' /\ read' # 0 /\ LinesOf(n, k)' # <<>> /\ layerVal'[k] = FirstLine(n, k)'
        BY <1>1, <2>2, <2>4, <2>8, <3>0, <3>1
      <3>5. layerSrc'[k] = Layers'[n] /\ layerSrc'[k] # "none"
        BY <3>1, LayerNames
      <3> QED BY <3>2, <3>3, <3>4, <3>5 DEF KeyFits
    <2> QED BY <2>6, <2>7, <2>8
  <1>5. launch' \in Launches /\ read' \in 0..Len(Layers)
    BY <1>1, LayerNames DEF LayersInv
  <1>6. /\ machineVal' = [k \in Key |-> machineVal'[k]]
        /\ layerVal' = [k \in Key |-> layerVal'[k]] /\ layerSrc' = [k \in Key |-> layerSrc'[k]]
    BY <1>3 DEF LayersInv
  <1> QED BY <1>4, <1>5, <1>6 DEF LayersInv

\* The largest number of a set is the one Strongest names.
LEMMA StrongestIs ==
  ASSUME NEW S \in SUBSET Nat, NEW i \in S, \A j \in S : j <= i
  PROVE Strongest(S) = i
  <1>1. Strongest(S) \in S /\ \A j \in S : j <= Strongest(S)
    BY DEF Strongest
  <1>2. i <= Strongest(S) /\ Strongest(S) <= i /\ i \in Nat /\ Strongest(S) \in Nat
    BY <1>1
  <1> QED BY ONLY <1>2

\* Layers 1 to 3 of a key: default, line of the machine's file, environment variable.
MachineLayers(d, m, v) ==
  {s \in {[rank |-> 1, val |-> d, src |-> "default"],
          [rank |-> 2, src |-> "machine", val |-> m],
          [rank |-> 3, val |-> v, src |-> "variable"]} : s.val # Blank \/ s.rank = 1}
Best(S) == CHOOSE s \in S : \A t \in S : t.rank <= s.rank

\* The strongest of them that is not empty, else the default.
LEMMA BestIs ==
  ASSUME NEW d, NEW m, NEW v
  PROVE LET b == Best(MachineLayers(d, m, v))
        IN  [val |-> b.val, src |-> b.src] =
              IF v # Blank THEN [val |-> v, src |-> "variable"]
              ELSE IF m # Blank THEN [val |-> m, src |-> "machine"]
              ELSE [val |-> d, src |-> "default"]
  <1> DEFINE s1 == [rank |-> 1, val |-> d, src |-> "default"]
             s2 == [rank |-> 2, src |-> "machine", val |-> m]
             s3 == [rank |-> 3, val |-> v, src |-> "variable"]
             S == MachineLayers(d, m, v)
             b == Best(S)
  <1>1. s1.rank = 1 /\ s2.rank = 2 /\ s3.rank = 3 /\ s1.val = d /\ s2.val = m /\ s3.val = v
    OBVIOUS
  <1>2. s1.src = "default" /\ s2.src = "machine" /\ s3.src = "variable"
    OBVIOUS
  <1>3. ASSUME NEW x \in S, \A t \in S : t.rank <= x.rank PROVE b = x
    <2>1. b \in S /\ \A t \in S : t.rank <= b.rank
      BY <1>3 DEF Best
    <2>2. \A t, u \in {s1, s2, s3} : t.rank <= u.rank /\ u.rank <= t.rank => t = u
      BY <1>1
    <2> QED BY <1>3, <2>1, <2>2 DEF MachineLayers
  <1>4. CASE v # Blank
    <2>1. s3 \in S /\ \A t \in S : t.rank <= s3.rank
      BY <1>1, <1>4 DEF MachineLayers
    <2> QED BY <1>1, <1>2, <1>3, <1>4, <2>1
  <1>5. CASE v = Blank /\ m # Blank
    <2>1. s2 \in S /\ \A t \in S : t.rank <= s2.rank
      BY <1>1, <1>5 DEF MachineLayers
    <2> QED BY <1>1, <1>2, <1>3, <1>5, <2>1
  <1>6. CASE v = Blank /\ m = Blank
    <2>1. s1 \in S /\ \A t \in S : t.rank <= s1.rank
      BY <1>1, <1>6 DEF MachineLayers
    <2> QED BY <1>1, <1>2, <1>3, <1>6, <2>1
  <1> QED BY <1>4, <1>5, <1>6

\* Once all layers are read, layerLookup finds what README.md promises.
LEMMA LayersStrongest == LayersInv => StrongestWins
  <1> SUFFICES ASSUME LayersInv, AllRead, NEW k \in Key PROVE LayerLookup(k) = Promised(k)
    BY DEF StrongestWins
  <1> DEFINE named == {i \in 2..Len(Layers) : LinesOf(i, k) # <<>>}
             base == Best(MachineLayers(Default[k], FirstLine(1, k), VariableOf(k)))
  <1>1. read = 5 /\ Len(Layers) = 5
    BY LayerNames DEF AllRead
  <1>2. KeyFits(k)
    BY DEF LayersInv
  <1>3. FromMachine(k) = [val |-> base.val, src |-> base.src]
    <2>1. FirstLine(1, k) = machineVal[k]
      BY <1>1, <1>2 DEF KeyFits
    <2> QED BY <2>1, BestIs DEF FromMachine
  <1>4. Promised(k) =
          IF named = {} \/ LinesOf(Strongest(named), k)[1] = Blank
             \/ (k = "HIDRAW" /\ VariableOf(k) # Blank)
          THEN FromMachine(k)
          ELSE [val |-> LinesOf(Strongest(named), k)[1], src |-> Layers[Strongest(named)]]
    BY <1>3 DEF Promised, Best, MachineLayers, FirstLine
  <1>5. CASE layerSrc[k] = "none"
    <2>1. named = {}
      BY <1>1, <1>2, <1>5 DEF KeyFits, Unnamed
    <2> QED BY <1>4, <1>5, <2>1 DEF LayerLookup
  <1>6. CASE layerSrc[k] # "none"
    <2>1. PICK i \in 2..5 : /\ i <= read /\ LinesOf(i, k) # <<>> /\ Unnamed(i, k)
                            /\ layerSrc[k] = Layers[i] /\ layerVal[k] = FirstLine(i, k)
      BY <1>2, <1>6 DEF KeyFits
    <2>2. i \in named /\ named \in SUBSET Nat /\ \A j \in named : j <= i
      BY <1>1, <2>1 DEF Unnamed
    <2>3. Strongest(named) = i /\ named # {}
      BY <2>2, StrongestIs
    <2>4. LinesOf(i, k)[1] = layerVal[k]
      BY <2>1 DEF FirstLine
    <2> QED BY <1>4, <1>6, <2>1, <2>3, <2>4 DEF LayerLookup
  <1> QED BY <1>5, <1>6

\* The ENV= lines of layer i, whether they decide v, and what a line makes of v.
EnvOf(i) == launch.layers[Layers[i]].env
Decides(i, v) == EnvOf(i) # <<>> /\ (EnvLine(i) = <<>> \/ Naming(EnvLine(i), v) # {})
LineValue(line, v) == IF line = <<>> THEN Blank ELSE WordValue(line[Strongest(Naming(line, v))])

\* What has been merged into v is what the strongest layer that decides it says.
EnvFits(v) ==
  /\ (\A i \in 1..5 : i <= read => ~Decides(i, v)) => envVal[v] = Blank
  /\ \A i \in 1..5 :
       i <= read /\ Decides(i, v) /\ (\A j \in 1..5 : i < j /\ j <= read => ~Decides(j, v))
       => envVal[v] = LineValue(EnvLine(i), v)

\* envRaw is the only ENV= line while there is one layer with an ENV=.
EnvInv ==
  /\ launch \in Launches /\ read \in 0..5
  /\ envVal \in Env /\ \A v \in EnvVar : EnvFits(v)
  /\ envLayers \in Nat
  /\ envLayers = 0 => envRaw = <<>> /\ \A i \in 1..5 : i <= read => EnvOf(i) = <<>>
  /\ envLayers = 1 => \E i \in 1..5 : /\ i <= read /\ EnvOf(i) # <<>> /\ envRaw = EnvLine(i)
                                      /\ \A j \in 1..5 : j <= read /\ j # i => EnvOf(j) = <<>>

\* ENV= lines are sequences of words.
LEMMA EnvTyped ==
  EnvInv => \A i \in 1..5 :
              /\ EnvOf(i) \in Seq(Seq(EnvWord))
              /\ EnvOf(i) # <<>> => EnvLine(i) \in Seq(EnvWord) /\ EnvLine(i) = Head(EnvOf(i))
  <1> SUFFICES ASSUME EnvInv, NEW i \in 1..5
               PROVE  /\ EnvOf(i) \in Seq(Seq(EnvWord))
                      /\ EnvOf(i) # <<>> =>
                           EnvLine(i) \in Seq(EnvWord) /\ EnvLine(i) = Head(EnvOf(i))
    OBVIOUS
  <1>1. EnvOf(i) \in Seq(Seq(EnvWord))
    BY SettingsAssumption, LayerNames DEF EnvInv, EnvOf, EnvWord
  <1>2. EnvLine(i) = EnvOf(i)[1]
    BY DEF EnvLine, EnvOf
  <1> QED BY <1>1, <1>2

\* Before the first layer no variable has a value.
LEMMA InitEnv == SettingsInit => EnvInv
  <1> SUFFICES ASSUME SettingsInit PROVE EnvInv
    OBVIOUS
  <1>1. NoVariable \in Env
    BY DEF NoVariable, Env, Values
  <1>2. \A v \in EnvVar : EnvFits(v)
    BY DEF SettingsInit, EnvFits, NoVariable
  <1> QED BY <1>1, <1>2 DEF SettingsInit, EnvInv

\* Reading a layer, its first ENV= line is merged, an empty one drops all (mergeEnvLayer).
LEMMA ReadEnvStep == EnvInv /\ ReadLayer => EnvInv'
  <1> SUFFICES ASSUME EnvInv, ReadLayer PROVE EnvInv'
    OBVIOUS
  <1>0. PICK n \in 1..5 : n = read + 1
    BY LayerNames DEF ReadLayer, EnvInv
  <1>1. launch' = launch /\ read' = n /\ read = n - 1 /\ ReadEnv(EnvOf(n))
    BY <1>0 DEF ReadLayer, EnvOf, EnvInv
  <1>2. \A i \in 1..5 : EnvOf(i)' = EnvOf(i) /\ EnvLine(i)' = EnvLine(i)
    BY <1>1 DEF EnvOf, EnvLine
  <1>3. \A i \in 1..5 : \A v \in EnvVar : Decides(i, v)' <=> Decides(i, v)
    BY <1>2 DEF Decides
  <1>4. CASE EnvOf(n) = <<>>
    <2>1. UNCHANGED <<envVal, envLayers, envRaw>>
      BY <1>1, <1>4 DEF ReadEnv
    <2>2. ASSUME NEW v \in EnvVar PROVE EnvFits(v)'
      <3>1. EnvFits(v) /\ ~Decides(n, v)
        BY <1>4 DEF EnvInv, Decides
      <3> QED BY <1>1, <1>2, <1>3, <2>1, <3>1 DEF EnvFits
    <2> QED BY <1>1, <1>2, <1>4, <2>1, <2>2 DEF EnvInv
  <1>5. CASE EnvOf(n) # <<>>
    <2>0. EnvLine(n) \in Seq(EnvWord) /\ LineOf(EnvOf(n)) = EnvLine(n) /\ envVal \in Env
      BY <1>5, EnvTyped DEF LineOf, EnvInv
    <2>1. envVal' = MergeEnvLayer(envVal, EnvLine(n))
          /\ envLayers' = envLayers + 1 /\ envRaw' = EnvLine(n)
      BY <1>1, <1>5, <2>0 DEF ReadEnv
    <2>2. NoVariable \in Env
      BY DEF NoVariable, Env, Values
    <2>3. envVal' \in Env
      BY <2>0, <2>1, <2>2, MergedLine DEF MergeEnvLayer
    <2>4. ASSUME NEW v \in EnvVar
          PROVE envVal'[v] = IF Decides(n, v) THEN LineValue(EnvLine(n), v) ELSE envVal[v]
      <3>1. CASE EnvLine(n) = <<>>
        BY <1>5, <2>1, <3>1 DEF MergeEnvLayer, Decides, LineValue, NoVariable
      <3>2. CASE EnvLine(n) # <<>>
        BY <1>5, <2>0, <2>1, <3>2, MergedLine DEF MergeEnvLayer, Decides, LineValue
      <3> QED BY <3>1, <3>2
    <2>5. ASSUME NEW v \in EnvVar PROVE EnvFits(v)'
      <3>1. EnvFits(v)
        BY DEF EnvInv
      <3>2. CASE Decides(n, v)
        BY <1>1, <1>2, <1>3, <2>4, <3>2 DEF EnvFits
      <3>3. CASE ~Decides(n, v)
        BY <1>1, <1>2, <1>3, <2>4, <3>1, <3>3 DEF EnvFits
      <3> QED BY <3>2, <3>3
    <2>6. envLayers' \in Nat /\ envLayers' # 0
      BY <2>1 DEF EnvInv
    <2>7. envLayers' = 1 => \A j \in 1..5 : j <= n /\ j # n => EnvOf(j) = <<>>
      BY <1>1, <2>1 DEF EnvInv
    <2> QED BY <1>1, <1>2, <1>5, <2>1, <2>3, <2>5, <2>6, <2>7 DEF EnvInv
  <1> QED BY <1>4, <1>5

\* Once all layers are read, the variables are what README.md promises, or undone.
LEMMA EnvDecided == EnvInv => EnvMerged
  <1> SUFFICES ASSUME EnvInv, AllRead, NEW v \in EnvVar
               PROVE  WineEnv[v] = PromisedEnv(v) \/ Undone(v)
    BY DEF EnvMerged
  <1>0. read = 5 /\ Len(Layers) = 5
    BY LayerNames DEF AllRead
  <1>1. Deciding(v) = {i \in 1..5 : Decides(i, v)} /\ EnvLayers = {i \in 1..5 : EnvOf(i) # <<>>}
    BY <1>0 DEF Deciding, EnvLayers, Decides, EnvOf
  <1>2. PromisedEnv(v) = IF Deciding(v) = {} THEN Blank
          ELSE LineValue(EnvLine(Strongest(Deciding(v))), v)
    BY DEF PromisedEnv, LineValue, WordValue
  <1>3. Deciding(v) # {} => /\ Strongest(Deciding(v)) \in Deciding(v)
                            /\ \A j \in Deciding(v) : j <= Strongest(Deciding(v))
    BY <1>1, StrongestIn
  <1>4. CASE envLayers >= 2
    <2>1. EnvFits(v) /\ WineEnv = envVal
      BY <1>4 DEF EnvInv, WineEnv
    <2>2. CASE Deciding(v) = {}
      BY <1>0, <1>1, <1>2, <2>1, <2>2 DEF EnvFits
    <2>3. CASE Deciding(v) # {}
      <3>0. PICK i : i = Strongest(Deciding(v))
        OBVIOUS
      <3>1. i \in 1..5 /\ Decides(i, v) /\ \A j \in 1..5 : Decides(j, v) => j <= i
        BY <1>1, <1>3, <2>3, <3>0
      <3>2. \A j \in 1..5 : i < j /\ j <= read => ~Decides(j, v)
        BY <3>1
      <3> QED BY <1>0, <1>2, <2>1, <2>3, <3>0, <3>1, <3>2 DEF EnvFits
    <2> QED BY <2>2, <2>3
  <1>5. NoVariable \in Env /\ NoVariable[v] = Blank
    BY DEF NoVariable, Env, Values
  <1>6. CASE envLayers = 0
    <2>1. envRaw = <<>> /\ Deciding(v) = {}
      BY <1>0, <1>1, <1>6 DEF EnvInv, Decides
    <2>2. envRaw \in Seq(EnvWord) /\ Setting(envRaw, v) = {}
      BY <2>1 DEF Setting
    <2>3. WineEnv[v] = Blank
      BY <1>5, <1>6, <2>2, AppliedLine DEF WineEnv
    <2> QED BY <1>2, <2>1, <2>3
  <1>7. CASE envLayers = 1
    <2>1. PICK i \in 1..5 : /\ i <= read /\ EnvOf(i) # <<>> /\ envRaw = EnvLine(i)
                            /\ \A j \in 1..5 : j <= read /\ j # i => EnvOf(j) = <<>>
      BY <1>7 DEF EnvInv
    <2>2. Deciding(v) \subseteq {i} /\ EnvLine(i) \in Seq(EnvWord) /\ i \in EnvLayers
      <3>1. EnvLine(i) \in Seq(EnvWord) /\ i \in EnvLayers
        BY <1>0, <1>1, <2>1, EnvTyped
      <3>2. Deciding(v) \subseteq {i}
        BY <1>0, <1>1, <2>1 DEF Decides
      <3> QED BY <3>1, <3>2
    <2>3. PromisedEnv(v) = IF Decides(i, v) THEN LineValue(EnvLine(i), v) ELSE Blank
      BY <1>1, <1>2, <1>3, <2>2
    <2>4. WineEnv[v] = IF Setting(EnvLine(i), v) = {} THEN Blank
                       ELSE EnvLine(i)[Strongest(Setting(EnvLine(i), v))].val
      BY <1>5, <1>7, <2>1, <2>2, AppliedLine DEF WineEnv
    <2>5. CASE Naming(EnvLine(i), v) = {}
      BY <2>3, <2>4, <2>5 DEF Decides, LineValue, Naming, Setting, Sets
    <2>6. CASE Naming(EnvLine(i), v) # {}
      <3>0. PICK line, j : line = EnvLine(i) /\ j = Strongest(Naming(line, v))
        OBVIOUS
      <3>1. line \in Seq(EnvWord) /\ DOMAIN line = 1..Len(line) /\ Len(line) \in Nat
        BY <2>2, <3>0
      <3>2. j \in Naming(line, v) /\ \A l \in Naming(line, v) : l <= j
        BY <2>6, <3>0, <3>1, StrongestIn DEF Naming
      <3>3. PromisedEnv(v) = WordValue(line[j])
        BY <2>1, <2>3, <2>6, <3>0, <3>1, <3>2 DEF Decides, LineValue, Naming
      <3>4. CASE Setting(line, v) = {}
        BY <2>4, <3>0, <3>2, <3>3, <3>4 DEF Naming, Setting, Sets, WordValue
      <3>5. CASE Setting(line, v) # {}
        <4>0. PICK l : l = Strongest(Setting(line, v))
          OBVIOUS
        <4>1. l \in Setting(line, v) /\ \A m \in Setting(line, v) : m <= l
          BY <3>1, <3>5, <4>0, StrongestIn DEF Setting
        <4>2. l \in Naming(line, v) /\ l <= j /\ l \in Nat /\ j \in Nat /\ line[l].op = "set"
          BY <3>1, <3>2, <4>1 DEF Naming, Setting, Sets
        <4>3. CASE line[j].op = "set"
          <5>1. j \in Setting(line, v)
            BY <3>2, <4>3 DEF Naming, Setting, Sets
          <5>2. l = j
            BY <4>1, <4>2, <5>1
          <5> QED BY <2>4, <3>0, <3>3, <3>5, <4>0, <4>3, <5>2 DEF WordValue
        <4>4. CASE line[j].op # "set"
          <5>1. line[j].op = "remove"
            <6>1. line[j] \in EnvWord
              BY <3>1, <3>2 DEF Naming
            <6> QED BY <4>4, <6>1 DEF EnvWord, Words
          <5>2. l # j
            BY <4>2, <4>4
          <5>3. l < j
            BY ONLY <4>2, <5>2
          <5> QED BY <2>2, <3>0, <3>2, <4>2, <5>1, <5>3 DEF Undone
        <4> QED BY <4>3, <4>4
      <3> QED BY <3>4, <3>5
    <2> QED BY <2>5, <2>6
  <1> QED BY <1>4, <1>6, <1>7 DEF EnvInv

-----------------------------------------------------------------------------
(* RunnerChoice: the promises depend on the launch alone.                  *)

\* What README.md promises of a key changes only with the launch.
LEMMA SamePromise == ASSUME launch' = launch, NEW k PROVE Promised(k)' = Promised(k)
  BY DEF Promised, LinesOf, VariableOf

\* What the user asks for changes only with the launch.
LEMMA SameAsked ==
  launch' = launch =>
    /\ \A k \in Key : Ask(k)' = Ask(k)
    /\ Single' = Single /\ host' = host
    /\ Wanted' = Wanted
  <1> SUFFICES ASSUME launch' = launch PROVE
    /\ \A k \in Key : Ask(k)' = Ask(k)
    /\ Single' = Single /\ host' = host
    /\ Wanted' = Wanted
    OBVIOUS
  <1>1. \A k \in Key : Ask(k)' = Ask(k)
    BY SamePromise DEF Ask
  <1>2. host' = host
    BY DEF host
  <1>3. Single' = Single
    BY <1>2 DEF Single
  <1>4. Wanted' = Wanted
    BY <1>1, <1>2, <1>3, ProtonAssumption DEF Wanted, FindOption, FindImageRunner
  <1> QED BY <1>1, <1>2, <1>3, <1>4

\* The keys are those of the layers, or the single runner of the image stands for them.
AsksNothing == Ask("PROTON") = Blank /\ Ask("WINE") = Blank
KeysRead ==
  /\ pc \in {"layers", "image"} => imageRunner = None
  /\ pc = "image" => /\ runnerKey = Ask("RUNNER") /\ protonVersion = Ask("PROTON")
                     /\ wineVersion = Ask("WINE")
  /\ pc \in {"prefix", "autorun", "option", "umu"} =>
       /\ runnerKey = Ask("RUNNER")
       /\ runnerKey # Blank => imageRunner = None
       /\ runnerKey = Blank =>
            /\ imageRunner =
                 FindImageRunner(IF protonVersion # Blank THEN protonVersion ELSE wineVersion)
            /\ ~AsksNothing => protonVersion = Ask("PROTON") /\ wineVersion = Ask("WINE")
            /\ AsksNothing =>
                 /\ Single \in Protons => protonVersion = Single /\ wineVersion = Blank
                 /\ Single \notin Protons => protonVersion = Blank /\ wineVersion = Single

\* What the prefix asks for, and whether something asks for a Wine.
PrefixSeen ==
  pc \in {"autorun", "option", "umu", "arch", "play"} =>
    /\ prefixProton = IF host.prefix \in Protons THEN host.prefix ELSE Blank
    /\ autoProton => prefixProton = Blank /\ ~SystemReg
ForcedSeen ==
  pc \in {"autorun", "option", "umu"} =>
    /\ overrideProton \in {None, ProtonDirOf(FindOption)}
    /\ forcedWine = Forced(overrideProton)

\* The exceptions of Excused, one by one.
NoUmu == (~host.umu \/ Wanted.place = "local") /\ ~SystemReg
OnWinePrefix == (ProtonDirOf(Wanted) # None \/ Wanted.place = "local") /\ SystemReg
    /\ host.prefix \notin Protons
WineByProton == /\ Wanted.place = "image" /\ ProtonDirOf(Wanted) = None
                /\ Ask("PROTON") # Blank /\ host.prefix \notin Protons
Asked32 == wineArch = "win32" /\ ~Classic(Wanted)

\* From --wine on, the runner is the one asked for, if one is.
Choosing ==
  /\ pc \in {"layers", "image", "prefix", "autorun", "option", "umu"} => umuRun = FALSE
  /\ pc \in {"umu", "arch", "play"} => host.option = Blank \/ Wanted # None
  /\ Wanted # None =>
       /\ pc = "option" /\ host.option = Blank => wineBinary = Wanted
       /\ pc = "umu" => wineBinary = Wanted
       /\ pc \in {"arch", "play"} =>
            \/ Runs = Wanted \/ OnWinePrefix \/ NoUmu \/ WineByProton
            \/ pc = "play" /\ Asked32

RunnerInv ==
  /\ LayersInv /\ (pc # "layers" => AllRead)
  /\ KeysRead /\ PrefixSeen /\ ForcedSeen /\ Choosing

\* The place and the name of a runner.
LEMMA RunnerNames ==
  /\ None.place = "none" /\ None.name = Blank /\ DefaultWine.place = "default"
     /\ DefaultWine.name = Blank
  /\ \A p, n : Runner(p, n).place = p /\ Runner(p, n).name = n
  BY DEF None, DefaultWine, Runner

\* A runner that is found is one, and a Proton's script is that of the Proton.
LEMMA PlacesDiffer ==
  /\ DefaultWine # None
  /\ \A n : \A p \in {"machine", "image", "opt", "local", "path", "classic"} :
       Runner(p, n) # None
  /\ \A r : ProtonDirOf(r) \in {r, None}
  /\ \A n \in Protons : \A p \in {"machine", "image"} : ProtonDirOf(Runner(p, n)) = Runner(p, n)
  <1>1. DefaultWine # None
    BY DEF DefaultWine, None, Runner
  <1>2. \A n : \A p \in {"machine", "image", "opt", "local", "path", "classic"} :
          Runner(p, n) # None
    BY DEF None, Runner
  <1>3. \A r : ProtonDirOf(r) \in {r, None}
    BY DEF ProtonDirOf
  <1>4. \A n \in Protons : \A p \in {"machine", "image"} :
          ProtonDirOf(Runner(p, n)) = Runner(p, n)
    BY RunnerNames DEF ProtonDirOf
  <1> QED BY <1>1, <1>2, <1>3, <1>4

\* The single runner is one of the image's.
LEMMA SingleIs == Single = Blank \/ Single \in host.bundled
  BY DEF Single

\* What ProtonAssumption says of the launch.
LEMMA LaunchHost ==
  ASSUME LayersInv
  PROVE  /\ host.protons \subseteq Protons /\ Blank \notin host.bundled
         /\ host.umu \in BOOLEAN
         /\ host.protons # {} => host.first \in host.protons
  BY ProtonAssumption DEF LayersInv, host

\* applyAutorunRunner takes the runner that is asked for, or none (die).
LEMMA NamedIsWanted ==
  ASSUME LayersInv, KeysRead, pc = "autorun", host.option = Blank, Wanted # None
  PROVE Names /\ (NamedRunner # None => NamedRunner = Wanted)
  <1>1. CASE runnerKey # Blank
    BY <1>1 DEF KeysRead, Names, NamedRunner, Wanted
  <1>2. CASE runnerKey = Blank /\ ~AsksNothing
    <2>1. protonVersion = Ask("PROTON") /\ wineVersion = Ask("WINE")
          /\ Ask("RUNNER") = Blank /\ Names
      BY <1>2 DEF KeysRead, AsksNothing, Names
    <2>2. imageRunner
            = FindImageRunner(IF protonVersion # Blank THEN protonVersion ELSE wineVersion)
      BY <1>2 DEF KeysRead
    <2>3. CASE protonVersion # Blank
      BY <1>2, <2>1, <2>2, <2>3 DEF NamedRunner, Wanted, FindImageRunner
    <2>4. CASE protonVersion = Blank
      BY <1>2, <2>1, <2>2, <2>4 DEF NamedRunner, Wanted, FindImageRunner, AsksNothing
    <2> QED BY <2>3, <2>4
  <1>3. CASE runnerKey = Blank /\ AsksNothing
    <2>1. Wanted = FindImageRunner(Single) /\ Single \in host.bundled
      BY <1>3 DEF Wanted, KeysRead, AsksNothing, FindImageRunner
    <2>2. imageRunner = FindImageRunner(Single) /\ Names
      BY <1>3, <2>1, LaunchHost DEF KeysRead, Names
    <2> QED BY <1>3, <2>1, <2>2 DEF NamedRunner
  <1> QED BY <1>1, <1>2, <1>3

\* Where setupUmu takes the runner for a Proton's, a Proton was asked for, or PROTON= names
\* what may be a Wine of the image.
LEMMA WantedProton ==
  ASSUME LayersInv, KeysRead, ForcedSeen, pc = "umu", Wanted # None, ProtonWanted
  PROVE \/ ProtonDirOf(Wanted) # None \/ Wanted.place = "local"
        \/ Wanted.place = "image" /\ Ask("PROTON") # Blank
  <1>1. runnerKey = Blank /\ wineVersion = Blank
        /\ (host.option # Blank => overrideProton # None)
    BY DEF ProtonWanted, ForcedSeen, Forced
  <1>2. CASE host.option # Blank
    BY <1>1, <1>2 DEF ForcedSeen, Wanted
  <1>3. CASE host.option = Blank /\ Ask("PROTON") # Blank
    <2>1. Ask("RUNNER") = Blank
      BY <1>1, <1>3 DEF KeysRead
    <2> QED BY <1>3, <2>1, LaunchHost, PlacesDiffer, RunnerNames DEF Wanted
  <1>4. CASE host.option = Blank /\ Ask("PROTON") = Blank
    <2>1. Ask("RUNNER") = Blank /\ Ask("WINE") = Blank
      BY <1>1, <1>4 DEF KeysRead, AsksNothing
    <2>2. Wanted = FindImageRunner(Single) /\ Single \in host.bundled
      BY <1>4, <2>1 DEF Wanted, FindImageRunner
    <2>3. Single \in Protons
      BY <1>1, <1>4, <2>1, <2>2, LaunchHost DEF KeysRead, AsksNothing
    <2> QED BY <2>2, <2>3, PlacesDiffer DEF FindImageRunner
  <1> QED BY <1>2, <1>3, <1>4

\* Steps that leave the settings alone keep their invariant.
LEMMA LayersKept ==
  LayersInv /\ UNCHANGED <<launch, settings>> => LayersInv' /\ AllRead' = AllRead
  <1> SUFFICES ASSUME LayersInv, UNCHANGED <<launch, settings>>
               PROVE  LayersInv' /\ AllRead' = AllRead
    OBVIOUS
  <1>1. UNCHANGED <<launch, read, machineVal, layerVal, layerSrc>>
    BY DEF settings
  <1>2. ASSUME NEW k \in Key PROVE KeyFits(k)'
    <2>1. KeyFits(k)
      BY DEF LayersInv
    <2>2. \A i : LinesOf(i, k)' = LinesOf(i, k) /\ FirstLine(i, k)' = FirstLine(i, k)
      BY <1>1 DEF LinesOf, FirstLine
    <2>3. \A i : Unnamed(i, k)' = Unnamed(i, k)
      BY <1>1, <2>2 DEF Unnamed
    <2> QED BY <1>1, <2>1, <2>2, <2>3 DEF KeyFits
  <1> QED BY <1>1, <1>2 DEF LayersInv, AllRead

\* A launch begins in RunnerInv: nothing has been chosen.
LEMMA InitRunner == RunnerInit => RunnerInv
  <1> SUFFICES ASSUME RunnerInit PROVE RunnerInv
    OBVIOUS
  <1>1. LayersInv
    BY InitLayers DEF RunnerInit
  <1> QED BY <1>1 DEF RunnerInit, RunnerInv, KeysRead, PrefixSeen, ForcedSeen, Choosing

\* Every step of selectRunner keeps RunnerInv.
LEMMA RunnerSteps == RunnerInv /\ [RunnerNext]_runnerVars => RunnerInv'
  <1> SUFFICES ASSUME RunnerInv, [RunnerNext]_runnerVars PROVE RunnerInv'
    OBVIOUS
  <1>0. /\ LayersInv /\ (pc # "layers" => AllRead)
        /\ KeysRead /\ PrefixSeen /\ ForcedSeen /\ Choosing
    BY DEF RunnerInv
  <1>a. launch' = launch
    BY DEF RunnerNext, runnerVars, ReadLayers, ReadLayer, ReadAutorun, ResolveImageRunner,
               ChooseProtonDefault, ApplyAutorunRunner, ApplyWineOption, SetupUmu,
               EnsureWin32Runner, Over
  <1>b. /\ \A k \in Key : Ask(k)' = Ask(k)
        /\ Single' = Single /\ host' = host /\ Wanted' = Wanted
    BY <1>a, SameAsked
  <1>c. /\ Ask("RUNNER")' = Ask("RUNNER") /\ Ask("PROTON")' = Ask("PROTON")
        /\ Ask("WINE")' = Ask("WINE")
    BY <1>b, ProtonAssumption
  <1>1. CASE ReadLayers
    <2>1. LayersInv'
      BY <1>0, <1>1, ReadLayerStep DEF ReadLayers
    <2>2. pc = "layers" /\ pc' = "layers" /\ UNCHANGED <<keys, choice>>
      BY <1>1 DEF ReadLayers, Step
    <2> QED BY <1>0, <1>b, <2>1, <2>2
       DEF RunnerInv, KeysRead, PrefixSeen, ForcedSeen, Choosing, choice
  <1>2. CASE ReadAutorun
    <2>1. LayersInv' /\ AllRead'
      BY <1>0, <1>2, LayersKept DEF ReadAutorun
    <2>2. pc = "layers" /\ pc' = "image" /\ UNCHANGED choice
      BY <1>2 DEF ReadAutorun, Step
    <2>3. \A k \in Key : AutorunVar(k) = Ask(k)
      BY <1>0, <1>2, LayersStrongest DEF ReadAutorun, StrongestWins, AutorunVar, Ask
    <2>4. KeysRead'
      BY <1>0, <1>2, <1>c, <2>2, <2>3, ProtonAssumption DEF ReadAutorun, KeysRead, choice
    <2> QED BY <1>0, <1>b, <2>1, <2>2, <2>4
       DEF RunnerInv, PrefixSeen, ForcedSeen, Choosing, choice
  <1>3. CASE ResolveImageRunner
    <2>1. LayersInv' /\ (pc' # "layers" => AllRead') /\ pc = "image" /\ pc' \in {"prefix",
    "refused"}
      BY <1>0, <1>3, LayersKept DEF ResolveImageRunner, Step
    <2>2. KeysRead'
      BY <1>0, <1>3, <1>b, <1>c, <2>1
         DEF ResolveImageRunner, KeysRead, AsksNothing, FindImageRunner
    <2> QED BY <1>0, <1>3, <1>b, <2>1, <2>2
       DEF RunnerInv, PrefixSeen, ForcedSeen, Choosing, ResolveImageRunner
  <1>4. CASE ChooseProtonDefault
    <2>1. /\ LayersInv' /\ (pc' # "layers" => AllRead') /\ pc = "prefix" /\ pc' = "autorun"
          /\ UNCHANGED <<keys, imageRunner, umuRun>>
      BY <1>0, <1>4, LayersKept DEF ChooseProtonDefault, Step
    <2>2. KeysRead'
      BY <1>0, <1>b, <1>c, <2>1 DEF KeysRead, AsksNothing, FindImageRunner, keys
    <2>3. PrefixSeen' /\ ForcedSeen'
      BY <1>4, <1>b, <2>1
         DEF ChooseProtonDefault, PrefixSeen, ForcedSeen, Forced, SystemReg, keys, FindOption
    <2> QED BY <1>0, <1>b, <2>1, <2>2, <2>3 DEF RunnerInv, Choosing
  <1>5. CASE ApplyAutorunRunner
    <2>1. /\ LayersInv' /\ (pc' # "layers" => AllRead')
         /\ pc = "autorun" /\ pc' \in {"option", "refused"}
          /\ UNCHANGED <<keys, imageRunner, prefixProton, overrideProton, autoProton,
                         forcedWine, umuRun>>
      BY <1>0, <1>5, LayersKept DEF ApplyAutorunRunner, Step
    <2>2. KeysRead'
      BY <1>0, <1>b, <1>c, <2>1 DEF KeysRead, AsksNothing, FindImageRunner, keys
    <2>3. PrefixSeen' /\ ForcedSeen'
      BY <1>0, <1>b, <2>1 DEF PrefixSeen, ForcedSeen, Forced, SystemReg, keys, FindOption
    <2>4. Wanted # None /\ host.option = Blank /\ pc' = "option" => wineBinary' = Wanted
      BY <1>0, <1>5, <2>1, NamedIsWanted DEF ApplyAutorunRunner, Step
    <2> QED BY <1>0, <1>b, <2>1, <2>2, <2>3, <2>4 DEF RunnerInv, Choosing
  <1>6. CASE ApplyWineOption
    <2>1. /\ LayersInv' /\ (pc' # "layers" => AllRead')
         /\ pc = "option" /\ pc' \in {"umu", "refused"}
          /\ UNCHANGED <<keys, imageRunner, prefixProton, overrideProton, autoProton,
                         forcedWine, umuRun>>
      BY <1>0, <1>6, LayersKept DEF ApplyWineOption, Step
    <2>2. KeysRead'
      BY <1>0, <1>b, <1>c, <2>1 DEF KeysRead, AsksNothing, FindImageRunner, keys
    <2>3. PrefixSeen' /\ ForcedSeen'
      BY <1>0, <1>b, <2>1 DEF PrefixSeen, ForcedSeen, Forced, SystemReg, keys, FindOption
    <2>4. host.option # Blank => Wanted = FindOption
      BY DEF Wanted
    <2>5. pc' = "umu" => /\ host.option = Blank \/ Wanted # None
                         /\ Wanted # None => wineBinary' = Wanted
      BY <1>0, <1>6, <2>1, <2>4 DEF ApplyWineOption, Step, Choosing
    <2> QED BY <1>0, <1>b, <2>1, <2>2, <2>3, <2>5 DEF RunnerInv, Choosing
  <1>7. CASE SetupUmu
    <2>1. /\ LayersInv' /\ (pc' # "layers" => AllRead') /\ pc = "umu" /\ pc' = "arch"
          /\ UNCHANGED <<keys, imageRunner, prefixProton, overrideProton, autoProton,
                         forcedWine>>
      BY <1>0, <1>7, LayersKept DEF SetupUmu, Step
    <2>2. KeysRead'
      BY <2>1 DEF KeysRead
    <2>3. PrefixSeen' /\ ForcedSeen'
      BY <1>0, <1>b, <2>1 DEF PrefixSeen, ForcedSeen, SystemReg
    <2>4. ASSUME Wanted # None
          PROVE  Runs' = Wanted \/ OnWinePrefix \/ NoUmu \/ WineByProton
      <3>1. wineBinary = Wanted /\ ~umuRun
        BY <1>0, <2>1, <2>4 DEF Choosing
      <3>2. ProtonWanted => \/ ProtonDirOf(Wanted) # None \/ Wanted.place = "local"
                            \/ Wanted.place = "image" /\ Ask("PROTON") # Blank
        BY <1>0, <2>1, <2>4, WantedProton
      <3>3. CASE ~ProtonWanted
        BY <1>7, <3>1, <3>3 DEF SetupUmu, Runs
      <3>4. CASE ProtonWanted /\ WinePrefix
        <4>1. host.prefix \notin Protons
          BY <1>0, <2>1, <3>4, ProtonAssumption DEF PrefixSeen, WinePrefix
        <4> QED BY <3>2, <3>4, <4>1 DEF OnWinePrefix, WineByProton, WinePrefix
      <3>5. CASE ProtonWanted /\ ~WinePrefix /\ UmuCan
        BY <1>7, <3>1, <3>5, PlacesDiffer DEF SetupUmu, Runs, UmuCan
      <3>6. CASE ProtonWanted /\ ~WinePrefix /\ ~UmuCan
        <4>1. autoProton => ~SystemReg /\ host.prefix \notin Protons
          BY <1>0, <2>1, ProtonAssumption DEF PrefixSeen
        <4> QED BY <1>7, <3>1, <3>2, <3>6, <4>1 DEF SetupUmu, Runs, UmuCan, NoUmu, WineByProton
      <3> QED BY <3>3, <3>4, <3>5, <3>6
    <2>5. /\ WineByProton' = WineByProton /\ OnWinePrefix' = OnWinePrefix /\ NoUmu' = NoUmu
      BY <1>b, <1>c DEF WineByProton, OnWinePrefix, NoUmu, SystemReg
    <2> QED BY <1>0, <1>b, <2>1, <2>2, <2>3, <2>4, <2>5 DEF RunnerInv, Choosing
  <1>8. CASE EnsureWin32Runner
    <2>1. /\ LayersInv' /\ (pc' # "layers" => AllRead')
         /\ pc = "arch" /\ pc' \in {"play", "refused"}
          /\ UNCHANGED <<prefixProton, overrideProton, autoProton, forcedWine, umuRun,
                         protonDir>>
      BY <1>0, <1>8, LayersKept DEF EnsureWin32Runner, Step
    <2>2. KeysRead' /\ ForcedSeen'
      BY <2>1 DEF KeysRead, ForcedSeen
    <2>3. PrefixSeen'
      BY <1>0, <1>b, <2>1 DEF PrefixSeen, SystemReg
    <2>5. /\ WineByProton' = WineByProton /\ OnWinePrefix' = OnWinePrefix /\ NoUmu' = NoUmu
      BY <1>b, <1>c DEF WineByProton, OnWinePrefix, NoUmu, SystemReg
    <2>4. ASSUME Wanted # None, pc' = "play"
          PROVE  Runs' = Wanted \/ OnWinePrefix \/ NoUmu \/ WineByProton \/ Asked32'
      <3>1. CASE Runs = Wanted
        BY <1>8, <1>b, <2>1, <3>1 DEF EnsureWin32Runner, Runs, Asked32, Classic
      <3> QED BY <1>0, <2>1, <2>4, <3>1 DEF Choosing
    <2> QED BY <1>0, <1>b, <2>1, <2>2, <2>3, <2>4, <2>5 DEF RunnerInv, Choosing
  <1>9. CASE Over \/ UNCHANGED runnerVars
    <2>1. UNCHANGED runnerVars
      BY <1>9 DEF Over
    <2>2. LayersInv' /\ AllRead' = AllRead /\ UNCHANGED <<pc, keys, choice>>
      BY <1>0, <2>1, LayersKept DEF runnerVars
    <2>3. WineByProton' = WineByProton /\ OnWinePrefix' = OnWinePrefix /\ NoUmu' = NoUmu
          /\ Asked32' = Asked32
      BY <1>b, <1>c, <2>2
         DEF WineByProton, OnWinePrefix, NoUmu, SystemReg, Asked32, Classic, keys
    <2>4. KeysRead'
      BY <1>0, <1>b, <1>c, <2>2 DEF KeysRead, AsksNothing, FindImageRunner, keys, choice
    <2>5. PrefixSeen' /\ ForcedSeen'
      BY <1>0, <1>b, <2>2
         DEF PrefixSeen, ForcedSeen, Forced, SystemReg, keys, choice, FindOption
    <2> QED BY <1>0, <1>b, <2>2, <2>3, <2>4, <2>5 DEF RunnerInv, Choosing, Runs, choice
  <1> QED BY <1>1, <1>2, <1>3, <1>4, <1>5, <1>6, <1>7, <1>8, <1>9 DEF RunnerNext

\* Whatever lines the layers hold, each key has the value of the strongest layer that
\* defines it, and --show names that layer (layerLookup, readLayer).
THEOREM StrongestLayerWins == RunnerSpec => []StrongestWins
  <1>1. RunnerInv => StrongestWins
    BY LayersStrongest DEF RunnerInv
  <1> QED BY <1>1, InitRunner, RunnerSteps, PTL DEF RunnerSpec

\* Every step keeps EnvInv: only the reading of a layer touches ENV=.
LEMMA EnvSteps == EnvInv /\ [RunnerNext]_runnerVars => EnvInv'
  <1> SUFFICES ASSUME EnvInv, [RunnerNext]_runnerVars PROVE EnvInv'
    OBVIOUS
  <1>1. CASE ReadLayers
    BY <1>1, ReadEnvStep DEF ReadLayers
  <1>2. CASE UNCHANGED <<launch, settings>>
    <2>1. UNCHANGED <<launch, read, envVal, envLayers, envRaw>>
      BY <1>2 DEF settings
    <2>2. \A i : EnvOf(i)' = EnvOf(i) /\ EnvLine(i)' = EnvLine(i)
      BY <2>1 DEF EnvOf, EnvLine
    <2>3. \A i, v : Decides(i, v)' <=> Decides(i, v)
      BY <2>2 DEF Decides
    <2> QED BY <2>1, <2>2, <2>3 DEF EnvInv, EnvFits
  <1> QED BY <1>1, <1>2
     DEF RunnerNext, runnerVars, ReadAutorun, ResolveImageRunner, ChooseProtonDefault,
         ApplyAutorunRunner, ApplyWineOption, SetupUmu, EnsureWin32Runner, Over

\* Whatever words the ENV= lines of the layers hold, each variable is what the strongest
\* layer that names it says (mergeEnvLayer, mergedEnv, applyWineEnv).
THEOREM EnvIsMerged == RunnerSpec => []EnvMerged
  <1>1. RunnerInit => EnvInv
    BY InitEnv DEF RunnerInit
  <1> QED BY <1>1, EnvSteps, EnvDecided, PTL DEF RunnerSpec

\* Whatever runners there are and whatever asks for them, a game that starts runs under
\* the one it was given, or one of the exceptions of Excused applies (selectRunner).
THEOREM RunnerAsked == RunnerSpec => []AskedRunnerRuns
  <1>1. RunnerInv => AskedRunnerRuns
    BY DEF RunnerInv, Choosing, AskedRunnerRuns, Plays, Excused, OnWinePrefix, NoUmu,
               WineByProton, Asked32
  <1> QED BY <1>1, InitRunner, RunnerSteps, PTL DEF RunnerSpec

-----------------------------------------------------------------------------
(* VersionOrder: the order of versionLess, for paths of any length.         *)

\* A set of numbers that is not empty has a least one, which Min finds.
LEMMA MinIs ==
  ASSUME NEW S \in SUBSET Nat, S # {}
  PROVE  Min(S) \in S /\ \A j \in S : Min(S) <= j
  <1>1. PICK x \in S : \A y \in S : <<y, x>> \notin OpToRel(<, Nat)
    BY NatLessThanWellFounded, WFMin, Zenon
  <1>2. \A y \in S : ~(y < x)
    BY <1>1 DEF OpToRel
  <1>3. \A y \in S : x <= y
    BY <1>2
  <1> QED BY <1>3 DEF Min

\* A number ends behind its last digit.
LEMMA RunEndIs ==
  ASSUME NEW s \in Seq(Int), NEW i \in 1..Len(s)
  PROVE  LET e == RunEnd(s, i)
         IN  /\ e \in i..Len(s) + 1 /\ (Digit(s[i]) => e > i)
             /\ \A k \in i..e - 1 : Digit(s[k])
             /\ e <= Len(s) => ~Digit(s[e])
  <1> DEFINE stops == {j \in i..Len(s) : ~Digit(s[j])}
  <1>0. Len(s) \in Nat /\ i \in Nat /\ i >= 1 /\ i <= Len(s)
    OBVIOUS
  <1>1. CASE stops = {}
    <2>1. RunEnd(s, i) = Len(s) + 1
      BY <1>1 DEF RunEnd
    <2>2. \A k \in i..Len(s) : Digit(s[k])
      BY <1>1
    <2> HIDE DEF stops
    <2> QED BY <1>0, <2>1, <2>2
  <1>2. CASE stops # {}
    <2>1. RunEnd(s, i) = Min(stops)
      BY <1>2 DEF RunEnd
    <2>2. stops \in SUBSET Nat
      BY <1>0
    <2>3. PICK e : e = Min(stops)
      OBVIOUS
    <2>4. e \in stops /\ \A j \in stops : e <= j
      <3> HIDE DEF stops
      <3> QED BY <1>2, <2>2, <2>3, MinIs
    <2>5. \A k \in i..e - 1 : Digit(s[k])
      BY <1>0, <2>4
    <2> QED BY <1>0, <2>1, <2>3, <2>4, <2>5
  <1> QED BY <1>1, <1>2

\* A number has a value.
LEMMA ValueTyped == ASSUME NEW s \in Seq(Int), NEW i \in 1..Len(s) PROVE Value(s, i) \in Int
  <1> DEFINE e == RunEnd(s, i)
             Fits(f, m) == f = [j \in i..m |-> IF j = i THEN 0 ELSE 10 * f[j - 1] + s[j - 1]]
             Has(n) == i + n <= e => \E f \in [i..i + n -> Int] : Fits(f, i + n)
             N == {n \in Nat : Has(n)}
             after == CHOOSE f : Fits(f, e)
  <1>0. i \in Nat /\ Len(s) \in Nat /\ e \in i..Len(s) + 1 /\ \A j \in 1..Len(s) : s[j] \in Int
    BY RunEndIs
  <1> HIDE DEF e
  <1>1. Has(0)
    <2>1. [j \in i..i + 0 |-> 0] \in [i..i + 0 -> Int] /\ \A j \in i..i + 0 : j = i
      BY <1>0
    <2>2. Fits([j \in i..i + 0 |-> 0], i + 0)
      BY <2>1
    <2> QED BY <2>1, <2>2
  <1>2. ASSUME NEW n \in Nat, Has(n) PROVE Has(n + 1)
    <2> SUFFICES ASSUME i + (n + 1) <= e
                 PROVE  \E f \in [i..i + (n + 1) -> Int] : Fits(f, i + (n + 1))
      OBVIOUS
    <2>0. i + n <= e /\ i + n \in i..Len(s) /\ i + n \in 1..Len(s) /\ s[i + n] \in Int
      BY <1>0
    <2>1. PICK f \in [i..i + n -> Int] : Fits(f, i + n)
      BY <1>2, <2>0
    <2> DEFINE h == [j \in i..i + (n + 1) |->
                       IF j = i + (n + 1) THEN 10 * f[i + n] + s[i + n] ELSE f[j]]
    <2>2. \A j \in i..i + (n + 1) : j # i + (n + 1) => j \in i..i + n
      BY <1>0
    <2>3. i + n \in i..i + n /\ f[i + n] \in Int
      BY <1>0
    <2>4. h \in [i..i + (n + 1) -> Int]
      BY <2>0, <2>2, <2>3
    <2>5. ASSUME NEW j \in i..i + (n + 1)
          PROVE  h[j] = IF j = i THEN 0 ELSE 10 * h[j - 1] + s[j - 1]
      <3>1. CASE j = i + (n + 1)
        <4>1. j # i /\ j - 1 = i + n /\ j - 1 \in i..i + (n + 1) /\ j - 1 # i + (n + 1)
          BY <1>0, <3>1
        <4> QED BY <3>1, <4>1
      <3>2. CASE j # i + (n + 1)
        <4>1. j \in i..i + n /\ h[j] = f[j]
          BY <2>2, <3>2
        <4>2. j # i => j - 1 \in i..i + (n + 1) /\ j - 1 # i + (n + 1)
          BY <1>0, <4>1
        <4> QED BY <2>1, <4>1, <4>2
      <3> QED BY <3>1, <3>2
    <2>6. Fits(h, i + (n + 1))
      <3> HIDE DEF h
      <3> QED BY <2>4, <2>5
    <2> QED BY <2>4, <2>6
  <1>3. N = Nat
    <2> HIDE DEF Has
    <2>1. N \in SUBSET Nat /\ 0 \in N /\ \A n \in N : n + 1 \in N
      BY <1>1, <1>2
    <2> HIDE DEF N
    <2> QED BY <2>1, SetInduction
  <1>4. PICK n \in Nat : i + n = e
    <2>1. e - i \in Nat /\ i + (e - i) = e
      BY <1>0
    <2> QED BY <2>1
  <1>5. \E f : Fits(f, e)
    <2>1. n \in N
      BY <1>3
    <2>2. i + n <= e
      BY <1>0, <1>4
    <2>3. \E f \in [i..i + n -> Int] : Fits(f, i + n)
      BY <2>1, <2>2
    <2> HIDE DEF Fits
    <2> QED BY <1>4, <2>3
  <1>6. after = [j \in i..e |-> IF j = i THEN 0 ELSE 10 * after[j - 1] + s[j - 1]]
    BY <1>5
  <1> DEFINE M == {m \in Nat : i + m <= e => after[i + m] \in Int}
  <1> HIDE DEF after
  <1>7. 0 \in M
    <2>1. i + 0 = i /\ i \in i..e
      BY <1>0
    <2> QED BY <1>6, <2>1
  <1>8. ASSUME NEW m \in M PROVE m + 1 \in M
    <2> SUFFICES ASSUME i + (m + 1) <= e PROVE after[i + (m + 1)] \in Int
      OBVIOUS
    <2>1. /\ i + (m + 1) \in i..e /\ i + (m + 1) # i /\ i + (m + 1) - 1 = i + m
          /\ i + m <= e /\ i + m \in 1..Len(s)
      BY <1>0
    <2>2. after[i + (m + 1)] = 10 * after[i + m] + s[i + m]
      BY <1>6, <2>1
    <2>3. after[i + m] \in Int /\ s[i + m] \in Int
      BY <1>0, <2>1
    <2> QED BY <2>2, <2>3
  <1>9. n \in M
    <2>1. M \in SUBSET Nat
      OBVIOUS
    <2> HIDE DEF M
    <2> QED BY <1>7, <1>8, <2>1, SetInduction
  <1>10. Value(s, i) = after[e]
    BY DEF Value, e, after
  <1> QED BY <1>0, <1>4, <1>9, <1>10

\* The word at a place where one begins, and where the next one does.
WordAt(s, i) == IF Digit(s[i]) THEN <<0, Value(s, i)>> ELSE <<s[i], 0>>
NextWord(s, i) == IF Digit(s[i]) THEN RunEnd(s, i) ELSE i + 1

\* A word is two numbers, the first of which is no digit, and has another one behind it.
LEMMA WordIs ==
  ASSUME NEW s \in Seq(Int), NEW i \in 1..Len(s)
  PROVE  /\ WordAt(s, i) \in Int \X Int
         /\ WordAt(s, i)[1] = 0 \/ WordAt(s, i)[1] \notin 0..9
         /\ NextWord(s, i) \in i + 1..Len(s) + 1
  <1>1. s[i] \in Int /\ Len(s) \in Nat
    OBVIOUS
  <1>2. CASE Digit(s[i])
    <2>1. Value(s, i) \in Int
      BY ValueTyped
    <2>2. RunEnd(s, i) \in i + 1..Len(s) + 1
      BY <1>1, <1>2, RunEndIs
    <2> QED BY <1>2, <2>1, <2>2 DEF WordAt, NextWord
  <1>3. CASE ~Digit(s[i])
    <2>1. i + 1 \in i + 1..Len(s) + 1
      BY <1>1
    <2> QED BY <1>1, <1>3, <2>1 DEF WordAt, NextWord, Digit
  <1> QED BY <1>2, <1>3

\* Words are in an order, a digit before or behind all characters of another kind.
LEMMA BeforeTyped == \A v, w : Before(v, w) \in BOOLEAN
  <1> TAKE v, w
  <1>1. CASE v[1] = w[1]
    BY <1>1 DEF Before
  <1>2. CASE v[1] # w[1]
    BY <1>2 DEF Before
  <1> QED BY <1>1, <1>2

LEMMA BeforeOrders ==
  \A v, w, u \in Int \X Int :
    /\ ~Before(v, v) /\ (Before(v, w) => ~Before(w, v))
    /\ Before(v, w) /\ Before(w, u) => Before(v, u)
    /\ v # w => Before(v, w) \/ Before(w, v)
  BY DEF Before

LEMMA DigitsStayTogether ==
  ASSUME NEW d \in 0..9, NEW c \in Int, ~Digit(c)
  PROVE  d # c /\ c # 0 /\ (d < c <=> 0 < c) /\ (c < d <=> c < 0)
  BY DEF Digit

\* What versionLess compares: word by word; at the end, the shorter path comes first.
Compares(less, a, b) ==
  \A i \in 1..Len(a) + 1, j \in 1..Len(b) + 1 :
    less[<<i, j>>] =
      IF i > Len(a) \/ j > Len(b) THEN i > Len(a) /\ j <= Len(b)
      ELSE IF WordAt(a, i) = WordAt(b, j) THEN less[<<NextWord(a, i), NextWord(b, j)>>]
      ELSE Before(WordAt(a, i), WordAt(b, j))

\* There is such a comparison of two paths.
LEMMA ComparisonExists ==
  ASSUME NEW a \in Seq(Int), NEW b \in Seq(Int)
  PROVE  \E less \in [(1..Len(a) + 1) \X (1..Len(b) + 1) -> BOOLEAN] : Compares(less, a, b)
  <1> DEFINE P == (1..Len(a) + 1) \X (1..Len(b) + 1)
             One(f, i, j) ==
               IF i > Len(a) \/ j > Len(b) THEN i > Len(a) /\ j <= Len(b)
               ELSE IF WordAt(a, i) = WordAt(b, j) THEN f[<<NextWord(a, i), NextWord(b, j)>>]
               ELSE Before(WordAt(a, i), WordAt(b, j))
             Fits(f, n) == \A i \in 1..Len(a) + 1, j \in 1..Len(b) + 1 :
                             i + n > Len(a) => f[<<i, j>>] = One(f, i, j)
             Has(n) == \E f \in [P -> BOOLEAN] : Fits(f, n)
             N == {n \in Nat : Has(n)}
  <1>0. Len(a) \in Nat /\ Len(b) \in Nat
    OBVIOUS
  <1>next. /\ \A i \in 1..Len(a) : NextWord(a, i) \in i + 1..Len(a) + 1
           /\ \A j \in 1..Len(b) : NextWord(b, j) \in j + 1..Len(b) + 1
    BY WordIs
  <1>1. Has(0)
    <2> DEFINE f == [p \in P |-> p[1] > Len(a) /\ p[2] <= Len(b)]
    <2>1. f \in [P -> BOOLEAN]
      OBVIOUS
    <2>2. Fits(f, 0)
      <3> SUFFICES ASSUME NEW i \in 1..Len(a) + 1, NEW j \in 1..Len(b) + 1, i + 0 > Len(a)
                   PROVE  f[<<i, j>>] = One(f, i, j)
        OBVIOUS
      <3>1. i > Len(a)
        BY <1>0
      <3>2. f[<<i, j>>] = (i > Len(a) /\ j <= Len(b))
        OBVIOUS
      <3> HIDE DEF f
      <3> QED BY <3>1, <3>2
    <2> HIDE DEF f
    <2> QED BY <2>1, <2>2
  <1>2. ASSUME NEW n \in Nat, Has(n) PROVE Has(n + 1)
    <2>1. PICK f \in [P -> BOOLEAN] : Fits(f, n)
      BY <1>2
    <2> DEFINE h == [p \in P |-> IF p[1] + n > Len(a) THEN f[p] ELSE One(f, p[1], p[2])]
    <2>2. \A i \in 1..Len(a) + 1, j \in 1..Len(b) + 1 :
            h[<<i, j>>] = IF i + n > Len(a) THEN f[<<i, j>>] ELSE One(f, i, j)
      <3> HIDE DEF One
      <3> QED OBVIOUS
    <2>3. ASSUME NEW p \in P PROVE h[p] \in BOOLEAN
      <3>1. p[1] + n > Len(a) => h[p] = f[p]
        OBVIOUS
      <3>2. PICK i \in 1..Len(a) + 1, j \in 1..Len(b) + 1 : p = <<i, j>>
        OBVIOUS
      <3>3. CASE i <= Len(a) /\ j <= Len(b)
        <4>1. <<NextWord(a, i), NextWord(b, j)>> \in P
          BY <1>0, <1>next, <3>3
        <4>2. One(f, i, j) \in BOOLEAN
          <5>1. f[<<NextWord(a, i), NextWord(b, j)>>] \in BOOLEAN
            BY <4>1
          <5>2. Before(WordAt(a, i), WordAt(b, j)) \in BOOLEAN
            BY BeforeTyped
          <5> QED BY <3>3, <5>1, <5>2, <1>0
        <4> HIDE DEF One, h
        <4> QED BY <2>2, <3>2, <4>2, <2>1
      <3>4. CASE ~(i <= Len(a) /\ j <= Len(b))
        <4>1. One(f, i, j) = (i > Len(a) /\ j <= Len(b))
          BY <1>0, <3>4
        <4> HIDE DEF One, h
        <4> QED BY <2>2, <3>2, <4>1, <2>1
      <3> QED BY <3>3, <3>4
    <2>4. h \in [P -> BOOLEAN]
      <3>1. h = [p \in P |-> h[p]]
        OBVIOUS
      <3> HIDE DEF h
      <3> QED BY <2>3, <3>1
    <2>5. Fits(h, n + 1)
      <3> SUFFICES ASSUME NEW i \in 1..Len(a) + 1, NEW j \in 1..Len(b) + 1, i + (n + 1) > Len(a)
                   PROVE  h[<<i, j>>] = One(h, i, j)
        OBVIOUS
      <3> HIDE DEF h
      <3>1. CASE i > Len(a) \/ j > Len(b)
        <4>1. One(h, i, j) = One(f, i, j)
          BY <3>1
        <4>2. i + n > Len(a) => f[<<i, j>>] = One(f, i, j)
          BY <2>1
        <4> HIDE DEF One
        <4> QED BY <2>2, <4>1, <4>2
      <3>2. CASE ~(i > Len(a) \/ j > Len(b))
        <4>1. /\ NextWord(a, i) \in 1..Len(a) + 1 /\ NextWord(b, j) \in 1..Len(b) + 1
              /\ NextWord(a, i) + n > Len(a)
          BY <1>0, <1>next, <3>2
        <4>2. h[<<NextWord(a, i), NextWord(b, j)>>] = f[<<NextWord(a, i), NextWord(b, j)>>]
          BY <2>2, <4>1
        <4>3. One(h, i, j) = One(f, i, j)
          BY <4>2
        <4>4. i + n > Len(a) => f[<<i, j>>] = One(f, i, j)
          BY <2>1
        <4> HIDE DEF One
        <4> QED BY <2>2, <4>3, <4>4
      <3> QED BY <3>1, <3>2
    <2> HIDE DEF Fits, h
    <2> QED BY <2>4, <2>5
  <1>3. N = Nat
    <2> HIDE DEF Has
    <2>1. N \in SUBSET Nat /\ 0 \in N /\ \A n \in N : n + 1 \in N
      BY <1>1, <1>2
    <2> HIDE DEF N
    <2> QED BY <2>1, SetInduction
  <1>4. Has(Len(a))
    <2> HIDE DEF Has
    <2> QED BY <1>0, <1>3
  <1>5. PICK f \in [P -> BOOLEAN] : Fits(f, Len(a))
    BY <1>4
  <1>6. \A i \in 1..Len(a) + 1 : i + Len(a) > Len(a)
    BY <1>0
  <1>7. \A i \in 1..Len(a) + 1, j \in 1..Len(b) + 1 : f[<<i, j>>] = One(f, i, j)
    <2> HIDE DEF One
    <2> QED BY <1>5, <1>6
  <1>8. Compares(f, a, b)
    BY <1>7 DEF Compares
  <1> QED BY <1>8

\* versionLess is that comparison from the beginning of both.
LEMMA LessIs ==
  ASSUME NEW a \in Seq(Int), NEW b \in Seq(Int)
  PROVE  \E less : VersionLess(a, b) = less[<<1, 1>>] /\ Compares(less, a, b)
  <1> DEFINE P == (1..Len(a) + 1) \X (1..Len(b) + 1)
             Loop(f, i, j) ==
               IF i > Len(a) \/ j > Len(b) THEN Len(a) - i < Len(b) - j
               ELSE IF Digit(a[i]) /\ Digit(b[j])
                    THEN IF Value(a, i) # Value(b, j) THEN Value(a, i) < Value(b, j)
                         ELSE f[<<RunEnd(a, i), RunEnd(b, j)>>]
               ELSE IF a[i] # b[j] THEN a[i] < b[j]
               ELSE f[<<i + 1, j + 1>>]
             One(f, i, j) ==
               IF i > Len(a) \/ j > Len(b) THEN i > Len(a) /\ j <= Len(b)
               ELSE IF WordAt(a, i) = WordAt(b, j) THEN f[<<NextWord(a, i), NextWord(b, j)>>]
               ELSE Before(WordAt(a, i), WordAt(b, j))
             Is(f) == f = [p \in P |-> Loop(f, p[1], p[2])]
             less == CHOOSE f : Is(f)
  <1>0. /\ Len(a) \in Nat /\ Len(b) \in Nat
        /\ \A i \in 1..Len(a) : a[i] \in Int /\ Value(a, i) \in Int
        /\ \A j \in 1..Len(b) : b[j] \in Int /\ Value(b, j) \in Int
    BY ValueTyped
  <1>1. ASSUME NEW f, NEW i \in 1..Len(a) + 1, NEW j \in 1..Len(b) + 1
        PROVE  Loop(f, i, j) = One(f, i, j)
    <2>1. CASE i > Len(a) \/ j > Len(b)
      <3>1. (Len(a) - i < Len(b) - j) = (i > Len(a) /\ j <= Len(b))
        BY <1>0, <2>1
      <3> QED BY <2>1, <3>1
    <2>2. CASE ~(i > Len(a) \/ j > Len(b))
      <3>0. /\ a[i] \in Int /\ Value(a, i) \in Int /\ b[j] \in Int /\ Value(b, j) \in Int
        BY <1>0, <2>2
      <3>1. CASE Digit(a[i]) /\ Digit(b[j])
        BY <2>2, <3>0, <3>1 DEF WordAt, NextWord, Before
      <3>2. CASE ~Digit(a[i]) /\ ~Digit(b[j])
        BY <2>2, <3>0, <3>2 DEF WordAt, NextWord, Before
      <3>3. CASE Digit(a[i]) /\ ~Digit(b[j])
        <4>1. a[i] # b[j] /\ b[j] # 0 /\ (a[i] < b[j] <=> 0 < b[j])
          <5>1. a[i] \in 0..9
            BY <3>3 DEF Digit
          <5> QED BY ONLY <5>1, <3>0, <3>3, DigitsStayTogether
        <4> QED BY <2>2, <3>0, <3>3, <4>1 DEF WordAt, Before
      <3>4. CASE ~Digit(a[i]) /\ Digit(b[j])
        <4>1. a[i] # b[j] /\ a[i] # 0 /\ (a[i] < b[j] <=> a[i] < 0)
          <5>1. b[j] \in 0..9
            BY <3>4 DEF Digit
          <5> QED BY ONLY <5>1, <3>0, <3>4, DigitsStayTogether
        <4> QED BY <2>2, <3>0, <3>4, <4>1 DEF WordAt, Before
      <3> QED BY <3>1, <3>2, <3>3, <3>4
    <2> QED BY <2>1, <2>2
  <1>2. PICK f \in [P -> BOOLEAN] : Compares(f, a, b)
    BY ComparisonExists
  <1>3. \A i \in 1..Len(a) + 1, j \in 1..Len(b) + 1 : f[<<i, j>>] = One(f, i, j)
    BY <1>2 DEF Compares
  <1>4. \A p \in P : f[p] = Loop(f, p[1], p[2])
    <2> HIDE DEF Loop, One
    <2> QED BY <1>1, <1>3
  <1>5. Is(f)
    <2> HIDE DEF Loop
    <2> QED BY <1>4
  <1>6. Is(less)
    <2> HIDE DEF Is
    <2> QED BY <1>5
  <1>7. VersionLess(a, b) = less[<<1, 1>>]
    BY DEF VersionLess
  <1>8. PICK g : g = less
    OBVIOUS
  <1>9. \A i \in 1..Len(a) + 1, j \in 1..Len(b) + 1 : g[<<i, j>>] = Loop(g, i, j)
    <2>1. Is(g)
      <3> HIDE DEF Is, less
      <3> QED BY <1>6, <1>8
    <2> HIDE DEF Loop
    <2> QED BY <2>1
  <1>10. \A i \in 1..Len(a) + 1, j \in 1..Len(b) + 1 : g[<<i, j>>] = One(g, i, j)
    <2> HIDE DEF Loop, One
    <2> QED BY <1>1, <1>9
  <1>11. Compares(g, a, b)
    BY <1>10 DEF Compares
  <1> HIDE DEF less
  <1> QED BY <1>7, <1>8, <1>11

\* One step of such a comparison, seen from the places i and j.
LEMMA ComparesAt ==
  ASSUME NEW a \in Seq(Int), NEW b \in Seq(Int), NEW less, Compares(less, a, b),
         NEW i \in 1..Len(a) + 1, NEW j \in 1..Len(b) + 1
  PROVE  /\ i > Len(a) \/ j > Len(b) => (less[<<i, j>>] <=> i > Len(a) /\ j <= Len(b))
         /\ ~(i > Len(a) \/ j > Len(b)) =>
              /\ WordAt(a, i) = WordAt(b, j)
                   => (less[<<i, j>>] <=> less[<<NextWord(a, i), NextWord(b, j)>>])
              /\ WordAt(a, i) # WordAt(b, j)
                   => (less[<<i, j>>] <=> Before(WordAt(a, i), WordAt(b, j)))
  <1>1. less[<<i, j>>] =
          IF i > Len(a) \/ j > Len(b) THEN i > Len(a) /\ j <= Len(b)
          ELSE IF WordAt(a, i) = WordAt(b, j) THEN less[<<NextWord(a, i), NextWord(b, j)>>]
          ELSE Before(WordAt(a, i), WordAt(b, j))
    BY DEF Compares
  <1>2. CASE i > Len(a) \/ j > Len(b)
    BY <1>1, <1>2
  <1>3. CASE ~(i > Len(a) \/ j > Len(b))
    BY <1>1, <1>3
  <1> QED BY <1>2, <1>3

\* Of two paths at most one comes first, from any two places on.
LEMMA TwoPaths ==
  ASSUME NEW a \in Seq(Int), NEW b \in Seq(Int),
         NEW ab, Compares(ab, a, b), NEW ba, Compares(ba, b, a)
  PROVE  ab[<<1, 1>>] => ~ba[<<1, 1>>]
  <1> DEFINE Has(n) == \A i \in 1..Len(a) + 1, j \in 1..Len(b) + 1 :
                         i + n > Len(a) => (ab[<<i, j>>] => ~ba[<<j, i>>])
             N == {n \in Nat : Has(n)}
  <1>0. Len(a) \in Nat /\ Len(b) \in Nat
    OBVIOUS
  <1>1. ASSUME NEW i \in 1..Len(a) + 1, NEW j \in 1..Len(b) + 1, i > Len(a) \/ j > Len(b)
        PROVE  ab[<<i, j>>] => ~ba[<<j, i>>]
    <2>1. /\ ab[<<i, j>>] <=> i > Len(a) /\ j <= Len(b)
          /\ ba[<<j, i>>] <=> j > Len(b) /\ i <= Len(a)
      BY <1>1, ComparesAt
    <2>2. ~(i > Len(a) /\ i <= Len(a))
      BY <1>0
    <2> QED BY ONLY <2>1, <2>2
  <1>2. Has(0)
    <2>1. \A i \in 1..Len(a) + 1 : i + 0 > Len(a) => i > Len(a)
      BY <1>0
    <2> QED BY <1>1, <2>1
  <1>3. ASSUME NEW n \in Nat, Has(n) PROVE Has(n + 1)
    <2> SUFFICES ASSUME NEW i \in 1..Len(a) + 1, NEW j \in 1..Len(b) + 1,
                        i + (n + 1) > Len(a), ~(i > Len(a) \/ j > Len(b))
                 PROVE  ab[<<i, j>>] => ~ba[<<j, i>>]
      BY <1>1
    <2>0. i \in 1..Len(a) /\ j \in 1..Len(b)
      BY <1>0
    <2>1. PICK v, w : v = WordAt(a, i) /\ w = WordAt(b, j)
      OBVIOUS
    <2>2. PICK i2, j2 : i2 = NextWord(a, i) /\ j2 = NextWord(b, j)
      OBVIOUS
    <2>3. /\ v = w => (ab[<<i, j>>] <=> ab[<<i2, j2>>]) /\ (ba[<<j, i>>] <=> ba[<<j2, i2>>])
          /\ v # w => (ab[<<i, j>>] <=> Before(v, w)) /\ (ba[<<j, i>>] <=> Before(w, v))
      BY <2>1, <2>2, ComparesAt
    <2>4. /\ i2 \in i + 1..Len(a) + 1 /\ j2 \in j + 1..Len(b) + 1
          /\ v \in Int \X Int /\ w \in Int \X Int
      BY <2>0, <2>1, <2>2, WordIs
    <2>5. ab[<<i2, j2>>] => ~ba[<<j2, i2>>]
      <3>1. i2 \in 1..Len(a) + 1 /\ j2 \in 1..Len(b) + 1 /\ i2 + n > Len(a)
        BY <1>0, <2>4
      <3> QED BY <1>3, <3>1
    <2>6. Before(v, w) => ~Before(w, v)
      BY <2>4, BeforeOrders
    <2> QED BY ONLY <2>3, <2>5, <2>6
  <1>4. N = Nat
    <2> HIDE DEF Has
    <2>1. N \in SUBSET Nat /\ 0 \in N /\ \A n \in N : n + 1 \in N
      BY <1>2, <1>3
    <2> HIDE DEF N
    <2> QED BY <2>1, SetInduction
  <1>5. Has(Len(a))
    <2> HIDE DEF Has
    <2> QED BY <1>0, <1>4
  <1>6. 1 \in 1..Len(a) + 1 /\ 1 \in 1..Len(b) + 1 /\ 1 + Len(a) > Len(a)
    BY <1>0
  <1> QED BY <1>5, <1>6

\* Three paths, compared from any three places on.
LEMMA ThreePaths ==
  ASSUME NEW a \in Seq(Int), NEW b \in Seq(Int), NEW c \in Seq(Int),
         NEW ab, Compares(ab, a, b), NEW ba, Compares(ba, b, a),
         NEW bc, Compares(bc, b, c), NEW cb, Compares(cb, c, b),
         NEW ac, Compares(ac, a, c), NEW ca, Compares(ca, c, a)
  PROVE  /\ ab[<<1, 1>>] /\ bc[<<1, 1>>] => ac[<<1, 1>>]
         /\ ~ab[<<1, 1>>] /\ ~ba[<<1, 1>>] /\ ~bc[<<1, 1>>] /\ ~cb[<<1, 1>>]
              => ~ac[<<1, 1>>] /\ ~ca[<<1, 1>>]
  <1> DEFINE Ordered(i, j, k) ==
               /\ ab[<<i, j>>] /\ bc[<<j, k>>] => ac[<<i, k>>]
               /\ ~ab[<<i, j>>] /\ ~ba[<<j, i>>] /\ ~bc[<<j, k>>] /\ ~cb[<<k, j>>]
                    => ~ac[<<i, k>>] /\ ~ca[<<k, i>>]
             Has(n) == \A i \in 1..Len(a) + 1, j \in 1..Len(b) + 1, k \in 1..Len(c) + 1 :
                         i + n > Len(a) => Ordered(i, j, k)
             N == {n \in Nat : Has(n)}
  <1>0. Len(a) \in Nat /\ Len(b) \in Nat /\ Len(c) \in Nat
    OBVIOUS
  <1>1. ASSUME NEW i \in 1..Len(a) + 1, NEW j \in 1..Len(b) + 1, NEW k \in 1..Len(c) + 1,
               i > Len(a) \/ j > Len(b) \/ k > Len(c)
        PROVE  Ordered(i, j, k)
    <2>1. /\ i > Len(a) \/ j > Len(b) =>
               /\ ab[<<i, j>>] <=> i > Len(a) /\ j <= Len(b)
               /\ ba[<<j, i>>] <=> j > Len(b) /\ i <= Len(a)
          /\ j > Len(b) \/ k > Len(c) =>
               /\ bc[<<j, k>>] <=> j > Len(b) /\ k <= Len(c)
               /\ cb[<<k, j>>] <=> k > Len(c) /\ j <= Len(b)
          /\ i > Len(a) \/ k > Len(c) =>
               /\ ac[<<i, k>>] <=> i > Len(a) /\ k <= Len(c)
               /\ ca[<<k, i>>] <=> k > Len(c) /\ i <= Len(a)
      BY ComparesAt
    <2>2. (i <= Len(a) <=> ~(i > Len(a))) /\ (j <= Len(b) <=> ~(j > Len(b)))
          /\ (k <= Len(c) <=> ~(k > Len(c)))
      BY <1>0
    <2> QED BY ONLY <1>1, <2>1, <2>2
  <1>2. Has(0)
    <2>1. \A i \in 1..Len(a) + 1 : i + 0 > Len(a) => i > Len(a)
      BY <1>0
    <2> HIDE DEF Ordered
    <2> QED BY <1>1, <2>1
  <1>3. ASSUME NEW n \in Nat, Has(n) PROVE Has(n + 1)
    <2> SUFFICES ASSUME NEW i \in 1..Len(a) + 1, NEW j \in 1..Len(b) + 1,
                        NEW k \in 1..Len(c) + 1, i + (n + 1) > Len(a),
                        ~(i > Len(a) \/ j > Len(b) \/ k > Len(c))
                 PROVE  Ordered(i, j, k)
      <3> HIDE DEF Ordered
      <3> QED BY <1>1
    <2>0. i \in 1..Len(a) /\ j \in 1..Len(b) /\ k \in 1..Len(c)
      BY <1>0
    <2>1. PICK u, v, w : u = WordAt(a, i) /\ v = WordAt(b, j) /\ w = WordAt(c, k)
      OBVIOUS
    <2>2. PICK i2, j2, k2 : i2 = NextWord(a, i) /\ j2 = NextWord(b, j) /\ k2 = NextWord(c, k)
      OBVIOUS
    <2>3. /\ u = v => (ab[<<i, j>>] <=> ab[<<i2, j2>>]) /\ (ba[<<j, i>>] <=> ba[<<j2, i2>>])
          /\ u # v => (ab[<<i, j>>] <=> Before(u, v)) /\ (ba[<<j, i>>] <=> Before(v, u))
      BY <2>1, <2>2, ComparesAt
    <2>7. /\ v = w => (bc[<<j, k>>] <=> bc[<<j2, k2>>]) /\ (cb[<<k, j>>] <=> cb[<<k2, j2>>])
          /\ v # w => (bc[<<j, k>>] <=> Before(v, w)) /\ (cb[<<k, j>>] <=> Before(w, v))
      BY <2>1, <2>2, ComparesAt
    <2>8. /\ u = w => (ac[<<i, k>>] <=> ac[<<i2, k2>>]) /\ (ca[<<k, i>>] <=> ca[<<k2, i2>>])
          /\ u # w => (ac[<<i, k>>] <=> Before(u, w)) /\ (ca[<<k, i>>] <=> Before(w, u))
      BY <2>1, <2>2, ComparesAt
    <2>4. /\ i2 \in i + 1..Len(a) + 1 /\ j2 \in j + 1..Len(b) + 1 /\ k2 \in k + 1..Len(c) + 1
          /\ u \in Int \X Int /\ v \in Int \X Int /\ w \in Int \X Int
      BY <2>0, <2>1, <2>2, WordIs
    <2>5. Ordered(i2, j2, k2)
      <3>1. /\ i2 \in 1..Len(a) + 1 /\ j2 \in 1..Len(b) + 1 /\ k2 \in 1..Len(c) + 1
            /\ i2 + n > Len(a)
        BY <1>0, <2>4
      <3> HIDE DEF Ordered
      <3> QED BY <1>3, <3>1
    <2>6. /\ Before(u, v) /\ Before(v, w) => Before(u, w)
          /\ Before(u, v) => ~Before(v, u)
          /\ u # v => Before(u, v) \/ Before(v, u)
          /\ v # w => Before(v, w) \/ Before(w, v)
      BY <2>4, BeforeOrders
    <2> QED BY ONLY <2>3, <2>7, <2>8, <2>5, <2>6
  <1>4. N = Nat
    <2> HIDE DEF Has
    <2>1. N \in SUBSET Nat /\ 0 \in N /\ \A n \in N : n + 1 \in N
      BY <1>2, <1>3
    <2> HIDE DEF N
    <2> QED BY <2>1, SetInduction
  <1>5. Has(Len(a))
    <2> HIDE DEF Has
    <2> QED BY <1>0, <1>4
  <1>6. /\ 1 \in 1..Len(a) + 1 /\ 1 \in 1..Len(b) + 1 /\ 1 \in 1..Len(c) + 1
        /\ 1 + Len(a) > Len(a)
    BY <1>0
  <1> QED BY <1>5, <1>6

\* versionLess of three paths.
LEMMA ThreeVersions ==
  ASSUME NEW a \in Seq(Int), NEW b \in Seq(Int), NEW c \in Seq(Int)
  PROVE  /\ VersionLess(a, b) => ~VersionLess(b, a)
         /\ VersionLess(a, b) /\ VersionLess(b, c) => VersionLess(a, c)
         /\ ~VersionLess(a, b) /\ ~VersionLess(b, a) /\
            ~VersionLess(b, c) /\ ~VersionLess(c, b)
              => ~VersionLess(a, c) /\ ~VersionLess(c, a)
  <1>2. PICK ab, ba : /\ VersionLess(a, b) = ab[<<1, 1>>] /\ Compares(ab, a, b)
                      /\ VersionLess(b, a) = ba[<<1, 1>>] /\ Compares(ba, b, a)
    BY LessIs
  <1>3. PICK bc, cb : /\ VersionLess(b, c) = bc[<<1, 1>>] /\ Compares(bc, b, c)
                      /\ VersionLess(c, b) = cb[<<1, 1>>] /\ Compares(cb, c, b)
    BY LessIs
  <1>4. PICK ac, ca : /\ VersionLess(a, c) = ac[<<1, 1>>] /\ Compares(ac, a, c)
                      /\ VersionLess(c, a) = ca[<<1, 1>>] /\ Compares(ca, c, a)
    BY LessIs
  <1>5. ab[<<1, 1>>] => ~ba[<<1, 1>>]
    BY <1>2, TwoPaths
  <1>6. /\ ab[<<1, 1>>] /\ bc[<<1, 1>>] => ac[<<1, 1>>]
        /\ ~ab[<<1, 1>>] /\ ~ba[<<1, 1>>] /\ ~bc[<<1, 1>>] /\ ~cb[<<1, 1>>]
             => ~ac[<<1, 1>>] /\ ~ca[<<1, 1>>]
    BY <1>2, <1>3, <1>4, ThreePaths
  <1>7. /\ VersionLess(a, b) <=> ab[<<1, 1>>]
        /\ VersionLess(b, a) <=> ba[<<1, 1>>]
        /\ VersionLess(b, c) <=> bc[<<1, 1>>]
        /\ VersionLess(c, b) <=> cb[<<1, 1>>]
        /\ VersionLess(a, c) <=> ac[<<1, 1>>]
        /\ VersionLess(c, a) <=> ca[<<1, 1>>]
    BY <1>2, <1>3, <1>4
  <1> QED BY ONLY <1>5, <1>6, <1>7

\* versionLess is a strict weak order of any paths, as sort.Slice needs it.
THEOREM VersionsAreOrdered == ASSUME NEW S \in SUBSET Seq(Int) PROVE StrictWeakOrder(S)
  BY ThreeVersions DEF StrictWeakOrder

\* A place where a word begins, or behind the last one, and how many begin before it.
Begins(s, i) == i \in Starts(s) \/ i = Len(s) + 1
Rank(s, i) == Cardinality({j \in Starts(s) : j < i})

\* The word that begins at a place is numbered by those before it, and is all there is up
\* to the next one.
LEMMA WordsFollow ==
  ASSUME NEW s \in Seq(Int), NEW i \in Starts(s)
  PROVE  /\ i \in 1..Len(s) /\ Word(s, i) = WordAt(s, i)
         /\ NextWord(s, i) \in i + 1..Len(s) + 1 /\ Begins(s, NextWord(s, i))
         /\ \A k \in Starts(s) : k < NextWord(s, i) => k <= i
  <1>0. i \in 1..Len(s) /\ Len(s) \in Nat /\ DOMAIN s = 1..Len(s)
    BY DEF Starts, Numbered
  <1>1. Word(s, i) = WordAt(s, i)
    BY <1>0 DEF Word, WordAt, Starts, Numbered
  <1>2. NextWord(s, i) \in i + 1..Len(s) + 1
    BY <1>0, WordIs
  <1>3. CASE Digit(s[i])
    <2>1. PICK e : e = NextWord(s, i)
      OBVIOUS
    <2>2. /\ e \in i + 1..Len(s) + 1 /\ (e <= Len(s) => ~Digit(s[e]))
          /\ \A k \in i..e - 1 : Digit(s[k])
      BY <1>0, <1>2, <1>3, <2>1, RunEndIs DEF NextWord
    <2>3. Begins(s, e)
      BY <1>0, <2>2 DEF Begins, Starts
    <2>4. ASSUME NEW k \in Starts(s), k < e, ~(k <= i) PROVE FALSE
      <3>1. k \in 1..Len(s)
        BY <1>0 DEF Starts, Numbered
      <3>2. k \in i..e - 1 /\ k - 1 \in i..e - 1 /\ k > 1
        BY <1>0, <2>2, <2>4, <3>1
      <3>3. Digit(s[k]) /\ Digit(s[k - 1])
        BY <2>2, <3>2
      <3> QED BY <3>2, <3>3 DEF Starts, Numbered
    <2> QED BY <1>0, <1>1, <1>2, <2>1, <2>3, <2>4
  <1>4. CASE ~Digit(s[i])
    <2>1. NextWord(s, i) = i + 1
      BY <1>4 DEF NextWord
    <2>2. Begins(s, i + 1)
      <3>1. CASE i = Len(s)
        BY <3>1 DEF Begins
      <3>2. CASE i # Len(s)
        <4>0. ASSUME NEW last \in Nat, i \in 1..last, i # last
              PROVE  i + 1 \in 1..last /\ (i + 1) - 1 = i
          BY ONLY <4>0
        <4>1. i + 1 \in 1..Len(s) /\ (i + 1) - 1 = i
          BY ONLY <1>0, <3>2, <4>0
        <4>2. i + 1 \in Starts(s)
          BY <1>0, <1>4, <4>1 DEF Starts, Numbered
        <4> QED BY <4>2 DEF Begins
      <3> QED BY <3>1, <3>2
    <2>3. \A k \in Starts(s) : k < i + 1 => k <= i
      BY <1>0 DEF Starts, Numbered
    <2> QED BY <1>0, <1>1, <1>2, <2>1, <2>2, <2>3
  <1> QED BY <1>3, <1>4

\* The words of a path are numbered from 0 on, one after the other.
LEMMA RankIs ==
  ASSUME NEW s \in Seq(Int), NEW i \in 1..Len(s) + 1
  PROVE  /\ Rank(s, i) \in 0..Len(s) /\ Rank(s, 1) = 0
         /\ \A k \in Starts(s) : k < i => Rank(s, k) < Rank(s, i)
         /\ i \in Starts(s) => Rank(s, NextWord(s, i)) = Rank(s, i) + 1
  <1> DEFINE Less(k) == {j \in Starts(s) : j < k}
  <1>0. /\ Len(s) \in Nat /\ Starts(s) \subseteq 1..Len(s)
        /\ IsFiniteSet(1..Len(s)) /\ Cardinality(1..Len(s)) = Len(s)
    <2>1. Len(s) \in Nat /\ Starts(s) \subseteq 1..Len(s)
      BY DEF Starts, Numbered
    <2>2. IsFiniteSet(1..Len(s)) /\ Cardinality(1..Len(s)) = Len(s)
      <3>1. 1 \in Int /\ Len(s) \in Int /\ (Len(s) - 1) + 1 = Len(s)
        BY <2>1
      <3>2. /\ IsFiniteSet(1..Len(s))
            /\ Cardinality(1..Len(s)) = IF 1 > Len(s) THEN 0 ELSE Len(s) - 1 + 1
        BY <3>1, FS_Interval
      <3> QED BY <2>1, <3>2
    <2> QED BY <2>1, <2>2
  <1>1. \A k : /\ IsFiniteSet(Less(k)) /\ Cardinality(Less(k)) \in Nat
               /\ Cardinality(Less(k)) <= Len(s)
    <2> TAKE k
    <2>1. Less(k) \subseteq 1..Len(s)
      BY <1>0
    <2> HIDE DEF Less
    <2> QED BY <1>0, <2>1, FS_Subset, FS_CardinalityType
  <1>2. \A k : Rank(s, k) = Cardinality(Less(k))
    BY DEF Rank
  <1>3. ASSUME NEW k \in Starts(s)
        PROVE  Cardinality(Less(k) \cup {k}) = Cardinality(Less(k)) + 1
    <2>1. k \notin Less(k)
      BY <1>0
    <2> HIDE DEF Less
    <2> QED BY <1>1, <2>1, FS_AddElement
  <1>4. ASSUME NEW k \in Starts(s), k < i PROVE Rank(s, k) < Rank(s, i)
    <2>1. Less(k) \cup {k} \subseteq Less(i)
      BY <1>0, <1>4
    <2>2. Cardinality(Less(k) \cup {k}) <= Cardinality(Less(i))
      <3> HIDE DEF Less
      <3> QED BY <1>1, <2>1, FS_Subset
    <2>3. Cardinality(Less(k)) + 1 <= Cardinality(Less(i))
      BY <1>3, <2>2
    <2> HIDE DEF Less
    <2> QED BY <1>1, <1>2, <2>3
  <1>5. ASSUME i \in Starts(s) PROVE Rank(s, NextWord(s, i)) = Rank(s, i) + 1
    <2>1. Less(NextWord(s, i)) = Less(i) \cup {i}
      <3>1. /\ NextWord(s, i) \in i + 1..Len(s) + 1
            /\ \A k \in Starts(s) : k < NextWord(s, i) => k <= i
        BY <1>5, WordsFollow
      <3>2. PICK e : e = NextWord(s, i)
        OBVIOUS
      <3>3. \A k \in Starts(s) : k < e <=> (k < i \/ k = i)
        BY <1>0, <3>1, <3>2
      <3>4. Less(e) = Less(i) \cup {i}
        BY <1>5, <3>3
      <3> QED BY <3>2, <3>4
    <2> HIDE DEF Less
    <2> QED BY <1>2, <1>3, <1>5, <2>1
  <1>6. Rank(s, 1) = 0
    <2>1. Less(1) = {}
      BY <1>0
    <2> QED BY <1>2, <2>1, FS_EmptySet
  <1>7. Rank(s, i) \in 0..Len(s)
    <2> HIDE DEF Less
    <2> QED BY <1>0, <1>1, <1>2
  <1> QED BY <1>4, <1>5, <1>6, <1>7

\* The words of a path: one for each number, up to the last.
LEMMA WordsNumbered ==
  ASSUME NEW s \in Seq(Int), NEW i, Begins(s, i)
  PROVE  /\ i \in 1..Len(s) + 1 /\ \A w \in WordsAt(s) : w[1] \in Nat
         /\ i \in Starts(s) =>
              /\ <<Rank(s, i), WordAt(s, i)>> \in WordsAt(s)
              /\ \A w \in WordsAt(s) : w[1] = Rank(s, i) => w = <<Rank(s, i), WordAt(s, i)>>
         /\ i = Len(s) + 1 => \A w \in WordsAt(s) : w[1] < Rank(s, i)
  <1>0. Len(s) \in Nat /\ Starts(s) \subseteq 1..Len(s)
    BY DEF Starts, Numbered
  <1>1. i \in 1..Len(s) + 1
    BY <1>0 DEF Begins
  <1>2. WordsAt(s) = {<<Rank(s, k), WordAt(s, k)>> : k \in Starts(s)}
    <2>1. \A k \in Starts(s) : Word(s, k) = WordAt(s, k)
      BY WordsFollow
    <2> QED BY <2>1 DEF WordsAt, Rank
  <1>3. \A k \in 1..Len(s) + 1 : Rank(s, k) \in Nat
    BY <1>0, RankIs
  <1>4. \A w \in WordsAt(s) : w[1] \in Nat
    BY <1>0, <1>2, <1>3
  <1>5. ASSUME i \in Starts(s), NEW k \in Starts(s), Rank(s, k) = Rank(s, i) PROVE k = i
    <2>1. k \in 1..Len(s) + 1 /\ k \in Nat /\ i \in Nat
      BY <1>0, <1>1
    <2>2. k < i => Rank(s, k) < Rank(s, i)
      BY <1>1, RankIs
    <2>3. i < k => Rank(s, i) < Rank(s, k)
      BY <1>5, <2>1, RankIs
    <2> QED BY <1>1, <1>3, <1>5, <2>1, <2>2, <2>3
  <1>6. ASSUME i = Len(s) + 1, NEW k \in Starts(s) PROVE Rank(s, k) < Rank(s, i)
    <2>1. k < i
      BY <1>0, <1>6
    <2> QED BY <1>1, <2>1, RankIs
  <1> QED BY <1>1, <1>2, <1>4, <1>5, <1>6

\* Earlier, by the words from number n on.
EarlierFrom(a, b, n) ==
  \E m \in n..Len(b) :
    /\ {w \in WordsAt(a) : n <= w[1] /\ w[1] < m} = {w \in WordsAt(b) : n <= w[1] /\ w[1] < m}
    /\ \E w \in WordsAt(b) : /\ w[1] = m
                             /\ \A v \in WordsAt(a) : v[1] = m => Before(v[2], w[2])

\* It is a matter of the first words that differ.
LEMMA EarlierSteps ==
  ASSUME NEW a \in Seq(Int), NEW b \in Seq(Int), NEW i, NEW j, NEW n,
         Begins(a, i), Begins(b, j), Rank(a, i) = n, Rank(b, j) = n
  PROVE  /\ i > Len(a) \/ j > Len(b) => (EarlierFrom(a, b, n) <=> i > Len(a) /\ j <= Len(b))
         /\ ~(i > Len(a) \/ j > Len(b)) =>
              /\ WordAt(a, i) = WordAt(b, j)
                   => (EarlierFrom(a, b, n) <=> EarlierFrom(a, b, n + 1))
              /\ WordAt(a, i) # WordAt(b, j)
                   => (EarlierFrom(a, b, n) <=> Before(WordAt(a, i), WordAt(b, j)))
  <1>0. /\ Len(a) \in Nat /\ Len(b) \in Nat /\ i \in 1..Len(a) + 1 /\ j \in 1..Len(b) + 1
        /\ n \in 0..Len(b)
        /\ i <= Len(a) => i \in Starts(a)
        /\ i > Len(a) => i = Len(a) + 1
        /\ j <= Len(b) => j \in Starts(b)
        /\ j > Len(b) => j = Len(b) + 1
    <2>1. i \in 1..Len(a) + 1 /\ j \in 1..Len(b) + 1
      BY WordsNumbered
    <2>2. n \in 0..Len(b)
      BY <2>1, RankIs
    <2> QED BY <2>1, <2>2 DEF Begins
  <1>1. PICK v, w : v = <<n, WordAt(a, i)>> /\ w = <<n, WordAt(b, j)>>
    OBVIOUS
  <1>2. /\ \A x \in WordsAt(a) : x[1] \in Nat
        /\ \A x \in WordsAt(b) : x[1] \in Nat
        /\ v[1] = n /\ v[2] = WordAt(a, i) /\ w[1] = n /\ w[2] = WordAt(b, j)
    BY <1>1, WordsNumbered
  <1>3. /\ i <= Len(a) => v \in WordsAt(a) /\ \A x \in WordsAt(a) : x[1] = n => x = v
        /\ i > Len(a) => \A x \in WordsAt(a) : x[1] < n
    BY <1>0, <1>1, WordsNumbered
  <1>4. /\ j <= Len(b) => w \in WordsAt(b) /\ \A x \in WordsAt(b) : x[1] = n => x = w
        /\ j > Len(b) => \A x \in WordsAt(b) : x[1] < n
    BY <1>0, <1>1, WordsNumbered
  <1>5. CASE j > Len(b)
    <2>1. ASSUME NEW m \in n..Len(b), NEW x \in WordsAt(b), x[1] = m PROVE FALSE
      BY <1>0, <1>2, <1>4, <1>5, <2>1
    <2>2. ~EarlierFrom(a, b, n)
      BY <2>1 DEF EarlierFrom
    <2> QED BY <1>0, <1>5, <2>2
  <1>6. CASE i > Len(a) /\ ~(j > Len(b))
    <2>1. /\ {x \in WordsAt(a) : n <= x[1] /\ x[1] < n} = {}
          /\ {x \in WordsAt(b) : n <= x[1] /\ x[1] < n} = {}
      BY <1>0, <1>2
    <2>2. j <= Len(b) /\ n \in n..Len(b)
      BY <1>0, <1>6
    <2>3. \A x \in WordsAt(a) : x[1] # n
      BY <1>0, <1>2, <1>3, <1>6
    <2>4. EarlierFrom(a, b, n)
      BY <1>2, <1>4, <2>1, <2>2, <2>3 DEF EarlierFrom
    <2> QED BY <1>6, <2>2, <2>4
  <1>7. CASE ~(i > Len(a) \/ j > Len(b))
    <2>0. /\ v \in WordsAt(a) /\ \A x \in WordsAt(a) : x[1] = n => x = v
          /\ w \in WordsAt(b) /\ \A x \in WordsAt(b) : x[1] = n => x = w
      BY <1>0, <1>3, <1>4, <1>7
    <2> DEFINE A(k, m) == {x \in WordsAt(a) : k <= x[1] /\ x[1] < m}
               B(k, m) == {x \in WordsAt(b) : k <= x[1] /\ x[1] < m}
               Settles(m) == \E x \in WordsAt(b) :
                               /\ x[1] = m
                               /\ \A y \in WordsAt(a) : y[1] = m => Before(y[2], x[2])
    <2>1. \A k : EarlierFrom(a, b, k) <=> \E m \in k..Len(b) : A(k, m) = B(k, m) /\ Settles(m)
      BY DEF EarlierFrom
    <2>2. Settles(n) <=> Before(WordAt(a, i), WordAt(b, j))
      BY <1>2, <2>0
    <2>3. ASSUME NEW m \in n..Len(b), m # n
          PROVE  /\ v \in A(n, m) /\ w \in B(n, m) /\ (v \in B(n, m) => v = w)
                 /\ A(n, m) = A(n + 1, m) \cup {v} /\ v \notin A(n + 1, m)
                 /\ B(n, m) = B(n + 1, m) \cup {w} /\ w \notin B(n + 1, m)
                 /\ m \in n + 1..Len(b)
      <3>1. n \in Nat /\ m \in Nat /\ n < m /\ m \in n + 1..Len(b)
        BY <1>0, <2>3
      <3>2. \A k \in Nat : /\ n <= k /\ k < m <=> (n + 1 <= k /\ k < m) \/ k = n
                           /\ ~(n + 1 <= n)
        BY <3>1
      <3>3. A(n, m) = A(n + 1, m) \cup {v} /\ v \notin A(n + 1, m)
        BY <1>2, <2>0, <3>1, <3>2
      <3>4. B(n, m) = B(n + 1, m) \cup {w} /\ w \notin B(n + 1, m)
        BY <1>2, <2>0, <3>1, <3>2
      <3>5. v \in B(n, m) => v = w
        BY <1>2, <2>0
      <3> HIDE DEF A, B
      <3> QED BY <3>1, <3>3, <3>4, <3>5
    <2>4. n \in n..Len(b) /\ A(n, n) = B(n, n) /\ \A m \in n + 1..Len(b) : m \in n..Len(b) /\ m # n
      <3>1. n \in n..Len(b) /\ \A m \in n + 1..Len(b) : m \in n..Len(b) /\ m # n
        BY <1>0
      <3>2. A(n, n) = {} /\ B(n, n) = {}
        BY <1>0, <1>2
      <3> HIDE DEF A, B
      <3> QED BY <3>1, <3>2
    <2> HIDE DEF A, B, Settles
    <2>5. CASE WordAt(a, i) = WordAt(b, j)
      <3>1. v = w /\ ~Settles(n)
        <4>1. WordAt(a, i) \in Int \X Int
          BY <1>0, <1>7, WordIs
        <4>2. ~Before(WordAt(a, i), WordAt(a, i))
          BY <4>1, BeforeOrders
        <4> QED BY <1>1, <2>2, <2>5, <4>2
      <3>2. ASSUME NEW m \in n..Len(b), m # n
            PROVE  A(n, m) = B(n, m) <=> A(n + 1, m) = B(n + 1, m)
        <4>1. A(n + 1, m) = A(n, m) \ {v} /\ B(n + 1, m) = B(n, m) \ {v}
          BY <2>3, <3>1, <3>2
        <4> QED BY ONLY <2>3, <3>1, <3>2, <4>1
      <3>3. (\E m \in n..Len(b) : A(n, m) = B(n, m) /\ Settles(m))
              <=> \E m \in n + 1..Len(b) : A(n + 1, m) = B(n + 1, m) /\ Settles(m)
        BY <2>3, <2>4, <3>1, <3>2
      <3> QED BY <1>7, <2>1, <2>5, <3>3
    <2>6. CASE WordAt(a, i) # WordAt(b, j)
      <3>1. v # w
        BY <1>2, <2>6
      <3>2. \A m \in n..Len(b) : m # n => A(n, m) # B(n, m)
        BY <2>3, <3>1
      <3>3. (\E m \in n..Len(b) : A(n, m) = B(n, m) /\ Settles(m)) <=> Settles(n)
        BY <2>4, <3>2
      <3> QED BY <1>7, <2>1, <2>2, <2>6, <3>3
    <2> QED BY <2>5, <2>6
  <1> QED BY <1>5, <1>6, <1>7

\* versionLess tells what the dictionary says.
THEOREM VersionsAreWords ==
  ASSUME NEW a \in Seq(Int), NEW b \in Seq(Int) PROVE VersionLess(a, b) <=> Earlier(a, b)
  <1>1. PICK less : VersionLess(a, b) = less[<<1, 1>>] /\ Compares(less, a, b)
    BY LessIs
  <1> DEFINE Has(n) == \A i, j : Begins(a, i) /\ Begins(b, j) /\ Rank(a, i) = Rank(b, j) /\
                                 i + n > Len(a)
                         => (less[<<i, j>>] <=> EarlierFrom(a, b, Rank(a, i)))
             N == {n \in Nat : Has(n)}
  <1>0. Len(a) \in Nat /\ Len(b) \in Nat
    OBVIOUS
  <1>2. ASSUME NEW i, NEW j, Begins(a, i), Begins(b, j), Rank(a, i) = Rank(b, j),
               i > Len(a) \/ j > Len(b)
        PROVE  less[<<i, j>>] <=> EarlierFrom(a, b, Rank(a, i))
    <2>1. i \in 1..Len(a) + 1 /\ j \in 1..Len(b) + 1
      BY <1>2, WordsNumbered
    <2>2. less[<<i, j>>] <=> i > Len(a) /\ j <= Len(b)
      BY <1>1, <1>2, <2>1, ComparesAt
    <2>3. EarlierFrom(a, b, Rank(a, i)) <=> i > Len(a) /\ j <= Len(b)
      BY <1>2, EarlierSteps
    <2> QED BY <2>2, <2>3
  <1>3. Has(0)
    <2>1. \A i : Begins(a, i) /\ i + 0 > Len(a) => i > Len(a)
      <3>1. \A i : Begins(a, i) => i \in 1..Len(a) + 1
        BY WordsNumbered
      <3> QED BY <1>0, <3>1
    <2> QED BY <1>2, <2>1
  <1>4. ASSUME NEW n \in Nat, Has(n) PROVE Has(n + 1)
    <2> SUFFICES ASSUME NEW i, NEW j, Begins(a, i), Begins(b, j), Rank(a, i) = Rank(b, j),
                        i + (n + 1) > Len(a), ~(i > Len(a) \/ j > Len(b))
                 PROVE  less[<<i, j>>] <=> EarlierFrom(a, b, Rank(a, i))
      BY <1>2
    <2>1. /\ i \in Starts(a) /\ i \in 1..Len(a) /\ i \in 1..Len(a) + 1
          /\ j \in Starts(b) /\ j \in 1..Len(b) /\ j \in 1..Len(b) + 1
      <3>1. i \in 1..Len(a) + 1 /\ j \in 1..Len(b) + 1
        BY WordsNumbered
      <3> QED BY <1>0, <3>1 DEF Begins
    <2>2. PICK i2, j2 : i2 = NextWord(a, i) /\ j2 = NextWord(b, j)
      OBVIOUS
    <2>3. /\ i2 \in i + 1..Len(a) + 1 /\ Begins(a, i2) /\ Begins(b, j2)
          /\ Rank(a, i2) = Rank(a, i) + 1 /\ Rank(b, j2) = Rank(a, i) + 1
      BY <2>1, <2>2, WordsFollow, RankIs
    <2>4. i2 + n > Len(a)
      BY <1>0, <2>1, <2>3
    <2>5. less[<<i2, j2>>] <=> EarlierFrom(a, b, Rank(a, i) + 1)
      BY <1>4, <2>3, <2>4
    <2>6. CASE WordAt(a, i) = WordAt(b, j)
      <3>1. less[<<i, j>>] <=> less[<<i2, j2>>]
        BY <1>1, <2>1, <2>2, <2>6, ComparesAt
      <3>2. EarlierFrom(a, b, Rank(a, i)) <=> EarlierFrom(a, b, Rank(a, i) + 1)
        BY <2>6, EarlierSteps
      <3> QED BY <2>5, <3>1, <3>2
    <2>7. CASE WordAt(a, i) # WordAt(b, j)
      <3>1. less[<<i, j>>] <=> Before(WordAt(a, i), WordAt(b, j))
        BY <1>1, <2>1, <2>7, ComparesAt
      <3>2. EarlierFrom(a, b, Rank(a, i)) <=> Before(WordAt(a, i), WordAt(b, j))
        BY <2>7, EarlierSteps
      <3> QED BY <3>1, <3>2
    <2> QED BY <2>6, <2>7
  <1>5. N = Nat
    <2> HIDE DEF Has
    <2>1. N \in SUBSET Nat /\ 0 \in N /\ \A n \in N : n + 1 \in N
      BY <1>3, <1>4
    <2> HIDE DEF N
    <2> QED BY <2>1, SetInduction
  <1>6. Has(Len(a))
    <2> HIDE DEF Has
    <2> QED BY <1>0, <1>5
  <1>7. Begins(a, 1) /\ Begins(b, 1)
    <2>1. ASSUME NEW s \in Seq(Int) PROVE Begins(s, 1)
      <3>1. CASE s = <<>>
        BY <3>1 DEF Begins
      <3>2. CASE s # <<>>
        BY <3>2 DEF Begins, Starts, Numbered
      <3> QED BY <3>1, <3>2
    <2> QED BY <2>1
  <1>8. Rank(a, 1) = 0 /\ Rank(b, 1) = 0 /\ 1 + Len(a) > Len(a)
    <2>1. 1 \in 1..Len(a) + 1 /\ 1 \in 1..Len(b) + 1 /\ 1 + Len(a) > Len(a)
      BY <1>0
    <2> QED BY <2>1, RankIs
  <1>9. less[<<1, 1>>] <=> EarlierFrom(a, b, 0)
    BY <1>6, <1>7, <1>8
  <1>10. EarlierFrom(a, b, 0) <=> Earlier(a, b)
    <2>0. /\ \A w \in WordsAt(a) : w[1] \in Nat
          /\ \A w \in WordsAt(b) : w[1] \in Nat
      BY <1>7, WordsNumbered
    <2>1. /\ \A w \in WordsAt(a) : 0 <= w[1]
          /\ \A w \in WordsAt(b) : 0 <= w[1]
      BY ONLY <2>0
    <2>2. \A m : /\ {w \in WordsAt(a) : 0 <= w[1] /\ w[1] < m} = {w \in WordsAt(a) : w[1] < m}
                 /\ {w \in WordsAt(b) : 0 <= w[1] /\ w[1] < m} = {w \in WordsAt(b) : w[1] < m}
      BY <2>1
    <2> QED BY <2>2 DEF EarlierFrom, Earlier
  <1> QED BY <1>1, <1>9, <1>10
-----------------------------------------------------------------------------
(* RunnerChoice: the Proton of a prefix.                                   *)

\* Nobody asks for a runner.
NoWish == Wanted = None /\ host.option = Blank

\* What nobody asks for is the prefix's Proton, or the one in its place.
Unasked ==
  /\ umuRun => ~WinePrefix
  /\ /\ pc \in {"autorun", "option", "umu"} /\ NoWish
     /\ (prefixProton # Blank /\ host.protons # {}) \/ autoProton
     => host.protons # {} /\ wineBinary = FindProtonRunner(prefixProton)
  /\ pc \in {"arch", "play"} /\ Wanted = None =>
       /\ prefixProton # Blank /\ host.protons # {} /\ (pc = "play" => wineArch # "win32") =>
            Runs = FindProtonRunner(prefixProton) /\ umuRun = host.umu
       /\ autoProton /\ umuRun
            => host.protons # {} /\ protonDir = FindProtonRunner(prefixProton)

\* lastVersion finds a Proton of a set that none of the others is later than.
LEMMA LastIs ==
  ASSUME NEW S \in SUBSET Protons, S # {}
  PROVE  LET last == LastVersion({Path[p] : p \in S})
         IN  /\ \E p \in S : Path[p] = last
             /\ \A p, q \in S : Path[p] = last => ~Earlier(Path[p], Path[q])
  <1> DEFINE Greatest(T, b) == b \in T /\ \A q \in T : ~VersionLess(Path[b], Path[q])
             Has(n) == \A T \in SUBSET Protons : T # {} /\ Cardinality(T) = n
               => \E b \in T : Greatest(T, b)
             N == {n \in Nat : Has(n)}
  <1>0. \A p \in Protons : Path[p] \in Seq(Int)
    BY ProtonAssumption
  <1>1. /\ \A p \in Protons : ~VersionLess(Path[p], Path[p])
        /\ \A p, q \in Protons : VersionLess(Path[p], Path[q]) <=> Earlier(Path[p], Path[q])
    BY <1>0, ThreeVersions, VersionsAreWords
  <1>2. \A p, q, r \in Protons : VersionLess(Path[p], Path[q]) /\ VersionLess(Path[q], Path[r])
                                   => VersionLess(Path[p], Path[r])
    BY <1>0, ThreeVersions
  <1>3. \A T \in SUBSET Protons : IsFiniteSet(T) /\ Cardinality(T) \in Nat
    BY FS_Subset, FS_CardinalityType, ProtonAssumption
  <1>4. Has(0)
    BY <1>3, FS_EmptySet
  <1>5. ASSUME NEW n \in Nat, Has(n) PROVE Has(n + 1)
    <2> SUFFICES ASSUME NEW T \in SUBSET Protons, T # {}, Cardinality(T) = n + 1
                 PROVE  \E b \in T : Greatest(T, b)
      OBVIOUS
    <2>1. PICK x \in T : TRUE
      OBVIOUS
    <2>2. Cardinality(T \ {x}) = n
      <3>1. Cardinality(T \ {x}) = Cardinality(T) - 1
        BY <1>3, FS_RemoveElement
      <3> QED BY <3>1
    <2>3. ~VersionLess(Path[x], Path[x])
      BY <1>1
    <2>4. CASE T \ {x} = {}
      BY <2>3, <2>4
    <2>5. CASE T \ {x} # {}
      <3>1. PICK b \in T \ {x} : Greatest(T \ {x}, b)
        BY <1>5, <2>2, <2>5
      <3>2. CASE VersionLess(Path[b], Path[x])
        <4>1. \A q \in T : ~VersionLess(Path[x], Path[q])
          <5> SUFFICES ASSUME NEW q \in T, VersionLess(Path[x], Path[q]) PROVE FALSE
            OBVIOUS
          <5>1. VersionLess(Path[b], Path[q])
            BY <1>2, <3>2
          <5> QED BY <2>3, <3>1, <5>1
        <4> QED BY <4>1
      <3>3. CASE ~VersionLess(Path[b], Path[x])
        BY <3>1, <3>3
      <3> QED BY <3>2, <3>3
    <2> QED BY <2>4, <2>5
  <1>6. Has(Cardinality(S))
    <2> HIDE DEF Has
    <2>1. N \in SUBSET Nat /\ 0 \in N
      BY <1>4
    <2>2. \A n \in N : n + 1 \in N
      BY <1>5
    <2>3. N = Nat
      BY <2>1, <2>2, SetInduction
    <2> QED BY <1>3, <2>3
  <1>7. PICK b \in S : Greatest(S, b)
    BY <1>6
  <1> DEFINE paths == {Path[p] : p \in S}
             last == LastVersion(paths)
  <1>8. last \in paths /\ \A q \in paths : ~VersionLess(last, q)
    BY <1>7 DEF LastVersion
  <1>9. ASSUME NEW p \in S, NEW q \in S, Path[p] = last PROVE ~Earlier(Path[p], Path[q])
    <2>1. ~VersionLess(Path[p], Path[q])
      BY <1>8, <1>9
    <2> QED BY <1>1, <2>1
  <1> QED BY <1>8, <1>9

\* findProtonRunner finds the wanted Proton, or the newest of the preferred family, or
\* the first there is.
LEMMA FoundProton ==
  ASSUME LayersInv, host.protons # {}, NEW want
  PROVE LET found == FindProtonRunner(want)
        IN  /\ found = Runner("machine", found.name) /\ found.name \in Protons
            /\ found.name = want \/ (want \notin host.protons /\ Substitute(found.name))
  <1>1. CASE want \in host.protons
    BY <1>1, LaunchHost, RunnerNames DEF FindProtonRunner
  <1>2. CASE want \notin host.protons /\ Preferred = {}
    BY <1>2, LaunchHost, RunnerNames DEF FindProtonRunner, Substitute
  <1>3. CASE want \notin host.protons /\ Preferred # {}
    <2> DEFINE last == LastVersion({Path[p] : p \in Preferred})
               best == CHOOSE p \in Preferred : Path[p] = last
    <2>1. Preferred \in (SUBSET Protons) \ {{}}
      BY <1>3, LaunchHost DEF Preferred
    <2>2. /\ \E p \in Preferred : Path[p] = last
          /\ \A p, q \in Preferred : Path[p] = last => ~Earlier(Path[p], Path[q])
      BY <2>1, LastIs
    <2>3. best \in Preferred /\ Path[best] = last
      BY <2>2
    <2>4. FindProtonRunner(want) = Runner("machine", best)
      BY <1>3 DEF FindProtonRunner
    <2>5. Newest(best) /\ best \in Protons
      BY <2>1, <2>2, <2>3 DEF Newest
    <2> QED BY <1>3, <2>4, <2>5, RunnerNames DEF Substitute
  <1> QED BY <1>1, <1>2, <1>3

\* If nobody asks for a runner, no key names one.
LEMMA NothingNamed ==
  ASSUME LayersInv, KeysRead, pc \in {"prefix", "autorun", "option", "umu"}, NoWish
  PROVE  runnerKey = Blank /\ protonVersion = Blank /\ wineVersion = Blank
  <1>1. Ask("RUNNER") = Blank /\ AsksNothing /\ FindImageRunner(Single) = None
    BY PlacesDiffer DEF NoWish, Wanted, AsksNothing
  <1>2. Single = Blank
    BY <1>1, SingleIs, PlacesDiffer DEF FindImageRunner
  <1> QED BY <1>1, <1>2 DEF KeysRead

\* What findProtonRunner finds changes only with the launch.
LEMMA SameFound ==
  launch' = launch
    => Preferred' = Preferred /\ \A want : FindProtonRunner(want)' = FindProtonRunner(want)
  <1> SUFFICES ASSUME launch' = launch
               PROVE Preferred' = Preferred
                     /\ \A want : FindProtonRunner(want)' = FindProtonRunner(want)
    OBVIOUS
  <1>1. host' = host
    BY DEF host
  <1>2. Preferred' = Preferred
    BY <1>1 DEF Preferred
  <1> QED BY <1>1, <1>2 DEF FindProtonRunner

\* A launch begins in Unasked.
LEMMA InitUnasked == RunnerInit => Unasked
  BY DEF RunnerInit, Unasked

\* Every step of selectRunner keeps Unasked.
LEMMA UnaskedSteps == RunnerInv /\ Unasked /\ [RunnerNext]_runnerVars => Unasked'
  <1> SUFFICES ASSUME RunnerInv, Unasked, [RunnerNext]_runnerVars PROVE Unasked'
    OBVIOUS
  <1>0. /\ LayersInv /\ KeysRead /\ PrefixSeen /\ ForcedSeen /\ Choosing
    BY DEF RunnerInv
  <1>a. launch' = launch
    BY DEF RunnerNext, runnerVars, ReadLayers, ReadLayer, ReadAutorun, ResolveImageRunner,
               ChooseProtonDefault, ApplyAutorunRunner, ApplyWineOption, SetupUmu,
               EnsureWin32Runner, Over
  <1>b. /\ host' = host /\ Wanted' = Wanted /\ NoWish' = NoWish /\ SystemReg' = SystemReg
        /\ \A want : FindProtonRunner(want)' = FindProtonRunner(want)
    BY <1>a, SameAsked, SameFound DEF NoWish, SystemReg
  <1>1. CASE ReadLayers \/ ReadAutorun \/ ResolveImageRunner
    <2>1. ~umuRun /\ ~umuRun' /\ pc' \in {"layers", "image", "prefix", "refused"}
      BY <1>0, <1>1 DEF ReadLayers, ReadAutorun, ResolveImageRunner, Step, Choosing, choice
    <2> QED BY <2>1 DEF Unasked
  <1>4. CASE ChooseProtonDefault
    <2>1. pc = "prefix" /\ pc' = "autorun" /\ ~umuRun'
      BY <1>0, <1>4 DEF ChooseProtonDefault, Step, Choosing
    <2>2. ASSUME NoWish, (prefixProton' # Blank /\ host.protons # {}) \/ autoProton'
          PROVE host.protons # {} /\ wineBinary' = FindProtonRunner(prefixProton)'
      <3>1. protonVersion = Blank
        BY <1>0, <2>1, <2>2, NothingNamed
      <3>2. FindProtonRunner(prefixProton') # None
              => wineBinary' = FindProtonRunner(prefixProton')
        BY <1>4, <2>2, <3>1 DEF ChooseProtonDefault
      <3>3. host.protons # {} => FindProtonRunner(prefixProton') # None
        BY PlacesDiffer DEF FindProtonRunner
      <3>4. host.protons # {}
        BY <1>0, <1>4, <2>2, <3>1 DEF ChooseProtonDefault, FindProtonRunner
      <3> QED BY <1>b, <3>2, <3>3, <3>4
    <2> QED BY <1>b, <2>1, <2>2 DEF Unasked
  <1>5. CASE ApplyAutorunRunner \/ ApplyWineOption
    <2>1. /\ pc \in {"autorun", "option"} /\ pc' \in {"option", "umu", "refused"}
          /\ UNCHANGED <<prefixProton, autoProton, umuRun>> /\ ~umuRun'
      BY <1>0, <1>5 DEF ApplyAutorunRunner, ApplyWineOption, Step, Choosing
    <2>2. NoWish /\ pc' # "refused" => wineBinary' = wineBinary
      BY <1>0, <1>5, <2>1, NothingNamed DEF ApplyAutorunRunner, ApplyWineOption, Names, NoWish
    <2> QED BY <1>b, <2>1, <2>2 DEF Unasked
  <1>7. CASE SetupUmu
    <2>1. /\ pc = "umu" /\ pc' = "arch" /\ umuRun = FALSE
          /\ UNCHANGED <<prefixProton, overrideProton, autoProton, forcedWine>>
      BY <1>0, <1>7 DEF SetupUmu, Step, Choosing
    <2>2. umuRun' => ~WinePrefix'
      BY <1>7, <1>b, <2>1 DEF SetupUmu, WinePrefix
    <2>3. ASSUME Wanted = None PROVE NoWish /\ ~forcedWine
      <3>1. NoWish
        BY <1>0, <2>1, <2>3 DEF Choosing, NoWish
      <3> QED BY <1>0, <2>1, <3>1, NothingNamed DEF ForcedSeen, Forced, NoWish
    <2>4. ASSUME Wanted = None, prefixProton # Blank, host.protons # {}
          PROVE Runs' = FindProtonRunner(prefixProton) /\ umuRun' = host.umu
      <3>1. wineBinary = FindProtonRunner(prefixProton) /\ ~autoProton
        BY <1>0, <2>1, <2>3, <2>4 DEF Unasked, PrefixSeen
      <3>2. ProtonDirOf(wineBinary) = wineBinary /\ wineBinary # None
        BY <1>0, <2>4, <3>1, FoundProton, PlacesDiffer
      <3>3. ProtonWanted /\ ~WinePrefix /\ (UmuCan <=> host.umu)
        BY <2>3, <2>4, <3>2 DEF ProtonWanted, WinePrefix, UmuCan
      <3>4. CASE UmuCan
        BY <1>7, <3>1, <3>2, <3>3, <3>4 DEF SetupUmu, Runs
      <3>5. CASE ~UmuCan
        BY <1>0, <1>7, <2>1, <3>1, <3>3, <3>5, LaunchHost DEF SetupUmu, Runs
      <3> QED BY <3>4, <3>5
    <2>5. ASSUME Wanted = None, autoProton, umuRun'
          PROVE host.protons # {} /\ protonDir' = FindProtonRunner(prefixProton)
      <3>1. host.protons # {} /\ wineBinary = FindProtonRunner(prefixProton)
        BY <2>1, <2>3, <2>5 DEF Unasked
      <3>2. ProtonDirOf(wineBinary) = wineBinary
        BY <1>0, <3>1, FoundProton, PlacesDiffer
      <3>3. protonDir' = ProtonDirOf(wineBinary)
        BY <1>7, <2>1, <2>5 DEF SetupUmu
      <3> QED BY <3>1, <3>2, <3>3
    <2> QED BY <1>b, <2>1, <2>2, <2>4, <2>5 DEF Unasked
  <1>8. CASE EnsureWin32Runner
    <2>1. /\ pc = "arch" /\ pc' \in {"play", "refused"}
          /\ UNCHANGED <<prefixProton, autoProton, umuRun, protonDir>>
      BY <1>8 DEF EnsureWin32Runner, Step
    <2>2. pc' = "play" /\ wineArch' # "win32" => Runs' = Runs
      BY <1>8, <2>1 DEF EnsureWin32Runner, Runs
    <2>3. umuRun' => ~WinePrefix'
      BY <1>b, <2>1 DEF Unasked, WinePrefix
    <2> QED BY <1>b, <2>1, <2>2, <2>3 DEF Unasked
  <1>9. CASE Over \/ UNCHANGED runnerVars
    <2>1. UNCHANGED <<pc, keys, choice>>
      BY <1>9 DEF Over, runnerVars
    <2> QED BY <1>b, <2>1 DEF Unasked, WinePrefix, Runs, keys, choice
  <1> QED BY <1>1, <1>4, <1>5, <1>7, <1>8, <1>9 DEF RunnerNext

\* The Proton that made a prefix goes on with it; if it is gone, the newest of the first
\* family does, or of no family the one found first; and no prefix of Wine is handed to a
\* Proton, for any Protons (findProtonRunner, chooseProtonDefault, setupUmu).
THEOREM PrefixGoesOn == RunnerSpec => []PrefixKept
  <1>1. RunnerInv /\ Unasked => PrefixKept
    <2> SUFFICES ASSUME RunnerInv, Unasked PROVE PrefixKept
      OBVIOUS
    <2>0. LayersInv /\ PrefixSeen
      BY DEF RunnerInv
    <2>1. umuRun => ~WinePrefix
      BY DEF Unasked
    <2>2. ASSUME Plays, prefixProton # Blank, Wanted = None, host.protons # {},
                 wineArch # "win32"
          PROVE /\ ProtonDirOf(Runs) # None /\ umuRun = host.umu
                /\ Runs.name = prefixProton
                   \/ (prefixProton \notin host.protons /\ Substitute(Runs.name))
      <3>1. Runs = FindProtonRunner(prefixProton) /\ umuRun = host.umu
        BY <2>2 DEF Unasked, Plays
      <3> QED BY <2>0, <2>2, <3>1, FoundProton, PlacesDiffer
    <2>3. ASSUME Plays, autoProton, umuRun, Wanted = None PROVE Substitute(Runs.name)
      <3>1. Runs = FindProtonRunner(prefixProton) /\ host.protons # {}
        BY <2>3 DEF Unasked, Plays, Runs
      <3>2. prefixProton = Blank
        BY <2>0, <2>3 DEF PrefixSeen, Plays
      <3> QED BY <2>0, <3>1, <3>2, FoundProton, LaunchHost, ProtonAssumption
    <2> QED BY <2>1, <2>2, <2>3 DEF PrefixKept
  <1>2. RunnerInit => RunnerInv /\ Unasked
    BY InitRunner, InitUnasked
  <1>3. RunnerInv /\ Unasked /\ [RunnerNext]_runnerVars => (RunnerInv /\ Unasked)'
    BY RunnerSteps, UnaskedSteps
  <1> QED BY <1>1, <1>2, <1>3, PTL DEF RunnerSpec

-----------------------------------------------------------------------------
(* ExitPath.                                                               *)

\* Who holds signalGate and exitOnce: the signal goroutine keeps the gate from
\* the signal on, so cleanup never runs beside a gated mount.
HoldersFit ==
    /\ gate = "sig" <=> sig \in {"exit", "cleanup", "blocked"}
    /\ once = "sig" <=> sig = "cleanup"
    /\ once = "main" <=> main = "cleanup"
    /\ once = "free" <=> cl = "off"
    /\ exited # "free" => cl = "end"

\* The main thread has not made the game available yet.
MountingPc == GatedPc \cup {"start", "copysquash", "copying", "copyumount", "copied"}

\* What the mount points hold, by the point the mount and cleanup have reached.
MountsFit ==
    /\ main \in MountingPc => mode = "none"
    /\ main \in {"start", "squash", "copysquash", "copied"} => mounts = {}
    /\ main \in {"reload", "remount"} => setup.reloads /\ mode = "overlay"
    /\ mode = "none" /\ main # "mark" => "wine" \notin mounts
    /\ mode \in {"copy", "dir"} => mounts = {}
    /\ mode = "overlay" => mounted
    /\ cl = "ummnt" /\ mode = "overlay" /\ ~setup.reloads => "wine" \notin mounts
    /\ cl = "end" /\ mode = "overlay" /\ ~setup.reloads => mounts = {}

\* attachMu: while nobody holds it, a channel set to nil means that the ATTACH
\* goroutine is over.
AttachFit ==
    /\ main = "stopping" => attachMu = "main"
    /\ cl = "stopping" => attachMu = once
    /\ stopChan = "nil" /\ attachMu = "free" => attachGo \in {"none", "done"}
    /\ stopChan = "open" => closed = 0
    /\ closed <= 1
    /\ bridge = "run" => bridgePID \/ main = "bridge"

\* The main thread starts nothing any more: its own exit runs cleanup, or the
\* signal came during the game.
StartsNothing == once = "main" \/ sigAt \in GamePhase

\* What cleanup has stopped by then stays stopped.
StopsFit ==
    /\ StartsNothing => main \in GamePhase
    /\ StartsNothing /\ cl \in {"bridge", "wine", "waitwine", "umwine", "ummnt", "end"}
         => attachGo \in {"none", "done"}
    /\ StartsNothing /\ cl \in {"wine", "waitwine", "umwine", "ummnt", "end"} => bridge # "run"
    /\ StartsNothing /\ cl \in {"waitwine", "umwine", "ummnt", "end"} /\ mounted
         => wine = "none"

ExitInv == TypeOK /\ HoldersFit /\ MountsFit /\ AttachFit /\ StopsFit

\* A launcher starts in ExitInv: nothing is mounted, held or running.
LEMMA InitExit == Init => ExitInv
  <1> SUFFICES ASSUME Init PROVE ExitInv
    OBVIOUS
  <1>1. TypeOK
    <2>1. mounts \subseteq {"wine", "mnt"}
      BY DEF Init
    <2>2. setup \in Setup /\ pending \in BOOLEAN /\ exiting \in BOOLEAN
          /\ bridgePID \in BOOLEAN /\ mounted \in BOOLEAN
      BY DEF Init
    <2> QED
      BY <2>1, <2>2 DEF Init, TypeOK, MainPc, GatedPc, Holder
  <1>2. HoldersFit /\ MountsFit
    BY DEF Init, HoldersFit, MountsFit
  <1>3. AttachFit
    BY DEF Init, AttachFit
  <1>4. StopsFit
    BY DEF Init, StopsFit, StartsNothing, GamePhase
  <1> QED
    BY <1>1, <1>2, <1>3, <1>4 DEF ExitInv

\* One step of a thread, of a process of the prefix or of a signal keeps ExitInv.
LEMMA NextExit == ExitInv /\ [Next]_vars => ExitInv'
  <1> SUFFICES ASSUME ExitInv, [Next]_vars PROVE ExitInv'
    OBVIOUS
  <1> USE DEF ExitInv, TypeOK, HoldersFit, MountsFit, AttachFit, StopsFit, StartsNothing,
              MainPc, GatedPc, MountingPc, GamePhase, Holder, Thread, Running, threads, exit,
              attach, hidraw, helpers, game
  <1>1. CASE StartMount
    BY <1>1 DEF StartMount, At, Goto, FirstMount
  <1>2. CASE MountSquash
    <2>1. TypeOK'
      <3>1. mounts' \subseteq {"wine", "mnt"}
        BY <1>2 DEF MountSquash
      <3> QED
        BY <1>2, <3>1 DEF MountSquash, At, Goto
    <2>2. HoldersFit'
      BY <1>2 DEF MountSquash, At, Goto
    <2>3. MountsFit'
      BY <1>2 DEF MountSquash, At, Goto
    <2>4. AttachFit'
      BY <1>2 DEF MountSquash, At, Goto
    <2>5. StopsFit'
      BY <1>2 DEF MountSquash, At, Goto
    <2> QED
      BY <2>1, <2>2, <2>3, <2>4, <2>5
  <1>3. CASE MountOverlay
    <2>1. TypeOK'
      <3>1. mounts' \subseteq {"wine", "mnt"}
        BY <1>3 DEF MountOverlay
      <3> QED
        BY <1>3, <3>1 DEF MountOverlay, At, Goto, Die
    <2>2. HoldersFit'
      BY <1>3 DEF MountOverlay, At, Goto, Die
    <2>3. MountsFit'
      BY <1>3 DEF MountOverlay, At, Goto, Die
    <2>4. AttachFit'
      BY <1>3 DEF MountOverlay, At, Goto, Die
    <2>5. StopsFit'
      BY <1>3 DEF MountOverlay, At, Goto, Die
    <2> QED
      BY <2>1, <2>2, <2>3, <2>4, <2>5
  <1>4. CASE MarkMounted
    BY <1>4 DEF MarkMounted, At, Goto
  <1>5. CASE UndoSquash
    BY <1>5 DEF UndoSquash, At, Goto
  <1>6. CASE UseCopyMode
    <2>1. TypeOK'
      <3>1. mounts' \subseteq {"wine", "mnt"}
        BY <1>6 DEF UseCopyMode
      <3> QED
        BY <1>6, <3>1 DEF UseCopyMode, At, Goto, Die
    <2>2. HoldersFit'
      BY <1>6 DEF UseCopyMode, At, Goto, Die
    <2>3. MountsFit'
      BY <1>6 DEF UseCopyMode, At, Goto, Die
    <2>4. AttachFit'
      BY <1>6 DEF UseCopyMode, At, Goto, Die
    <2>5. StopsFit'
      BY <1>6 DEF UseCopyMode, At, Goto, Die
    <2> QED
      BY <2>1, <2>2, <2>3, <2>4, <2>5
  <1>7. CASE CopyImage
    BY <1>7 DEF CopyImage, At, Goto, Die
  <1>8. CASE CopyUmount
    BY <1>8 DEF CopyUmount, At, Goto
  <1>9. CASE MarkCopied
    BY <1>9 DEF MarkCopied, At, Goto
  <1>10. CASE StartTool
    BY <1>10 DEF StartTool, At, Goto, Die
  <1>11. CASE AfterTool
    BY <1>11 DEF AfterTool, At, Goto
  <1>12. CASE ReloadUmount
    BY <1>12 DEF ReloadUmount, At, Goto
  <1>13. CASE ReloadMount
    <2>1. TypeOK'
      <3>1. mounts' \subseteq {"wine", "mnt"}
        BY <1>13 DEF ReloadMount
      <3> QED
        BY <1>13, <3>1 DEF ReloadMount, At, Goto, Die
    <2>2. HoldersFit'
      BY <1>13 DEF ReloadMount, At, Goto, Die
    <2>3. MountsFit'
      BY <1>13 DEF ReloadMount, At, Goto, Die
    <2>4. AttachFit'
      BY <1>13 DEF ReloadMount, At, Goto, Die
    <2>5. StopsFit'
      BY <1>13 DEF ReloadMount, At, Goto, Die
    <2> QED
      BY <2>1, <2>2, <2>3, <2>4, <2>5
  <1>14. CASE StartBridge
    BY <1>14 DEF StartBridge, At, Goto, Die
  <1>15. CASE StoreBridge
    BY <1>15 DEF StoreBridge, At, Goto
  <1>16. CASE AwaitBridge
    <2>1. TypeOK'
      <3>1. bridgePID' \in BOOLEAN
        BY <1>16 DEF AwaitBridge, StopBridge
      <3>2. bridge' \in {"none", "run", "ended"}
        BY <1>16 DEF AwaitBridge, StopBridge
      <3> QED
        BY <1>16, <3>1, <3>2 DEF AwaitBridge, At, Goto
    <2>2. HoldersFit'
      BY <1>16 DEF AwaitBridge, At, Goto
    <2>3. MountsFit'
      BY <1>16 DEF AwaitBridge, At, Goto
    <2>4. AttachFit'
      BY <1>16 DEF AwaitBridge, At, Goto, StopBridge
    <2>5. StopsFit'
      BY <1>16 DEF AwaitBridge, At, Goto
    <2> QED
      BY <2>1, <2>2, <2>3, <2>4, <2>5
  <1>17. CASE SetRegistry
    BY <1>17 DEF SetRegistry, At, Goto
  <1>18. CASE RunPreCommand
    BY <1>18 DEF RunPreCommand, At, Goto, Die
  <1>19. CASE StartAttach
    BY <1>19 DEF StartAttach, At, Goto
  <1>20. CASE PlayGame
    BY <1>20 DEF PlayGame, At, Goto
  <1>21. CASE AfterGame
    BY <1>21 DEF AfterGame, At, Goto
  <1>22. CASE CheckSignal
    BY <1>22 DEF CheckSignal, At, Goto
  <1>23. CASE WaitWine
    BY <1>23 DEF WaitWine, At, Goto
  <1>24. CASE MainStopAttach
    <2>1. TypeOK'
      <3>1. closed' \in 0..2
        BY <1>24 DEF MainStopAttach, StopAttachBegin, StopAttachEnd
      <3>2. attachMu' \in Holder /\ attachGo' \in {"none", "search", "command", "done"}
        BY <1>24 DEF MainStopAttach, StopAttachBegin, StopAttachEnd
      <3>3. stopChan' \in {"nil", "open"} /\ main' \in MainPc
            /\ gate' = gate /\ gate # "main" /\ main' \notin GatedPc
        BY <1>24 DEF MainStopAttach, At, Goto, StopAttachBegin, StopAttachEnd
      <3>4. UNCHANGED <<setup, sig, pending, exiting, sigAt, gate, exit, hidraw,
                        mounted, mode, mounts, wine>>
        BY <1>24 DEF MainStopAttach, Goto, StopAttachBegin
      <3> QED
        BY <3>1, <3>2, <3>3, <3>4
    <2>2. HoldersFit'
      BY <1>24 DEF MainStopAttach, At, Goto, StopAttachBegin
    <2>3. MountsFit'
      BY <1>24 DEF MainStopAttach, At, Goto, StopAttachBegin
    <2>4. AttachFit'
      BY <1>24 DEF MainStopAttach, At, Goto, StopAttachBegin, StopAttachEnd
    <2>5. StopsFit'
      BY <1>24 DEF MainStopAttach, Goto, StopAttachBegin, StopAttachEnd
    <2> QED
      BY <2>1, <2>2, <2>3, <2>4, <2>5
  <1>25. CASE MainExit
    BY <1>25 DEF MainExit, At, Goto, OnceEnter, OncePc
  <1>26. CASE TakeSignal
    <2>1. TypeOK'
      <3>1. pending' \in BOOLEAN /\ exiting' \in BOOLEAN
        BY <1>26 DEF TakeSignal
      <3> QED
        BY <1>26, <3>1 DEF TakeSignal
    <2>2. HoldersFit'
      BY <1>26 DEF TakeSignal, SigAt
    <2>3. MountsFit'
      BY <1>26 DEF TakeSignal
    <2>4. AttachFit'
      BY <1>26 DEF TakeSignal
    <2>5. StopsFit'
      BY <1>26 DEF TakeSignal, SigAt
    <2> QED
      BY <2>1, <2>2, <2>3, <2>4, <2>5
  <1>27. CASE TakeGate
    BY <1>27 DEF TakeGate
  <1>28. CASE SigExit
    BY <1>28 DEF SigExit, SigAt, OnceEnter, OncePc
  <1>29. CASE CleanupAttach
    <2>1. TypeOK'
      <3>1. closed' \in 0..2
        BY <1>29 DEF CleanupAttach, StopAttachBegin, StopAttachEnd
      <3>2. attachMu' \in Holder /\ attachGo' \in {"none", "search", "command", "done"}
        BY <1>29 DEF CleanupAttach, StopAttachBegin, StopAttachEnd
      <3>3. stopChan' \in {"nil", "open"} /\ cl' \in {"stopping", "bridge"}
        BY <1>29 DEF CleanupAttach, Cl, StopAttachBegin, StopAttachEnd
      <3>4. UNCHANGED <<threads, gate, once, exited, hidraw, game>>
        BY <1>29 DEF CleanupAttach, Cl, StopAttachBegin
      <3> QED
        BY <3>1, <3>2, <3>3, <3>4
    <2>2. HoldersFit'
      BY <1>29 DEF CleanupAttach, ClAt, Cl, StopAttachBegin
    <2>3. MountsFit'
      BY <1>29 DEF CleanupAttach, Cl, StopAttachBegin
    <2>4. AttachFit'
      BY <1>29 DEF CleanupAttach, ClAt, Cl, StopAttachBegin, StopAttachEnd
    <2>5. StopsFit'
      BY <1>29 DEF CleanupAttach, Cl, StopAttachBegin, StopAttachEnd
    <2> QED
      BY <2>1, <2>2, <2>3, <2>4, <2>5
  <1>30. CASE CleanupBridge
    <2>1. TypeOK'
      <3>1. bridgePID' \in BOOLEAN
        BY <1>30 DEF CleanupBridge, StopBridge
      <3>2. bridge' \in {"none", "run", "ended"}
        BY <1>30 DEF CleanupBridge, StopBridge
      <3> QED
        BY <1>30, <3>1, <3>2 DEF CleanupBridge, Cl
    <2>2. HoldersFit'
      BY <1>30 DEF CleanupBridge, ClAt, Cl
    <2>3. MountsFit'
      BY <1>30 DEF CleanupBridge, Cl
    <2>4. AttachFit'
      BY <1>30 DEF CleanupBridge, Cl, StopBridge
    <2>5. StopsFit'
      BY <1>30 DEF CleanupBridge, ClAt, Cl, StopBridge
    <2> QED
      BY <2>1, <2>2, <2>3, <2>4, <2>5
  <1>31. CASE CleanupWine
    BY <1>31 DEF CleanupWine, ClAt, Cl
  <1>32. CASE CleanupWait
    BY <1>32 DEF CleanupWait, ClAt, Cl
  <1>33. CASE CleanupOverlay
    BY <1>33 DEF CleanupOverlay, ClAt, Cl
  <1>34. CASE CleanupSquash
    BY <1>34 DEF CleanupSquash, ClAt, Cl
  <1>35. CASE OsExit
    BY <1>35 DEF OsExit, ClAt
  <1>36. CASE AttachStep
    BY <1>36 DEF AttachStep
  <1>37. CASE Notify
    BY <1>37 DEF Notify
  <1>38. CASE WineEnds
    BY <1>38 DEF WineEnds
  <1>39. CASE BridgeEnds
    BY <1>39 DEF BridgeEnds
  <1>40. CASE UNCHANGED vars
    BY <1>40 DEF vars
  <1> QED
    BY <1>1, <1>2, <1>3, <1>4, <1>5, <1>6, <1>7, <1>8, <1>9, <1>10, <1>11, <1>12, <1>13, <1>14,
       <1>15, <1>16, <1>17, <1>18, <1>19, <1>20, <1>21, <1>22, <1>23, <1>24, <1>25, <1>26,
       <1>27, <1>28, <1>29, <1>30, <1>31, <1>32, <1>33, <1>34, <1>35, <1>36, <1>37, <1>38,
       <1>39, <1>40 DEF Next, Main, Mount, Play, Handler, Cleanup, Exited

-----------------------------------------------------------------------------
(* What ExitInv promises.                                                  *)

\* Every variable of the launcher keeps its type, and the main thread holds
\* signalGate exactly during the gated mount.
THEOREM ExitTypeCorrect == Spec => []TypeOK
  <1>1. ExitInv => TypeOK
    BY DEF ExitInv
  <1> QED
    BY <1>1, InitExit, NextExit, PTL DEF Spec

\* runGame and cleanup never close attachStop twice, whichever comes first
\* (stopAttachCommand).
THEOREM AttachStopClosedOnce == Spec => []AttachClosedOnce
  <1>1. ExitInv => AttachClosedOnce
    BY DEF ExitInv, AttachFit, AttachClosedOnce
  <1> QED
    BY <1>1, InitExit, NextExit, PTL DEF Spec

\* At os.Exit the main thread is not inside the gated mount: its own exit is past
\* it and the signal goroutine keeps signalGate, so what the mount points hold is
\* what cleanup has left (tryOverlayMountGated, cleanup).
THEOREM NothingMountedAtExit == Spec => []NothingLeftMounted
  <1>1. ExitInv => NothingLeftMounted
    <2> SUFFICES ASSUME ExitInv, exited # "free", ~setup.reloads
                 PROVE  "wine" \notin mounts /\ (mode # "none" => mounts = {})
      BY DEF NothingLeftMounted
    <2>1. cl = "end" /\ once # "free" /\ once \in {"main", "sig"}
      BY DEF ExitInv, HoldersFit, TypeOK, Holder, Thread
    <2>2. main \notin GatedPc
      BY <2>1 DEF ExitInv, HoldersFit, TypeOK, GatedPc
    <2>3. mode \in {"none", "overlay", "copy", "dir"}
      BY DEF ExitInv, TypeOK
    <2>4. CASE mode = "none"
      BY <2>2, <2>4 DEF ExitInv, MountsFit, GatedPc
    <2>5. CASE mode # "none"
      BY <2>1, <2>3, <2>5 DEF ExitInv, MountsFit
    <2> QED
      BY <2>4, <2>5
  <1> QED
    BY <1>1, InitExit, NextExit, PTL DEF Spec

\* A signal during the game: cleanup has stopped the prefix, the ATTACH command and
\* the bridge, and the main thread, past the game's start, starts none again
\* (runGame, cleanup).
THEOREM SignalStops == Spec => []SignalStopsGame
  <1>1. ExitInv => SignalStopsGame
    BY DEF ExitInv, SignalStopsGame, HoldersFit, StopsFit, StartsNothing
  <1> QED
    BY <1>1, InitExit, NextExit, PTL DEF Spec
=============================================================================

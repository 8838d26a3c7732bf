---------------------------- MODULE FatTreeProofs ---------------------------
(***************************************************************************)
(* The invariants of the FAT32 write path, for a disk of any size, any     *)
(* number of FAT copies, any names, paths and payloads, and any number of  *)
(* failed block writes: types, the copies of the FAT, and the structure,   *)
(* a tree of directories whose chains do not meet.                         *)
(***************************************************************************)
EXTENDS FatFs, Induction, FiniteSetTheorems

(* What the disk holds.                                                    *)

DataClusters == 2..LastData

\* One FAT copy: a successor always has a data area.
Fats == [Clusters -> {Free, EOC} \cup DataClusters]

\* A directory has a first cluster, an empty file has none.
Entries ==
    {e \in [k : {"entry"}, name : Names, dir : BOOLEAN,
            cluster : {0} \cup DataClusters, size : Nat] : e.dir => e.cluster # 0}

Bytes == [k : {"byte"}, b : Nat]
Units == {End, Del, Skip} \cup Bytes \cup Entries

DataAreas == [DataClusters -> [1..ClusterUnits -> Units]]

\* The operators of the model for the FAT copy f and the data area d.
ChainIn(f, start) ==
    LET Extend(s) ==
            IF s = <<>> \/ ~IsCluster(f[s[Len(s)]]) THEN s
            ELSE Append(s, f[s[Len(s)]])
        walk[i \in 0..LastData] ==
            IF i = 0 THEN IF IsCluster(start) THEN <<start>> ELSE <<>>
                     ELSE LET s == walk[i - 1] IN Extend(s)
    IN  walk[LastData]

UnitsIn(f, d, start) ==
    LET ch == ChainIn(f, start)
    IN  [j \in 1..(Len(ch) * ClusterUnits) |->
            d[ch[(j - 1) \div ClusterUnits + 1]][((j - 1) % ClusterUnits) + 1]]

DirIn(f, d, start) ==
    LET s == UnitsIn(f, d, start)
    IN  [j \in {i \in 1..(FirstIndex(s, {End}) - 1) : IsEntry(s[i])} |-> s[j]]

FindIn(f, d, start, n) ==
    LET e == DirIn(f, d, start)
        hits == {j \in DOMAIN e : e[j].name = n}
    IN  IF hits = {} THEN Error("NotFound")
        ELSE e[CHOOSE j \in hits : \A i \in hits : j <= i]

BytesIn(f, d, e) ==
    IF e.size = 0 \/ ~IsCluster(e.cluster) THEN <<>>
    ELSE LET s == UnitsIn(f, d, e.cluster)
             n == IF e.size <= Len(s) THEN e.size ELSE Len(s)
         IN  [j \in 1..n |-> IF s[j].k = "byte" THEN s[j].b ELSE 0]

\* Chain is ChainIn for FAT copy 0, the one that is read.
LEMMA ChainNow == \A h : Chain(h) = ChainIn(fat[1], h)
  BY DEF Chain, ChainIn

\* ReadChain is UnitsIn.
LEMMA UnitsNow == \A h : ReadChain(h) = UnitsIn(fat[1], data, h)
  BY DEF ReadChain, UnitsIn, Chain, ChainIn, UnitsOf

\* ReadDir is DirIn.
LEMMA DirNow == \A h : ReadDir(h) = DirIn(fat[1], data, h)
  BY DEF ReadDir, Listed, DirIn, ReadChain, UnitsIn, Chain, ChainIn, UnitsOf

\* FindInDir is FindIn.
LEMMA FindNow == \A h, n : FindInDir(h, n) = FindIn(fat[1], data, h, n)
  BY DEF FindInDir, FirstNamed, FindIn, ReadDir, Listed, DirIn, ReadChain, UnitsIn, Chain, ChainIn, UnitsOf

\* FileBytes is BytesIn.
LEMMA BytesNow == \A e : FileBytes(e) = BytesIn(fat[1], data, e)
  BY DEF FileBytes, BytesIn, ReadChain, UnitsIn, Chain, ChainIn, Truncated, UnitsOf

\* The constants, as numbers.
LEMMA Numbers ==
    /\ LastData \in Nat /\ LastEntry \in Nat /\ LastData >= 2
    /\ LastEntry >= LastData /\ ClusterUnits \in Nat /\ ClusterUnits >= 1
    /\ NumFats \in Nat /\ NumFats >= 1
    /\ Root \in DataClusters /\ DataClusters \subseteq Clusters
    /\ 0 \notin Clusters /\ EOC \notin Clusters /\ EOC # 0 /\ Free = 0
    /\ DataClusters \subseteq Nat /\ EOC \in Nat
  BY FatAssumption DEF Root, DataClusters, Clusters, EOC, Free

-----------------------------------------------------------------------------
(* Chains.                                                                 *)

\* s follows f from h, for as many clusters as it has.
Run(f, h, s) ==
    /\ s \in Seq(DataClusters) /\ Len(s) >= 1 /\ s[1] = h
    /\ \A i \in 1..(Len(s) - 1) : f[s[i]] = s[i + 1]

\* ... and to the end.
Ends(f, s) == f[s[Len(s)]] \notin DataClusters

\* What one round of the loop makes of s.
Longer(f, s) ==
    IF s = <<>> \/ ~IsCluster(f[s[Len(s)]]) THEN s ELSE Append(s, f[s[Len(s)]])

\* A round appends the successor.
LEMMA LongerRun ==
    ASSUME NEW f \in Fats, NEW h, NEW s, Run(f, h, s)
    PROVE  /\ Run(f, h, Longer(f, s))
           /\ IF Ends(f, s) THEN Longer(f, s) = s
              ELSE Len(Longer(f, s)) = Len(s) + 1
  <1>1. s \in Seq(DataClusters) /\ Len(s) \in Nat /\ Len(s) >= 1 /\ s # <<>>
    BY DEF Run
  <1>2. s[Len(s)] \in DataClusters /\ s[Len(s)] \in Clusters
    <2>1. Len(s) \in 1..Len(s)
      BY <1>1
    <2>2. s[Len(s)] \in DataClusters
      BY <1>1, <2>1
    <2> QED BY <2>2, Numbers
  <1>3. f[s[Len(s)]] \in {Free, EOC} \cup DataClusters
    BY <1>2 DEF Fats
  <1>4. IsCluster(f[s[Len(s)]]) <=> f[s[Len(s)]] \in DataClusters
    BY <1>3, Numbers DEF IsCluster
  <1>5. CASE Ends(f, s)
    BY <1>1, <1>4, <1>5 DEF Longer, Ends
  <1>6. CASE ~Ends(f, s)
    <2> DEFINE x == f[s[Len(s)]]
               t == Append(s, x)
    <2>1. x \in DataClusters /\ Longer(f, s) = t
      BY <1>1, <1>4, <1>6 DEF Longer, Ends
    <2> HIDE DEF x
    <2>2. /\ t \in Seq(DataClusters) /\ Len(t) = Len(s) + 1 /\ t[Len(s) + 1] = x
          /\ \A i \in 1..Len(s) : t[i] = s[i]
      BY <1>1, <2>1
    <2>3. t[1] = h
      BY <1>1, <2>2 DEF Run
    <2>4. ASSUME NEW i \in 1..(Len(t) - 1) PROVE f[t[i]] = t[i + 1]
      <3>1. i \in 1..Len(s) /\ t[i] = s[i]
        BY <1>1, <2>2
      <3>2. CASE i = Len(s)
        BY <2>2, <3>1, <3>2 DEF x
      <3>3. CASE i # Len(s)
        <4>1. i \in 1..(Len(s) - 1) /\ i + 1 \in 1..Len(s)
          BY <1>1, <3>1, <3>3
        <4> QED BY <2>2, <3>1, <4>1 DEF Run
      <3> QED BY <3>2, <3>3
    <2> QED BY <1>1, <1>6, <2>1, <2>2, <2>3, <2>4 DEF Run
  <1> QED BY <1>5, <1>6

\* read_chain follows the chain to its end, or for as many rounds as it has.
LEMMA ChainRun ==
    ASSUME NEW f \in Fats, NEW h \in DataClusters
    PROVE  /\ Run(f, h, ChainIn(f, h))
           /\ Len(ChainIn(f, h)) <= LastData + 1
           /\ Ends(f, ChainIn(f, h)) \/ Len(ChainIn(f, h)) = LastData + 1
  <1> DEFINE n == LastData
             S == Seq(DataClusters)
             step == [si \in S \X (1..n) |->
                        IF Run(f, h, si[1]) THEN Longer(f, si[1]) ELSE si[1]]
             Body(w, i) == IF i = 0 THEN IF IsCluster(h) THEN <<h>> ELSE <<>>
                           ELSE LET s == w[i - 1] IN Longer(f, s)
             w == CHOOSE g : g = [i \in 0..n |-> Body(g, i)]
  <1>1. n \in Nat /\ IsCluster(h) /\ <<h>> \in S
    BY Numbers DEF IsCluster
  <1>2. step \in [S \X (1..n) -> S]
    <2>1. ASSUME NEW si \in S \X (1..n), Run(f, h, si[1])
          PROVE  Longer(f, si[1]) \in S
      BY <2>1, LongerRun DEF Run
    <2> QED BY <2>1
  <1>3. PICK g : /\ g \in [0..n -> S] /\ g[0] = <<h>>
                 /\ \A i \in 1..n : g[i] = step[<<g[i - 1], i>>]
    <2> HIDE DEF n, S, step
    <2>1. IsLoop(n, S, <<h>>, step)
      BY <1>1, <1>2 DEF IsLoop
    <2>2. PICK g : Iterates(g, n, S, <<h>>, step)
      BY <2>1, Iteration
    <2> QED BY <2>2 DEF Iterates
  <1> DEFINE Good(i) == /\ Run(f, h, g[i]) /\ Len(g[i]) <= i + 1
                        /\ Ends(f, g[i]) \/ Len(g[i]) = i + 1
             P == {i \in 0..n : Good(i)}
  <1> HIDE DEF n
  <1>4. 0 \in P
    <2>1. Run(f, h, <<h>>) /\ Len(<<h>>) = 1
      BY DEF Run
    <2>2. Run(f, h, g[0]) /\ Len(g[0]) = 0 + 1 /\ Len(g[0]) <= 0 + 1
      BY <1>3, <2>1
    <2>3. Good(0)
      BY <2>2
    <2>4. 0 \in 0..n
      BY <1>1
    <2> HIDE DEF Good
    <2> QED BY <2>3, <2>4
  <1>5. ASSUME NEW i \in 1..n, i - 1 \in P
        PROVE  i \in P /\ g[i] = Longer(f, g[i - 1])
    <2>1. g[i - 1] \in S /\ Good(i - 1) /\ i \in 0..n /\ i \in Int
      BY <1>1, <1>3, <1>5
    <2>2. g[i] = Longer(f, g[i - 1])
      <3> HIDE DEF S
      <3>1. Run(f, h, g[i - 1]) /\ <<g[i - 1], i>> \in S \X (1..n)
        BY <2>1
      <3> QED BY <1>3, <3>1
    <2>3. /\ Run(f, h, g[i]) /\ Len(g[i]) \in Nat /\ Len(g[i - 1]) \in Nat
          /\ IF Ends(f, g[i - 1]) THEN g[i] = g[i - 1]
             ELSE Len(g[i]) = Len(g[i - 1]) + 1
      <3>1. /\ Run(f, h, g[i])
            /\ IF Ends(f, g[i - 1]) THEN g[i] = g[i - 1]
               ELSE Len(g[i]) = Len(g[i - 1]) + 1
        BY <2>1, <2>2, LongerRun
      <3> QED BY <2>1, <3>1 DEF Run
    <2>4. Len(g[i]) <= i + 1 /\ (Ends(f, g[i]) \/ Len(g[i]) = i + 1)
      <3>1. CASE Ends(f, g[i - 1])
        BY <2>1, <2>3, <3>1
      <3>2. CASE ~Ends(f, g[i - 1])
        BY <2>1, <2>3, <3>2
      <3> QED BY <3>1, <3>2
    <2> QED BY <2>1, <2>2, <2>3, <2>4
  <1>6. \A i \in 0..n : i \in P
    <2> HIDE DEF P
    <2> QED BY <1>1, <1>4, <1>5, UpTo
  <1>7. \A i \in 1..n : g[i] = Longer(f, g[i - 1])
    <2>1. \A i \in 1..n : i - 1 \in 0..n
      BY <1>1
    <2> QED BY <1>5, <1>6, <2>1
  <1>8. g = [i \in 0..n |-> Body(g, i)]
    <2>1. ASSUME NEW i \in 0..n PROVE g[i] = Body(g, i)
      <3>1. CASE i = 0
        BY <1>1, <1>3, <3>1
      <3>2. CASE i # 0
        <4>1. i \in 1..n
          BY <1>1, <3>2
        <4> QED BY <1>7, <3>2, <4>1
      <3> QED BY <3>1, <3>2
    <2> HIDE DEF Body
    <2> QED BY <1>3, <2>1
  <1>9. w = [i \in 0..n |-> Body(w, i)]
    <2> HIDE DEF Body
    <2> QED BY <1>8
  <1>10. ChainIn(f, h) = w[n]
    BY DEF ChainIn, Longer, n
  <1> HIDE DEF w, P
  <1>11. \A i \in 0..n : w[i] = g[i]
    <2>1. w[0] = g[0]
      BY <1>1, <1>3, <1>9
    <2>2. ASSUME NEW i \in 1..n, w[i - 1] = g[i - 1] PROVE w[i] = g[i]
      <3>1. i \in 0..n /\ i # 0
        BY <1>1
      <3>2. w[i] = Longer(f, w[i - 1])
        BY <1>9, <3>1
      <3> QED BY <1>7, <2>2, <3>2
    <2>3. SameRounds(w, g, n)
      BY <1>1, <2>1, <2>2 DEF SameRounds
    <2>4. PICK a, b : a = w /\ b = g
      OBVIOUS
    <2>5. SameRounds(a, b, n)
      BY <2>3, <2>4
    <2>6. \A i \in 0..n : a[i] = b[i]
      BY <2>5, SameIteration
    <2> QED BY <2>4, <2>6
  <1>12. n \in 0..n /\ ChainIn(f, h) = g[n] /\ n \in P
    BY <1>1, <1>6, <1>10, <1>11
  <1> QED BY <1>12 DEF P, n

-----------------------------------------------------------------------------
(* Directories.                                                            *)

\* The cluster and the unit in it of the j-th unit of a chain.
Place(ch, j) == <<ch[(j - 1) \div ClusterUnits + 1], ((j - 1) % ClusterUnits) + 1>>

\* Counting units cluster by cluster.
LEMMA Places ==
    /\ \A n \in Nat : \A j \in 1..(n * ClusterUnits) :
          /\ (j - 1) \div ClusterUnits + 1 \in 1..n
          /\ ((j - 1) % ClusterUnits) + 1 \in 1..ClusterUnits
          /\ j = ((j - 1) \div ClusterUnits) * ClusterUnits
                    + ((j - 1) % ClusterUnits) + 1
    /\ \A n \in Nat : \A i \in 1..n, u \in 1..ClusterUnits :
          /\ (i - 1) * ClusterUnits + u \in 1..(n * ClusterUnits)
          /\ ((i - 1) * ClusterUnits + u - 1) \div ClusterUnits + 1 = i
          /\ (((i - 1) * ClusterUnits + u - 1) % ClusterUnits) + 1 = u
  <1> DEFINE U == ClusterUnits
  <1>1. U \in Nat \ {0}
    BY Numbers
  <1> HIDE DEF U
  <1>2. ASSUME NEW n \in Nat, NEW j \in 1..(n * U)
        PROVE  /\ (j - 1) \div U + 1 \in 1..n /\ ((j - 1) % U) + 1 \in 1..U
               /\ j = ((j - 1) \div U) * U + ((j - 1) % U) + 1
    <2> DEFINE q == (j - 1) \div U
               r == (j - 1) % U
    <2>1. n * U \in Nat /\ j \in Nat /\ j - 1 \in Nat /\ j - 1 < n * U
      BY <1>1
    <2>2. q \in Nat /\ r \in 0..(U - 1) /\ j - 1 = q * U + r
      BY <1>1, <2>1
    <2> HIDE DEF q, r
    <2>3. q < n
      <3>1. q * U < n * U
        <4>1. q * U \in Nat
          BY <1>1, <2>2
        <4> QED BY <1>1, <2>1, <2>2, <4>1
      <3>2. ~(q >= n)
        <4>1. ASSUME q >= n PROVE q * U >= n * U
          BY <1>1, <2>2, <4>1
        <4>2. q * U \in Nat
          BY <1>1, <2>2
        <4> QED BY <2>1, <3>1, <4>1, <4>2
      <3> QED BY <2>2, <3>2
    <2>4. q + 1 \in 1..n /\ r + 1 \in 1..U
      BY <1>1, <2>2, <2>3
    <2>5. j = q * U + r + 1
      <3>1. q * U \in Nat
        BY <1>1, <2>2
      <3> QED BY <1>1, <2>1, <2>2, <3>1
    <2> QED BY <2>4, <2>5 DEF q, r
  <1>3. ASSUME NEW n \in Nat, NEW i \in 1..n, NEW u \in 1..U
        PROVE  /\ (i - 1) * U + u \in 1..(n * U)
               /\ ((i - 1) * U + u - 1) \div U + 1 = i
               /\ (((i - 1) * U + u - 1) % U) + 1 = u
    <2> DEFINE a == i - 1
               v == u - 1
    <2>1. a \in Nat /\ v \in 0..(U - 1) /\ a + 1 <= n
      BY <1>1
    <2>2. a * U \in Nat /\ (a + 1) * U <= n * U /\ (a + 1) * U = a * U + U
      BY <1>1, <2>1
    <2>3. (a * U + v) \div U = a /\ (a * U + v) % U = v
      BY <1>1, <2>1
    <2>4. a * U + u - 1 = a * U + v /\ a + 1 = i /\ v + 1 = u
      BY <1>1, <2>2
    <2>5. a * U + u \in 1..(n * U)
      <3>1. n * U \in Nat
        BY <1>1
      <3> QED BY <1>1, <2>2, <3>1
    <2> QED BY <2>3, <2>4, <2>5
  <1> QED BY <1>2, <1>3 DEF U

\* The first unit of a kind: FirstIndex finds it, or stops behind the last unit.
LEMMA FirstFacts ==
    ASSUME NEW s, Len(s) \in Nat, NEW hits
    PROVE  /\ FirstIndex(s, hits) \in 1..(Len(s) + 1)
           /\ FirstIndex(s, hits) <= Len(s) => s[FirstIndex(s, hits)] \in hits
           /\ \A i \in 1..(FirstIndex(s, hits) - 1) : s[i] \notin hits
  <1> DEFINE n == Len(s) + 1
             T == {j \in 1..n : j <= Len(s) => s[j] \in hits}
  <1>1. T \subseteq Nat /\ n \in T
    OBVIOUS
  <1>2. PICK m \in T : \A k \in T : m <= k
    <2> HIDE DEF T
    <2> QED BY <1>1, LeastNumber
  <1>3. ASSUME NEW i \in 1..(m - 1) PROVE s[i] \notin hits
    <2>1. i \in 1..n /\ ~(m <= i)
      OBVIOUS
    <2> QED BY <1>2, <2>1
  <1>4. \E j \in 1..(Len(s) + 1) : /\ j <= Len(s) => s[j] \in hits
                                  /\ \A i \in 1..(j - 1) : s[i] \notin hits
    BY <1>3
  <1> QED BY <1>4 DEF FirstIndex

\* The units of a chain.
LEMMA UnitsFacts ==
    ASSUME NEW f \in Fats, NEW d \in DataAreas, NEW h \in DataClusters
    PROVE  LET ch == ChainIn(f, h)
               s  == UnitsIn(f, d, h)
           IN  /\ ch \in Seq(DataClusters) /\ Len(ch) \in Nat
               /\ Len(s) = Len(ch) * ClusterUnits /\ Len(s) \in Nat
               /\ s \in [1..Len(s) -> Units] /\ s \in Seq(Units)
               /\ \A j \in 1..Len(s) :
                     /\ Place(ch, j) \in DataClusters \X (1..ClusterUnits)
                     /\ s[j] = d[Place(ch, j)[1]][Place(ch, j)[2]]
  <1> DEFINE ch == ChainIn(f, h)
             s  == UnitsIn(f, d, h)
             n  == Len(ch) * ClusterUnits
  <1>1. ch \in Seq(DataClusters) /\ Len(ch) \in Nat
    BY ChainRun DEF Run
  <1>2. n \in Nat
    BY <1>1, Numbers
  <1>3. s = [j \in 1..n |-> d[Place(ch, j)[1]][Place(ch, j)[2]]]
    BY DEF UnitsIn, Place
  <1> HIDE DEF ch, s
  <1>4. ASSUME NEW j \in 1..n
        PROVE  /\ Place(ch, j) \in DataClusters \X (1..ClusterUnits)
               /\ d[Place(ch, j)[1]][Place(ch, j)[2]] \in Units
    <2>1. /\ (j - 1) \div ClusterUnits + 1 \in 1..Len(ch)
          /\ ((j - 1) % ClusterUnits) + 1 \in 1..ClusterUnits
      BY <1>1, Places
    <2>2. ch[(j - 1) \div ClusterUnits + 1] \in DataClusters
      BY <1>1, <2>1
    <2>3. Place(ch, j) \in DataClusters \X (1..ClusterUnits)
      BY <2>1, <2>2 DEF Place
    <2> QED BY <2>3 DEF DataAreas
  <1> HIDE DEF n
  <1>5. s \in [1..n -> Units] /\ Len(s) = n /\ s \in Seq(Units)
    BY <1>2, <1>3, <1>4
  <1> QED BY <1>1, <1>2, <1>3, <1>4, <1>5 DEF n, ch, s

\* The j-th unit of the directory at h is its first entry with the name n.
Hit(f, d, h, n, j) ==
    LET s == UnitsIn(f, d, h)
    IN  /\ j \in 1..Len(s) /\ s[j].k = "entry" /\ s[j].name = n
        /\ \A i \in 1..(j - 1) : s[i] # End /\ ~(s[i].k = "entry" /\ s[i].name = n)

\* A unit that is an entry is one of Entries.
LEMMA EntryUnits ==
    /\ \A u \in Units : u.k = "entry" <=> u \in Entries
    /\ \A e \in Entries : e.k = "entry" /\ e # End
    /\ End.k = "end" /\ Del.k = "del" /\ Skip.k = "skip"
    /\ End \in Units /\ Del \in Units /\ Skip \in Units
    /\ Error("NotFound").k = "error" /\ Error("NotADir").k = "error"
  BY DEF Units, Bytes, Entries, End, Del, Skip, Error

\* find_in_dir finds the first entry of the name, if there is one.
LEMMA FindFacts ==
    ASSUME NEW f \in Fats, NEW d \in DataAreas, NEW h \in DataClusters, NEW n
    PROVE  \/ /\ FindIn(f, d, h, n) = Error("NotFound")
              /\ \A j : ~Hit(f, d, h, n, j)
           \/ \E j : Hit(f, d, h, n, j) /\ FindIn(f, d, h, n) = UnitsIn(f, d, h)[j]
  <1> DEFINE s == UnitsIn(f, d, h)
             e == DirIn(f, d, h)
             m == FirstIndex(s, {End})
             J == {i \in 1..(m - 1) : IsEntry(s[i])}
             hits == {j \in DOMAIN e : e[j].name = n}
  <1>1. Len(s) \in Nat /\ s \in Seq(Units)
    BY UnitsFacts
  <1>2. /\ m \in 1..(Len(s) + 1)
        /\ m <= Len(s) => s[m] = End
        /\ \A i \in 1..(m - 1) : s[i] # End
    <2> HIDE DEF s
    <2>1. /\ m <= Len(s) => s[m] \in {End}
          /\ \A i \in 1..(m - 1) : s[i] \notin {End}
          /\ m \in 1..(Len(s) + 1)
      BY <1>1, FirstFacts
    <2> QED BY <2>1
  <1>3. e = [j \in J |-> s[j]]
    BY DEF DirIn
  <1>4. FindIn(f, d, h, n) = IF hits = {} THEN Error("NotFound")
                             ELSE e[CHOOSE j \in hits : \A i \in hits : j <= i]
    BY DEF FindIn
  <1> HIDE DEF s, m, e
  <1>5. DOMAIN e = J /\ \A j \in J : e[j] = s[j]
    <2> HIDE DEF J
    <2> QED BY <1>3
  <1>6. \A j : j \in hits <=> j \in J /\ s[j].name = n
    <2> HIDE DEF J
    <2> QED BY <1>5
  <1> HIDE DEF hits
  <1>7. ASSUME NEW j, Hit(f, d, h, n, j) PROVE j \in hits
    <2>1. /\ j \in 1..Len(s) /\ s[j].k = "entry" /\ s[j].name = n
          /\ \A i \in 1..(j - 1) : s[i] # End
      BY <1>7 DEF Hit, s
    <2>2. s[j] # End
      BY <2>1 DEF End
    <2>3. j \in 1..(m - 1)
      <3>1. m \in Int /\ j \in Int /\ Len(s) \in Int /\ 1 <= m
        BY <1>1, <1>2, <2>1
      <3>2. ASSUME m <= j PROVE FALSE
        <4>1. m <= Len(s) /\ s[m] = End
          BY <1>2, <2>1, <3>1, <3>2
        <4>2. CASE m = j
          BY <2>2, <4>1, <4>2
        <4>3. CASE m # j
          <5>1. m \in 1..(j - 1)
            BY <3>1, <3>2, <4>3
          <5> QED BY <2>1, <4>1, <5>1
        <4> QED BY <4>2, <4>3
      <3> QED BY <2>1, <3>1, <3>2
    <2> QED BY <1>6, <2>1, <2>3 DEF IsEntry
  <1>8. CASE hits = {}
    BY <1>4, <1>7, <1>8
  <1>9. CASE hits # {}
    <2> DEFINE j == CHOOSE k \in hits : \A i \in hits : k <= i
    <2>1. hits \subseteq Nat
      BY <1>1, <1>2, <1>6
    <2>2. j \in hits /\ \A i \in hits : j <= i
      <3>1. \E k \in hits : \A i \in hits : k <= i
        BY <1>9, <2>1, LeastNumber
      <3> QED BY <3>1
    <2>3. FindIn(f, d, h, n) = s[j]
      <3>1. FindIn(f, d, h, n) = e[j]
        BY <1>4, <1>9
      <3>2. j \in J
        BY <1>6, <2>2
      <3> HIDE DEF j, J
      <3> QED BY <1>5, <3>1, <3>2
    <2> HIDE DEF j
    <2>4. j \in 1..(m - 1) /\ s[j].k = "entry" /\ s[j].name = n
      BY <1>6, <2>2 DEF IsEntry
    <2>5. j \in 1..Len(s)
      BY <1>1, <1>2, <2>4
    <2>6. ASSUME NEW i \in 1..(j - 1)
          PROVE  s[i] # End /\ ~(s[i].k = "entry" /\ s[i].name = n)
      <3>1. i \in 1..(m - 1) /\ ~(j <= i)
        BY <1>2, <2>4
      <3>2. i \notin hits
        BY <2>2, <3>1
      <3> QED BY <1>2, <1>6, <3>1, <3>2 DEF IsEntry
    <2>7. Hit(f, d, h, n, j)
      BY <2>4, <2>5, <2>6 DEF Hit, s
    <2> QED BY <2>3, <2>7 DEF s
  <1> QED BY <1>8, <1>9

\* The kinds of result.
LEMMA FindType ==
    ASSUME NEW f \in Fats, NEW d \in DataAreas, NEW h \in DataClusters, NEW n
    PROVE  /\ FindIn(f, d, h, n) \in Entries \cup {Error("NotFound")}
           /\ FindIn(f, d, h, n).k # "error" => FindIn(f, d, h, n) \in Entries
  <1> DEFINE r == FindIn(f, d, h, n)
             s == UnitsIn(f, d, h)
  <1>1. CASE r = Error("NotFound")
    BY <1>1, EntryUnits
  <1>2. CASE r # Error("NotFound")
    <2>1. PICK j : Hit(f, d, h, n, j) /\ r = s[j]
      BY <1>2, FindFacts
    <2>2. j \in 1..Len(s) /\ s[j].k = "entry"
      BY <2>1 DEF Hit
    <2>3. s[j] \in Units
      BY <2>2, UnitsFacts
    <2>4. s[j] \in Entries
      BY <2>2, <2>3, EntryUnits
    <2> QED BY <2>1, <2>4
  <1> QED BY <1>1, <1>2

-----------------------------------------------------------------------------
(* Lookup.                                                                 *)

RootEntry == Entry(<<>>, TRUE, Root, 0)

\* What lookup can come to.
Found == Entries \cup {RootEntry} \cup [k : {"error"}, why : {"NotFound", "NotADir"}]

\* From one component of a path to the next.
EnterIn(f, d, e, n) ==
    IF e.k = "error" THEN e ELSE IF ~e.dir THEN Error("NotADir")
    ELSE FindIn(f, d, e.cluster, n)

Walks(g, f, d, p) ==
    /\ g \in [0..Len(p) -> Found] /\ g[0] = RootEntry
    /\ \A i \in 1..Len(p) : g[i] = EnterIn(f, d, g[i - 1], p[i])

LookIn(f, d, p) == LET g == CHOOSE x : Walks(x, f, d, p) IN g[Len(p)]

\* What lookup comes to is an error, or has the fields of an entry.
LEMMA FoundFacts ==
    /\ RootEntry \in Found /\ RootEntry.k = "entry" /\ RootEntry.dir
    /\ RootEntry.cluster = Root
    /\ \A e \in Found : e.k # "error" => e \in Entries \cup {RootEntry}
    /\ \A e \in Entries \cup {RootEntry} :
          /\ e.k = "entry" /\ e.dir \in BOOLEAN /\ e.size \in Nat
          /\ e.cluster \in {0} \cup DataClusters
          /\ e.dir => e.cluster \in DataClusters
    /\ \A n : Error(n).k = "error" /\ Error(n).why = n
    /\ Error("NotADir") \in Found /\ Error("NotFound") \in Found
  <1>1. /\ RootEntry.k = "entry" /\ RootEntry.dir = TRUE
        /\ RootEntry.cluster = Root /\ RootEntry.size = 0
    BY DEF RootEntry, Entry
  <1>2. \A n : Error(n).k = "error" /\ Error(n).why = n
    BY DEF Error
  <1>3. RootEntry \in Found /\ Error("NotADir") \in Found /\ Error("NotFound") \in Found
    BY DEF Found, Error
  <1>4. ASSUME NEW e \in Entries
        PROVE  /\ e.k = "entry" /\ e.dir \in BOOLEAN /\ e.size \in Nat
               /\ e.cluster \in {0} \cup DataClusters
               /\ e.dir => e.cluster \in DataClusters
    BY DEF Entries
  <1>5. \A e \in Found : e.k # "error" => e \in Entries \cup {RootEntry}
    BY DEF Found
  <1>6. /\ RootEntry.dir \in BOOLEAN /\ RootEntry.dir /\ RootEntry.size \in Nat
        /\ RootEntry.cluster \in {0} \cup DataClusters
        /\ RootEntry.cluster \in DataClusters
    <2>1. RootEntry.dir \in BOOLEAN /\ RootEntry.dir
      BY <1>1, Zenon
    <2>2. RootEntry.size \in Nat /\ RootEntry.cluster \in DataClusters
      <3>1. 0 \in Nat
        OBVIOUS
      <3> QED BY <1>1, <3>1, Numbers, Zenon
    <2> QED BY <2>1, <2>2, Zenon
  <1> QED BY <1>1, <1>2, <1>3, <1>4, <1>5, <1>6, Zenon

\* Each component leads to something that can be found.
LEMMA EnterType ==
    ASSUME NEW f \in Fats, NEW d \in DataAreas, NEW e \in Found, NEW n
    PROVE  EnterIn(f, d, e, n) \in Found
  <1>1. CASE e.k = "error" \/ ~e.dir
    BY <1>1, FoundFacts DEF EnterIn
  <1>2. CASE ~(e.k = "error") /\ e.dir
    <2>1. e.cluster \in DataClusters
      BY <1>2, FoundFacts
    <2>2. FindIn(f, d, e.cluster, n) \in Entries \cup {Error("NotFound")}
      BY <2>1, FindType
    <2>3. EnterIn(f, d, e, n) = FindIn(f, d, e.cluster, n)
      BY <1>2 DEF EnterIn
    <2> QED BY <2>2, <2>3, FoundFacts DEF Found
  <1> QED BY <1>1, <1>2

\* The loop of lookup.
LEMMA WalkExists ==
    ASSUME NEW f \in Fats, NEW d \in DataAreas, NEW p, Len(p) \in Nat
    PROVE  \E g : Walks(g, f, d, p)
  <1> DEFINE n == Len(p)
             step == [ei \in Found \X (1..n) |-> EnterIn(f, d, ei[1], p[ei[2]])]
  <1>1. n \in Nat /\ RootEntry \in Found
    BY FoundFacts
  <1>2. step \in [Found \X (1..n) -> Found]
    <2>1. ASSUME NEW ei \in Found \X (1..n)
          PROVE  EnterIn(f, d, ei[1], p[ei[2]]) \in Found
      BY EnterType
    <2> QED BY <2>1
  <1>3. PICK g : /\ g \in [0..n -> Found] /\ g[0] = RootEntry
                 /\ \A i \in 1..n : g[i] = step[<<g[i - 1], i>>]
    <2> HIDE DEF n, step
    <2>1. IsLoop(n, Found, RootEntry, step)
      BY <1>1, <1>2 DEF IsLoop
    <2>2. PICK g : Iterates(g, n, Found, RootEntry, step)
      BY <2>1, Iteration
    <2> QED BY <2>2 DEF Iterates
  <1>4. ASSUME NEW i \in 1..n PROVE g[i] = EnterIn(f, d, g[i - 1], p[i])
    <2>1. i - 1 \in 0..n
      BY <1>1
    <2>2. <<g[i - 1], i>> \in Found \X (1..n)
      BY <1>3, <2>1
    <2> QED BY <1>3, <2>2
  <1> QED BY <1>3, <1>4 DEF Walks

\* lookup is where the walk ends.
LEMMA LookIs ==
    ASSUME NEW f, NEW d, NEW p, Len(p) \in Nat, NEW g, Walks(g, f, d, p)
    PROVE  LookIn(f, d, p) = g[Len(p)]
  <1> DEFINE x == CHOOSE y : Walks(y, f, d, p)
  <1>1. Walks(x, f, d, p) /\ LookIn(f, d, p) = x[Len(p)]
    BY DEF LookIn
  <1>2. PICK a : a = x
    OBVIOUS
  <1> HIDE DEF x
  <1>3. Walks(a, f, d, p)
    BY <1>1, <1>2
  <1>4. \A i \in 0..Len(p) : a[i] = g[i]
    <2>1. SameRounds(a, g, Len(p))
      BY <1>3 DEF Walks, SameRounds
    <2> QED BY <2>1, SameIteration
  <1>5. Len(p) \in 0..Len(p)
    OBVIOUS
  <1> QED BY <1>1, <1>2, <1>4, <1>5

\* Lookup is LookIn.
LEMMA LookNow ==
    ASSUME fat[1] \in Fats, data \in DataAreas, NEW p, Len(p) \in Nat
    PROVE  Lookup(p) = LookIn(fat[1], data, p)
  <1> DEFINE n == Len(p)
             Step1(e, i) == IF e.k = "error" THEN e
                            ELSE IF ~e.dir THEN Error("NotADir")
                            ELSE FindInDir(e.cluster, p[i])
             Body(w, i) == IF i = 0 THEN Entry(<<>>, TRUE, Root, 0)
                           ELSE LET e == w[i - 1] IN Step1(e, i)
             w == CHOOSE x : x = [i \in 0..n |-> Body(x, i)]
  <1>1. PICK g : Walks(g, fat[1], data, p)
    BY WalkExists
  <1>2. /\ g \in [0..n -> Found] /\ g[0] = RootEntry
        /\ \A i \in 1..n : g[i] = Step1(g[i - 1], i)
    BY <1>1, FindNow DEF Walks, EnterIn
  <1>3. Lookup(p) = w[n]
    BY DEF Lookup, Descend
  <1> HIDE DEF n, Step1
  <1>4. n \in Nat
    BY DEF n
  <1>5. g = [i \in 0..n |-> Body(g, i)]
    <2>1. ASSUME NEW i \in 0..n PROVE g[i] = Body(g, i)
      <3>1. CASE i = 0
        BY <1>2, <3>1 DEF RootEntry
      <3>2. CASE i # 0
        <4>1. i \in 1..n
          BY <1>4, <3>2
        <4> QED BY <1>2, <3>2, <4>1
      <3> QED BY <3>1, <3>2
    <2> HIDE DEF Body
    <2> QED BY <1>2, <2>1
  <1>6. w = [i \in 0..n |-> Body(w, i)]
    <2> HIDE DEF Body
    <2> QED BY <1>5
  <1> HIDE DEF w
  <1>7. \A i \in 0..n : w[i] = g[i]
    <2>1. w[0] = g[0]
      BY <1>2, <1>4, <1>6 DEF RootEntry
    <2>2. ASSUME NEW i \in 1..n, w[i - 1] = g[i - 1] PROVE w[i] = g[i]
      <3>1. i \in 0..n /\ i # 0
        BY <1>4
      <3>2. w[i] = Step1(w[i - 1], i)
        BY <1>6, <3>1
      <3> QED BY <1>2, <2>2, <3>2
    <2>3. SameRounds(w, g, n)
      BY <1>4, <2>1, <2>2 DEF SameRounds
    <2>4. PICK a, b : a = w /\ b = g
      OBVIOUS
    <2>5. SameRounds(a, b, n)
      BY <2>3, <2>4
    <2>6. \A i \in 0..n : a[i] = b[i]
      BY <2>5, SameIteration
    <2> QED BY <2>4, <2>6
  <1>8. n \in 0..n
    BY <1>4
  <1>9. LookIn(fat[1], data, p) = g[n]
    BY <1>1, LookIs DEF n
  <1> QED BY <1>3, <1>7, <1>8, <1>9

\* The beginning of a path.
LEMMA Prefixes ==
    ASSUME NEW p \in Seq(Names), NEW i \in Nat, i <= Len(p)
    PROVE  /\ SubSeq(p, 1, i) \in Seq(Names) /\ Len(SubSeq(p, 1, i)) = i
           /\ \A k \in 1..i : SubSeq(p, 1, i)[k] = p[k]
  OBVIOUS

\* Paths and their parents.
LEMMA PathFacts ==
    /\ Paths \subseteq Seq(Names) /\ <<>> \in Paths
    /\ \A p \in Seq(Names) : p # <<>> =>
          /\ Len(p) \in Nat /\ Len(p) >= 1
          /\ Parent(p) \in Seq(Names) /\ Len(Parent(p)) = Len(p) - 1
          /\ \A i \in 1..(Len(p) - 1) : Parent(p)[i] = p[i]
          /\ Last(p) \in Names /\ Last(p) = p[Len(p)]
  <1>1. Paths \subseteq Seq(Names) /\ <<>> \in Paths
    BY FatAssumption
  <1>2. ASSUME NEW p \in Seq(Names), p # <<>>
        PROVE  /\ Len(p) \in Nat /\ Len(p) >= 1
               /\ Parent(p) \in Seq(Names) /\ Len(Parent(p)) = Len(p) - 1
               /\ \A i \in 1..(Len(p) - 1) : Parent(p)[i] = p[i]
               /\ Last(p) \in Names /\ Last(p) = p[Len(p)]
    <2>1. Len(p) \in Nat /\ Len(p) >= 1
      BY <1>2
    <2>2. Last(p) \in Names /\ Last(p) = p[Len(p)]
      <3>1. Len(p) \in 1..Len(p)
        BY <2>1
      <3> QED BY <3>1 DEF Last
    <2>3. Len(p) - 1 \in Nat /\ Len(p) - 1 <= Len(p)
      BY <2>1
    <2>4. /\ Parent(p) \in Seq(Names) /\ Len(Parent(p)) = Len(p) - 1
          /\ \A i \in 1..(Len(p) - 1) : Parent(p)[i] = p[i]
      BY <2>3, Prefixes DEF Parent
    <2> QED BY <2>1, <2>2, <2>4
  <1> QED BY <1>1, <1>2

\* lookup from parent to child.
LEMMA LookChild ==
    ASSUME NEW f \in Fats, NEW d \in DataAreas
    PROVE  /\ LookIn(f, d, <<>>) = RootEntry
           /\ \A p \in Seq(Names) :
                /\ LookIn(f, d, p) \in Found
                /\ p # <<>> => LookIn(f, d, p)
                                = EnterIn(f, d, LookIn(f, d, Parent(p)), Last(p))
  <1>1. LookIn(f, d, <<>>) = RootEntry
    <2>1. Len(<<>>) = 0 /\ Len(<<>>) \in Nat
      OBVIOUS
    <2>2. PICK g : Walks(g, f, d, <<>>)
      BY <2>1, WalkExists
    <2>3. LookIn(f, d, <<>>) = g[Len(<<>>)]
      BY <2>1, <2>2, LookIs
    <2> QED BY <2>1, <2>2, <2>3 DEF Walks
  <1>2. ASSUME NEW p \in Seq(Names) PROVE LookIn(f, d, p) \in Found
    <2>1. Len(p) \in Nat /\ Len(p) \in 0..Len(p)
      OBVIOUS
    <2>2. PICK g : Walks(g, f, d, p)
      BY <2>1, WalkExists
    <2>3. LookIn(f, d, p) = g[Len(p)]
      BY <2>1, <2>2, LookIs
    <2>4. g \in [0..Len(p) -> Found]
      BY <2>2 DEF Walks
    <2> QED BY <2>1, <2>3, <2>4
  <1>3. ASSUME NEW p \in Seq(Names), p # <<>>
        PROVE  LookIn(f, d, p) = EnterIn(f, d, LookIn(f, d, Parent(p)), Last(p))
    <2> DEFINE q == Parent(p)
               n == Len(p)
    <2>1. n \in Nat /\ n >= 1 /\ Len(q) = n - 1 /\ q \in Seq(Names)
          /\ Last(p) = p[n] /\ \A i \in 1..(n - 1) : q[i] = p[i]
      BY <1>3, PathFacts
    <2> HIDE DEF q, n
    <2>2. PICK g : Walks(g, f, d, p)
      BY WalkExists
    <2>3. LookIn(f, d, p) = g[n]
      BY <2>2, LookIs DEF n
    <2> DEFINE h == [i \in 0..(n - 1) |-> g[i]]
    <2>4. Walks(h, f, d, q)
      <3>1. /\ g \in [0..n -> Found] /\ g[0] = RootEntry
            /\ \A i \in 1..n : g[i] = EnterIn(f, d, g[i - 1], p[i])
        BY <2>2 DEF Walks, n
      <3>2. h \in [0..Len(q) -> Found] /\ h[0] = RootEntry
        BY <2>1, <3>1
      <3>3. ASSUME NEW i \in 1..Len(q) PROVE h[i] = EnterIn(f, d, h[i - 1], q[i])
        <4>1. i \in 1..n /\ i \in 0..(n - 1) /\ i - 1 \in 0..(n - 1) /\ i \in 1..(n - 1)
          BY <2>1
        <4>2. h[i] = g[i] /\ h[i - 1] = g[i - 1] /\ q[i] = p[i]
          BY <2>1, <4>1
        <4> HIDE DEF h
        <4> QED BY <3>1, <4>1, <4>2
      <3> HIDE DEF h
      <3> QED BY <3>2, <3>3 DEF Walks
    <2>5. LookIn(f, d, q) = g[n - 1]
      <3>1. n - 1 \in 0..(n - 1) /\ h[n - 1] = g[n - 1] /\ Len(q) \in Nat
        BY <2>1
      <3> HIDE DEF h
      <3>2. LookIn(f, d, q) = h[Len(q)]
        BY <2>4, <3>1, LookIs
      <3> QED BY <2>1, <3>1, <3>2
    <2>6. g[n] = EnterIn(f, d, g[n - 1], p[n])
      <3>1. n \in 1..Len(p)
        BY <2>1 DEF n
      <3> QED BY <2>2, <3>1 DEF Walks
    <2> QED BY <2>1, <2>3, <2>5, <2>6 DEF q
  <1> QED BY <1>1, <1>2, <1>3

\* What a path leads to is one of the entries, or the root itself.
LEMMA LookType ==
    ASSUME NEW f \in Fats, NEW d \in DataAreas, NEW p \in Seq(Names),
           LookIn(f, d, p).k # "error"
    PROVE  /\ LookIn(f, d, p) \in Entries \cup {RootEntry}
           /\ LookIn(f, d, p).cluster \in {0} \cup DataClusters
           /\ LookIn(f, d, p).dir => LookIn(f, d, p).cluster \in DataClusters
  BY LookChild, FoundFacts

\* The contents of a file are bytes.
LEMMA BytesType ==
    ASSUME NEW f \in Fats, NEW d \in DataAreas, NEW e \in Entries
    PROVE  BytesIn(f, d, e) \in Seq(Nat)
  <1>1. CASE e.size = 0 \/ ~IsCluster(e.cluster)
    BY <1>1 DEF BytesIn
  <1>2. CASE ~(e.size = 0 \/ ~IsCluster(e.cluster))
    <2> DEFINE s == UnitsIn(f, d, e.cluster)
               n == IF e.size <= Len(s) THEN e.size ELSE Len(s)
    <2>1. e.cluster \in DataClusters /\ e.size \in Nat
      BY <1>2, FoundFacts, Numbers DEF IsCluster
    <2>2. Len(s) \in Nat /\ s \in [1..Len(s) -> Units]
      BY <2>1, UnitsFacts
    <2>3. BytesIn(f, d, e) = [j \in 1..n |-> IF s[j].k = "byte" THEN s[j].b ELSE 0]
      BY <1>2 DEF BytesIn
    <2> HIDE DEF s
    <2>4. n \in Nat /\ \A j \in 1..n : j \in 1..Len(s)
      BY <2>1, <2>2
    <2>5. \A u \in Units : u.k = "byte" => u.b \in Nat
      BY DEF Units, Bytes, Entries, End, Del, Skip
    <2>6. \A j \in 1..n : (IF s[j].k = "byte" THEN s[j].b ELSE 0) \in Nat
      BY <2>2, <2>4, <2>5
    <2> HIDE DEF n
    <2> QED BY <2>3, <2>4, <2>6
  <1> QED BY <1>1, <1>2

-----------------------------------------------------------------------------
(* What an operation has decided before its first write.                   *)

Ops == [path : Paths, parent : {0} \cup DataClusters,
        free : {0} \cup DataClusters, del : BOOLEAN, payload : Seq(Nat),
        need : Nat, mkdir : BOOLEAN, add : BOOLEAN]

\* An operation under way has a parent directory, knows how many clusters it
\* needs, and deletes the entry whose chain it frees.
Sound(o) ==
    /\ o.path # <<>> /\ o.parent \in DataClusters
    /\ o.need = (IF o.mkdir THEN 1 ELSE ClustersFor(Len(o.payload)))
    /\ o.mkdir => o.payload = <<>> /\ o.add /\ ~o.del
    /\ o.free # 0 => o.del
    /\ ~o.add => o.del /\ o.payload = <<>>

\* What it found on the disk: the parent is a directory, and the entry of the
\* name, if there is one, is a file or, for remove, an empty directory.
Chosen(f, d, o) ==
    LET par == LookIn(f, d, Parent(o.path))
        old == FindIn(f, d, o.parent, Last(o.path))
    IN  /\ par.k # "error" /\ par.dir /\ par.cluster = o.parent
        /\ o.del <=> old.k # "error"
        /\ o.del => o.free = old.cluster
        /\ o.del /\ old.dir => ~o.add /\ DOMAIN DirIn(f, d, old.cluster) = {}
        /\ o.add /\ ~o.mkdir =>
              \/ o.payload = <<>> \/ o.payload \in Payloads
              \/ /\ o.del
                 /\ \E x \in Payloads : o.payload = BytesIn(f, d, old) \o x

\* The number of clusters for n units.
LEMMA ClustersForFacts ==
    ASSUME NEW n \in Nat
    PROVE  /\ ClustersFor(n) \in Nat /\ ClustersFor(n) * ClusterUnits >= n
           /\ (ClustersFor(n) - 1) * ClusterUnits < n
           /\ ClustersFor(n) = 0 <=> n = 0
  <1> DEFINE U == ClusterUnits
             q == (n + U - 1) \div U
             r == (n + U - 1) % U
  <1>1. U \in Nat \ {0} /\ n + U - 1 \in Nat
    BY Numbers
  <1>2. ClustersFor(n) = q
    BY DEF ClustersFor
  <1> HIDE DEF U
  <1>3. q \in Nat /\ r \in 0..(U - 1) /\ n + U - 1 = q * U + r
    BY <1>1
  <1> HIDE DEF q, r
  <1>4. q * U \in Nat /\ (q - 1) * U = q * U - U
    BY <1>1, <1>3
  <1>5. q * U >= n /\ (q - 1) * U < n
    BY <1>1, <1>3, <1>4
  <1>6. q = 0 <=> n = 0
    <2>1. ASSUME q = 0 PROVE n = 0
      BY <1>1, <1>4, <1>5, <2>1
    <2>2. ASSUME n = 0, q # 0 PROVE FALSE
      <3>1. q - 1 \in Nat
        BY <1>3, <2>2
      <3>2. (q - 1) * U \in Nat
        BY <1>1, <3>1
      <3> QED BY <1>5, <2>2, <3>2
    <2> QED BY <2>1, <2>2
  <1> QED BY <1>2, <1>3, <1>5, <1>6 DEF U

\* The fields of an operation.
Fields(o, p, par, fr, x, nd, mk, ad, dl) ==
    /\ o \in Ops /\ o.path = p /\ o.parent = par /\ o.free = fr /\ o.payload = x
    /\ o.need = nd /\ o.mkdir = mk /\ o.add = ad /\ o.del = dl

\* The records that the code makes of an operation.
LEMMA NewOps ==
    ASSUME NEW p \in Paths, NEW par \in DataClusters, NEW fr \in {0} \cup DataClusters,
           NEW x \in Seq(Nat), NEW nd \in Nat
    PROVE  /\ Fields([NoOp EXCEPT !.path = p, !.parent = par, !.payload = x,
                                  !.need = nd, !.add = TRUE],
                     p, par, 0, x, nd, FALSE, TRUE, FALSE)
           /\ Fields([NoOp EXCEPT !.path = p, !.parent = par, !.need = 1,
                                  !.mkdir = TRUE, !.add = TRUE],
                     p, par, 0, <<>>, 1, TRUE, TRUE, FALSE)
           /\ Fields([NoOp EXCEPT !.path = p, !.parent = par, !.free = fr,
                                  !.del = TRUE],
                     p, par, fr, <<>>, 0, FALSE, FALSE, TRUE)
           /\ Fields([NoOp EXCEPT !.path = p, !.parent = par, !.add = TRUE],
                     p, par, 0, <<>>, 0, FALSE, TRUE, FALSE)
  <1>1. <<>> \in Seq(Nat) /\ 0 \in Nat /\ 1 \in Nat
    OBVIOUS
  <1>2. LET o == [NoOp EXCEPT !.path = p, !.parent = par, !.payload = x,
                              !.need = nd, !.add = TRUE]
        IN  /\ o \in Ops /\ o.path = p /\ o.parent = par /\ o.free = 0
            /\ o.payload = x /\ o.need = nd /\ o.mkdir = FALSE /\ o.add = TRUE
            /\ o.del = FALSE
    BY DEF NoOp, Ops
  <1>3. LET o == [NoOp EXCEPT !.path = p, !.parent = par, !.need = 1,
                              !.mkdir = TRUE, !.add = TRUE]
        IN  /\ o \in Ops /\ o.path = p /\ o.parent = par /\ o.free = 0
            /\ o.payload = <<>> /\ o.need = 1 /\ o.mkdir = TRUE /\ o.add = TRUE
            /\ o.del = FALSE
    BY <1>1 DEF NoOp, Ops
  <1>4. LET o == [NoOp EXCEPT !.path = p, !.parent = par, !.free = fr, !.del = TRUE]
        IN  /\ o \in Ops /\ o.path = p /\ o.parent = par /\ o.free = fr
            /\ o.payload = <<>> /\ o.need = 0 /\ o.mkdir = FALSE /\ o.add = FALSE
            /\ o.del = TRUE
    BY <1>1 DEF NoOp, Ops
  <1>5. LET o == [NoOp EXCEPT !.path = p, !.parent = par, !.add = TRUE]
        IN  /\ o \in Ops /\ o.path = p /\ o.parent = par /\ o.free = 0
            /\ o.payload = <<>> /\ o.need = 0 /\ o.mkdir = FALSE /\ o.add = TRUE
            /\ o.del = FALSE
    BY <1>1 DEF NoOp, Ops
  <1> QED BY <1>2, <1>3, <1>4, <1>5 DEF Fields

\* ... and with an old entry to replace.
LEMMA ReplacingOp ==
    ASSUME NEW o, NEW p, NEW par, NEW fr \in {0} \cup DataClusters, NEW x, NEW nd,
           Fields(o, p, par, 0, x, nd, FALSE, TRUE, FALSE)
    PROVE  Fields([o EXCEPT !.free = fr, !.del = TRUE],
                  p, par, fr, x, nd, FALSE, TRUE, TRUE)
  <1>1. o \in Ops
    BY DEF Fields
  <1>2. LET r == [o EXCEPT !.free = fr, !.del = TRUE]
        IN  /\ r \in Ops /\ r.path = o.path /\ r.parent = o.parent
            /\ r.payload = o.payload /\ r.need = o.need /\ r.free = fr
    BY <1>1 DEF Ops
  <1>3. LET r == [o EXCEPT !.free = fr, !.del = TRUE]
        IN  r.mkdir = o.mkdir /\ r.add = o.add /\ r.del = TRUE
    BY <1>1 DEF Ops
  <1> QED BY <1>2, <1>3 DEF Fields

\* The parent directory of an operation, and what is found in it.
LEMMA ParentFound ==
    ASSUME fat[1] \in Fats, data \in DataAreas, NEW p \in Paths, p # <<>>,
           NEW e, e = Lookup(Parent(p)), e.k # "error", e.dir
    PROVE  /\ e.cluster \in DataClusters /\ e = LookIn(fat[1], data, Parent(p))
           /\ \A n : /\ FindInDir(e.cluster, n) = FindIn(fat[1], data, e.cluster, n)
                     /\ FindInDir(e.cluster, n).k # "error" =>
                           /\ FindInDir(e.cluster, n) \in Entries
                           /\ FindInDir(e.cluster, n).cluster \in {0} \cup DataClusters
  <1>1. p \in Seq(Names) /\ Parent(p) \in Seq(Names) /\ Len(Parent(p)) \in Nat
    BY PathFacts
  <1>2. Lookup(Parent(p)) = LookIn(fat[1], data, Parent(p))
    BY <1>1, LookNow
  <1>3. e.cluster \in DataClusters
    BY <1>1, <1>2, LookType
  <1> QED BY <1>2, <1>3, FindNow, FindType, FoundFacts

\* An operation that writes x starts, on a file or on a name that is free.
StartsWrite(p, x) ==
    \E o, par, old :
        /\ p # <<>> /\ par = Lookup(Parent(p)) /\ par.k # "error" /\ par.dir
        /\ par.cluster \in DataClusters
        /\ old = FindIn(fat[1], data, par.cluster, Last(p)) /\ Start(o)
        /\ \/ /\ old.k = "error"
              /\ Fields(o, p, par.cluster, 0, x, ClustersFor(Len(x)),
                        FALSE, TRUE, FALSE)
           \/ /\ old.k # "error" /\ ~old.dir
              /\ Fields(o, p, par.cluster, old.cluster, x,
                        ClustersFor(Len(x)), FALSE, TRUE, TRUE)

\* What it starts with, from the record for a free name.
LEMMA StartsFrom ==
    ASSUME fat[1] \in Fats, data \in DataAreas, NEW p \in Paths, NEW x \in Seq(Nat),
           NEW e, NEW old, NEW new, p # <<>>, e = Lookup(Parent(p)), e.k = "entry", e.dir,
           old = FindInDir(e.cluster, Last(p)),
           Fields(new, p, e.cluster, 0, x, ClustersFor(Len(x)), FALSE, TRUE, FALSE),
           \/ old.k = "error" /\ Start(new)
           \/ /\ old.k # "error" /\ ~old.dir
              /\ Start([new EXCEPT !.free = old.cluster, !.del = TRUE])
    PROVE  StartsWrite(p, x)
  <1>1. /\ e.cluster \in DataClusters
        /\ old = FindIn(fat[1], data, e.cluster, Last(p))
        /\ old.k # "error" => old.cluster \in {0} \cup DataClusters
    BY ParentFound
  <1>2. ASSUME old.k # "error"
        PROVE  Fields([new EXCEPT !.free = old.cluster, !.del = TRUE], p, e.cluster,
                      old.cluster, x, ClustersFor(Len(x)), FALSE, TRUE, TRUE)
    BY <1>1, <1>2, ReplacingOp
  <1> QED BY <1>1, <1>2 DEF StartsWrite

\* write_file.
LEMMA WriteFound ==
    ASSUME fat[1] \in Fats, data \in DataAreas, NEW p \in Paths,
           NEW x \in Seq(Nat), BeginWrite(p, x), ~Reject
    PROVE  StartsWrite(p, x)
  <1> DEFINE e == Lookup(Parent(p))
             old == FindInDir(e.cluster, Last(p))
             new == [NoOp EXCEPT !.path = p, !.parent = e.cluster, !.payload = x,
                                 !.need = ClustersFor(Len(x)), !.add = TRUE]
  <1>1. p # <<>> /\ e.k = "entry" /\ e.dir
    BY DEF BeginWrite, IsDir
  <1>2. \/ old.k = "error" /\ Start(new)
        \/ /\ old.k # "error" /\ ~old.dir
           /\ Start([new EXCEPT !.free = old.cluster, !.del = TRUE])
    <2> HIDE DEF new
    <2> QED BY <1>1 DEF BeginWrite, IsDir, new
  <1> HIDE DEF e
  <1>3. e.cluster \in DataClusters
    BY <1>1, ParentFound DEF e
  <1>4. Fields(new, p, e.cluster, 0, x, ClustersFor(Len(x)), FALSE, TRUE, FALSE)
    <2>1. ClustersFor(Len(x)) \in Nat /\ 0 \in {0} \cup DataClusters
      BY ClustersForFacts
    <2> QED BY <1>3, <2>1, NewOps
  <1> HIDE DEF new, old
  <1> QED BY <1>1, <1>2, <1>4, StartsFrom DEF e, old

\* create_file is a write of nothing.
LEMMA CreateFound ==
    ASSUME fat[1] \in Fats, data \in DataAreas, NEW p \in Paths, CreateFile(p), ~Reject
    PROVE  StartsWrite(p, <<>>)
  <1> DEFINE e == Lookup(Parent(p))
             old == FindInDir(e.cluster, Last(p))
             new == [NoOp EXCEPT !.path = p, !.parent = e.cluster, !.add = TRUE]
  <1>1. p # <<>> /\ e.k = "entry" /\ e.dir
    BY DEF CreateFile, IsDir
  <1>2. \/ old.k = "error" /\ Start(new)
        \/ /\ old.k # "error" /\ ~old.dir
           /\ Start([new EXCEPT !.free = old.cluster, !.del = TRUE])
    <2> HIDE DEF new
    <2> QED BY <1>1 DEF CreateFile, IsDir, new
  <1> HIDE DEF e
  <1>3. e.cluster \in DataClusters
    BY <1>1, ParentFound DEF e
  <1>5. Fields(new, p, e.cluster, 0, <<>>, 0, FALSE, TRUE, FALSE)
    <2>1. 0 \in Nat /\ 0 \in {0} \cup DataClusters /\ <<>> \in Seq(Nat)
      OBVIOUS
    <2> QED BY <1>3, <2>1, NewOps
  <1> HIDE DEF new, old
  <1>6. PICK x : x = <<>>
    OBVIOUS
  <1>7. /\ x \in Seq(Nat)
        /\ Fields(new, p, e.cluster, 0, x, ClustersFor(Len(x)), FALSE, TRUE, FALSE)
    <2>1. x \in Seq(Nat) /\ Len(x) = 0
      BY <1>6
    <2>2. ClustersFor(Len(x)) = 0
      BY <2>1, ClustersForFacts
    <2>3. Fields(new, p, e.cluster, 0, x, 0, FALSE, TRUE, FALSE)
      BY <1>5, <1>6
    <2> QED BY <2>1, <2>2, <2>3
  <1>8. StartsWrite(p, x)
    BY <1>1, <1>2, <1>7, StartsFrom DEF e, old
  <1> QED BY <1>6, <1>8

\* Where an operation starts from.
Begins == \E o \in Ops : /\ pc = "idle" /\ Start(o) /\ Sound(o)
                         /\ ~Tainted(o.path) /\ Chosen(fat[1], data, o)

\* What a write starts with is sound.
LEMMA WriteBegins ==
    ASSUME fat[1] \in Fats, data \in DataAreas, NEW p \in Paths, NEW x \in Seq(Nat),
           StartsWrite(p, x), pc = "idle", ~Tainted(p),
           \/ x = <<>> \/ x \in Payloads
           \/ /\ LookIn(fat[1], data, p).k # "error"
              /\ \E y \in Payloads : x = BytesIn(fat[1], data, LookIn(fat[1], data, p)) \o y
    PROVE  Begins
  <1> DEFINE f == fat[1]
             d == data
  <1>1. PICK o, par, old :
            /\ p # <<>> /\ par = Lookup(Parent(p)) /\ par.k # "error" /\ par.dir
            /\ par.cluster \in DataClusters
            /\ old = FindIn(f, d, par.cluster, Last(p)) /\ Start(o)
            /\ \/ /\ old.k = "error"
                  /\ Fields(o, p, par.cluster, 0, x, ClustersFor(Len(x)),
                            FALSE, TRUE, FALSE)
               \/ /\ old.k # "error" /\ ~old.dir
                  /\ Fields(o, p, par.cluster, old.cluster, x,
                            ClustersFor(Len(x)), FALSE, TRUE, TRUE)
    BY Zenon DEF StartsWrite
  <1>2. /\ o \in Ops /\ o.path = p /\ o.parent = par.cluster /\ o.payload = x
        /\ o.need = ClustersFor(Len(x)) /\ ~o.mkdir /\ o.add
        /\ \/ old.k = "error" /\ o.free = 0 /\ ~o.del
           \/ old.k # "error" /\ ~old.dir /\ o.free = old.cluster /\ o.del
    BY <1>1 DEF Fields
  <1>3. p \in Seq(Names) /\ Parent(p) \in Seq(Names) /\ Len(Parent(p)) \in Nat
    BY <1>1, PathFacts
  <1>4. par = LookIn(f, d, Parent(p))
    BY <1>1, <1>3, LookNow
  <1>5. LookIn(f, d, p) = old
    <2>1. LookIn(f, d, p) = EnterIn(f, d, par, Last(p))
      BY <1>1, <1>3, <1>4, LookChild
    <2> QED BY <1>1, <2>1 DEF EnterIn
  <1>6. Sound(o)
    BY <1>1, <1>2 DEF Sound
  <1> HIDE DEF f, d
  <1>7. Chosen(f, d, o)
    <2>1. /\ par.k # "error" /\ par.dir /\ par.cluster = o.parent
          /\ par = LookIn(f, d, Parent(o.path))
          /\ old = FindIn(f, d, o.parent, Last(o.path))
      BY <1>1, <1>2, <1>4
    <2>2. o.del <=> old.k # "error"
      BY <1>2
    <2>3. o.del => o.free = old.cluster /\ ~old.dir
      BY <1>2
    <2>4. \/ o.payload = <<>> \/ o.payload \in Payloads
          \/ /\ o.del
             /\ \E y \in Payloads : o.payload = BytesIn(f, d, old) \o y
      BY <1>2, <1>5, <2>2 DEF f, d
    <2> QED BY <2>1, <2>2, <2>3, <2>4 DEF Chosen
  <1> QED BY <1>1, <1>2, <1>6, <1>7 DEF Begins, f, d

\* create_dir starts on a name that is free.
LEMMA MkdirBegins ==
    ASSUME fat[1] \in Fats, data \in DataAreas, NEW p \in Paths, CreateDir(p),
           ~Reject, ~Tainted(p)
    PROVE  Begins
  <1> DEFINE f == fat[1]
             d == data
             e == Lookup(Parent(p))
             old == FindInDir(e.cluster, Last(p))
             o == [NoOp EXCEPT !.path = p, !.parent = e.cluster, !.need = 1,
                               !.mkdir = TRUE, !.add = TRUE]
  <1>1. p # <<>> /\ e.k = "entry" /\ e.dir /\ pc = "idle"
    BY DEF CreateDir, IsDir
  <1>2. old.k = "error" /\ Start(o)
    <2> HIDE DEF o
    <2> QED BY <1>1 DEF CreateDir, IsDir, o
  <1> HIDE DEF e
  <1>3. /\ e.cluster \in DataClusters /\ e = LookIn(f, d, Parent(p))
        /\ old = FindIn(f, d, e.cluster, Last(p))
    BY <1>1, ParentFound DEF e
  <1>4. Fields(o, p, e.cluster, 0, <<>>, 1, TRUE, TRUE, FALSE)
    <2>1. 0 \in Nat /\ 0 \in {0} \cup DataClusters /\ <<>> \in Seq(Nat)
      OBVIOUS
    <2> QED BY <1>3, <2>1, NewOps
  <1> HIDE DEF o, old
  <1>5. /\ o \in Ops /\ o.path = p /\ o.parent = e.cluster /\ o.payload = <<>>
        /\ o.need = 1 /\ o.mkdir /\ o.add /\ o.free = 0 /\ ~o.del
    BY <1>4 DEF Fields
  <1>6. Sound(o)
    BY <1>1, <1>3, <1>5 DEF Sound
  <1> HIDE DEF f, d
  <1>7. Chosen(f, d, o)
    BY <1>1, <1>2, <1>3, <1>5 DEF Chosen
  <1> QED BY <1>1, <1>2, <1>5, <1>6, <1>7 DEF Begins, f, d

\* remove starts on a file or on an empty directory.
LEMMA RemoveBegins ==
    ASSUME fat[1] \in Fats, data \in DataAreas, NEW p \in Paths, Remove(p),
           ~Reject, ~Tainted(p)
    PROVE  Begins
  <1> DEFINE f == fat[1]
             d == data
             e == Lookup(Parent(p))
             old == FindInDir(e.cluster, Last(p))
             o == [NoOp EXCEPT !.path = p, !.parent = e.cluster,
                               !.free = old.cluster, !.del = TRUE]
  <1>1. p # <<>> /\ e.k # "error" /\ e.dir /\ pc = "idle"
    BY DEF Remove
  <1>2. /\ old.k # "error" /\ Start(o)
        /\ old.dir => DOMAIN ReadDir(old.cluster) = {}
    <2> HIDE DEF o
    <2> QED BY <1>1 DEF Remove, o
  <1> HIDE DEF e
  <1>3. /\ e.cluster \in DataClusters /\ e = LookIn(f, d, Parent(p))
        /\ old = FindIn(f, d, e.cluster, Last(p))
        /\ old.cluster \in {0} \cup DataClusters
    BY <1>1, <1>2, ParentFound DEF e
  <1>4. Fields(o, p, e.cluster, old.cluster, <<>>, 0, FALSE, FALSE, TRUE)
    <2> HIDE DEF old
    <2>1. 0 \in Nat /\ <<>> \in Seq(Nat)
      OBVIOUS
    <2> QED BY <1>3, <2>1, NewOps
  <1> HIDE DEF o, old
  <1>5. /\ o \in Ops /\ o.path = p /\ o.parent = e.cluster /\ o.payload = <<>>
        /\ o.need = 0 /\ ~o.mkdir /\ ~o.add /\ o.free = old.cluster /\ o.del
    BY <1>4 DEF Fields
  <1>6. Sound(o)
    <2>1. ClustersFor(Len(o.payload)) = 0
      <3>1. Len(o.payload) = 0
        BY <1>5
      <3> QED BY <3>1, ClustersForFacts
    <2> QED BY <1>1, <1>3, <1>5, <2>1 DEF Sound
  <1>7. old.dir => DOMAIN DirIn(f, d, old.cluster) = {}
    BY <1>2, DirNow
  <1> HIDE DEF f, d
  <1>8. Chosen(f, d, o)
    BY <1>1, <1>2, <1>3, <1>5, <1>7 DEF Chosen
  <1> QED BY <1>1, <1>2, <1>5, <1>6, <1>8 DEF Begins, f, d

\* An operation that is not refused starts with what it found.
LEMMA CallFound ==
    ASSUME fat[1] \in Fats, data \in DataAreas, Call
    PROVE  Reject \/ (\E p \in Paths : Beyond(p)) \/ Begins
  <1>1. SUFFICES ASSUME ~Reject, ~(\E p \in Paths : Beyond(p)) PROVE Begins
    OBVIOUS
  <1>2. PICK p \in Paths :
            /\ ~Tainted(p)
            /\ \/ CreateFile(p) \/ CreateDir(p) \/ Remove(p)
               \/ \E x \in Payloads : WriteFile(p, x) \/ AppendFile(p, x)
    BY <1>1 DEF Call
  <1>3. \A x \in Payloads : x \in Seq(Nat)
    BY FatAssumption
  <1>4. CASE CreateFile(p)
    <2>1. StartsWrite(p, <<>>) /\ pc = "idle"
      BY <1>1, <1>4, CreateFound DEF CreateFile
    <2>2. PICK x : x = <<>>
      OBVIOUS
    <2>3. x \in Seq(Nat)
      BY <2>2
    <2> QED BY <1>2, <2>1, <2>2, <2>3, WriteBegins
  <1>5. CASE \E x \in Payloads : WriteFile(p, x)
    <2>1. PICK x \in Payloads : WriteFile(p, x)
      BY <1>5
    <2>2. StartsWrite(p, x) /\ pc = "idle"
      BY <1>1, <1>3, <2>1, WriteFound DEF WriteFile
    <2> QED BY <1>2, <1>3, <2>2, WriteBegins
  <1>6. CASE \E x \in Payloads : AppendFile(p, x)
    <2>1. PICK x \in Payloads : AppendFile(p, x)
      BY <1>6
    <2> DEFINE e == Lookup(p)
    <2>2. p \in Seq(Names) /\ Len(p) \in Nat
      BY PathFacts
    <2>3. e = LookIn(fat[1], data, p)
      BY <2>2, LookNow
    <2>4. pc = "idle" /\ \/ BeginWrite(p, x)
                         \/ e.k # "error" /\ ~e.dir /\ BeginWrite(p, FileBytes(e) \o x)
      BY <1>1, <2>1 DEF AppendFile
    <2> HIDE DEF e
    <2>5. CASE BeginWrite(p, x)
      BY <1>1, <1>2, <1>3, <2>4, <2>5, WriteFound, WriteBegins
    <2>6. CASE e.k # "error" /\ ~e.dir /\ BeginWrite(p, FileBytes(e) \o x)
      <3>1. e \in Entries
        BY <2>2, <2>3, <2>6, LookType, FoundFacts
      <3>2. FileBytes(e) = BytesIn(fat[1], data, e) /\ FileBytes(e) \in Seq(Nat)
        BY <3>1, BytesNow, BytesType
      <3>3. PICK y : y = FileBytes(e) \o x
        OBVIOUS
      <3>4. y \in Seq(Nat)
        BY <1>3, <3>2, <3>3
      <3>5. StartsWrite(p, y)
        BY <1>1, <2>6, <3>3, <3>4, WriteFound
      <3>6. y = BytesIn(fat[1], data, LookIn(fat[1], data, p)) \o x
        BY <2>3, <3>2, <3>3
      <3> QED BY <1>2, <2>3, <2>4, <2>6, <3>4, <3>5, <3>6, WriteBegins
    <2> QED BY <2>4, <2>5, <2>6
  <1> QED BY <1>1, <1>2, <1>4, <1>5, <1>6, MkdirBegins, RemoveBegins

-----------------------------------------------------------------------------
(* Types.                                                                  *)

Phases == {"idle", "free", "freeinfo", "delete", "mark", "zero", "link",
           "allocinfo", "data", "add", "done", "failed", "beyond"}

TypeInv ==
    /\ fat \in [1..NumFats -> Fats] /\ data \in DataAreas
    /\ freeInfo \in Nat \cup {Unknown}
    /\ pc \in Phases /\ op \in Ops
    /\ cl \in {0} \cup Clusters /\ nxt \in {Free, EOC} \cup DataClusters
    /\ head \in {0} \cup DataClusters /\ tail \in {0} \cup DataClusters
    /\ copy \in 1..NumFats /\ cnt \in Nat /\ growing \in BOOLEAN
    /\ faults \in 0..MaxFaults /\ bad \subseteq Paths /\ reused \in BOOLEAN

OpInv == pc \notin {"idle", "beyond"} => Sound(op)

\* The registers, phase by phase.
PhaseInv ==
    /\ copy > 1 => pc \in {"free", "mark", "link", "failed"}
    /\ growing => pc \in {"mark", "zero", "link", "allocinfo", "failed"}
    /\ pc = "free" => cl \in DataClusters
    /\ pc \in {"free", "freeinfo", "delete"} => head = 0 /\ tail = 0 /\ op.del
    /\ pc \in {"delete", "add"} => cnt = 0
    /\ pc = "zero" \/ (pc = "mark" /\ copy > 1) => cl \in Clusters /\ fat[1][cl] = EOC
    /\ pc = "link" => cl \in DataClusters /\ tail \in DataClusters
    /\ growing /\ pc # "failed" => tail \in DataClusters
    /\ growing /\ pc \in {"mark", "zero", "link"} => cnt = 0
    /\ growing /\ pc = "allocinfo" => cnt = 1
    /\ pc \in {"add", "done"} \/ growing =>
          IF op.need > 0 THEN head \in DataClusters ELSE head = 0
    /\ pc = "add" \/ growing => op.add

\* The clusters of the chain under construction, in their order.
Building(s) ==
    /\ \A i \in 1..(Len(s) - 1) : fat[1][s[i]] = s[i + 1]
    /\ Len(s) > 0 => /\ head = s[1]
                     /\ fat[1][s[Len(s)]] = IF pc = "link" /\ copy > 1 THEN cl ELSE EOC
    /\ pc \in {"mark", "zero", "link"} =>
          /\ Len(s) = cnt /\ cnt < op.need
          /\ IF cnt = 0 THEN head = 0 /\ tail = 0 ELSE tail = s[cnt]
    /\ pc = "link" => cnt > 0 /\ fat[1][cl] = EOC
    /\ pc \in {"zero", "link"} \/ (pc = "mark" /\ copy > 1) =>
          \A i \in 1..Len(s) : s[i] # cl
    /\ pc \in {"allocinfo", "data"} => Len(s) = op.need
    /\ pc = "allocinfo" => cnt = op.need
    /\ pc = "data" => cnt < op.need /\ cl = s[cnt + 1]

BuildInv ==
    (pc \in {"mark", "zero", "link", "allocinfo", "data"} /\ ~growing) =>
        op.need > 0 /\ \E s \in Seq(DataClusters) : Building(s)

DiskInv == TypeInv /\ OpInv /\ PhaseInv /\ BuildInv

\* G is F after entry c of copy k was written.
Wrote(F, k, c, v, G) == G = [F EXCEPT ![k][c] = v]

\* What that makes of copy 0, which is f before and g after it.
FirstCopy(f, k, c, v, g) ==
    /\ IF k = 1 THEN g[c] = v ELSE g = f
    /\ \A x \in Clusters : x # c => g[x] = f[x]

\* One write of write_fat_entry.
LEMMA FatWrite ==
    ASSUME NEW F \in [1..NumFats -> Fats], NEW k \in 1..NumFats, NEW c \in Clusters,
           NEW v \in {Free, EOC} \cup DataClusters, NEW G, Wrote(F, k, c, v, G)
    PROVE  /\ G \in [1..NumFats -> Fats]
           /\ \A x \in Clusters : G[k][x] = IF x = c THEN v ELSE F[k][x]
           /\ \A i \in 1..NumFats : i # k => G[i] = F[i]
           /\ F[1] \in Fats /\ G[1] \in Fats
           /\ FirstCopy(F[1], k, c, v, G[1])
  <1> USE DEF Wrote
  <1>1. G[k] = [F[k] EXCEPT ![c] = v] /\ \A i \in 1..NumFats : i # k => G[i] = F[i]
    OBVIOUS
  <1>2. F[k] \in Fats /\ G[k] \in Fats
    BY <1>1 DEF Fats
  <1>3. \A x \in Clusters : G[k][x] = IF x = c THEN v ELSE F[k][x]
    BY <1>1, <1>2 DEF Fats
  <1>4. G \in [1..NumFats -> Fats]
    <2>1. \A i \in 1..NumFats : G[i] \in Fats
      BY <1>1, <1>2
    <2>2. G = [i \in 1..NumFats |-> G[i]]
      OBVIOUS
    <2> QED BY <2>1, <2>2
  <1>5. 1 \in 1..NumFats
    BY Numbers
  <1>6. /\ IF k = 1 THEN G[1][c] = v ELSE G[1] = F[1]
        /\ \A x \in Clusters : x # c => G[1][x] = F[1][x]
    <2>1. CASE k = 1
      BY <1>3, <2>1
    <2>2. CASE k # 1
      BY <1>1, <1>5, <2>2
    <2> QED BY <2>1, <2>2
  <1> QED BY <1>1, <1>3, <1>4, <1>5, <1>6 DEF FirstCopy

\* find_free_cluster.
LEMMA FreeFound ==
    \/ FindFreeCluster = EOC /\ \A c \in Clusters : fat[1][c] # Free
    \/ FindFreeCluster \in Clusters /\ fat[1][FindFreeCluster] = Free
  <1> DEFINE T == {c \in Clusters : fat[1][c] = Free}
  <1>1. CASE T = {}
    BY <1>1 DEF FindFreeCluster
  <1>2. CASE T # {}
    <2>1. T \subseteq Nat
      BY Numbers DEF Clusters
    <2>2. PICK m \in T : \A k \in T : m <= k
      <3> HIDE DEF T
      <3> QED BY <1>2, <2>1, LeastNumber
    <2>3. m \in Clusters /\ fat[1][m] = Free
      OBVIOUS
    <2>4. ASSUME NEW x \in 2..(m - 1) PROVE fat[1][x] # Free
      <3>1. x \in Clusters /\ ~(m <= x)
        BY <2>3, Numbers DEF Clusters
      <3> QED BY <2>2, <3>1
    <2>5. \E c \in Clusters :
            fat[1][c] = Free /\ \A x \in 2..(c - 1) : fat[1][x] # Free
      BY <2>3, <2>4
    <2>6. FindFreeCluster = CHOOSE c \in Clusters :
            fat[1][c] = Free /\ \A x \in 2..(c - 1) : fat[1][x] # Free
      BY <2>3 DEF FindFreeCluster
    <2> QED BY <2>5, <2>6
  <1> QED BY <1>1, <1>2

\* e is d after the unit i of c was written, or all of c.
WroteUnit(d, c, i, u, e) == e = [d EXCEPT ![c][i] = u]
WroteCluster(d, c, z, e) == e = [d EXCEPT ![c] = z]

\* One write into a directory.
LEMMA SlotWrite ==
    ASSUME NEW d \in DataAreas, NEW c \in DataClusters, NEW i \in 1..ClusterUnits,
           NEW u \in Units, NEW e, WroteUnit(d, c, i, u, e)
    PROVE  /\ e \in DataAreas
           /\ \A x \in DataClusters, j \in 1..ClusterUnits :
                 e[x][j] = IF x = c /\ j = i THEN u ELSE d[x][j]
           /\ \A x \in DataClusters : x # c => e[x] = d[x]
  BY DEF DataAreas, WroteUnit

\* ... and into a whole cluster.
LEMMA ClusterWrite ==
    ASSUME NEW d \in DataAreas, NEW c, NEW z \in [1..ClusterUnits -> Units], NEW e,
           WroteCluster(d, c, z, e)
    PROVE  /\ e \in DataAreas
           /\ \A x \in DataClusters : e[x] = IF x = c THEN z ELSE d[x]
  BY DEF DataAreas, WroteCluster

\* Where an operation goes after the old entry is gone.
LEMMA AfterFacts ==
    ASSUME NEW o, Sound(o), o \in Ops
    PROVE  /\ o.need > 0 => o.add /\ AfterDelete(o) = "mark"
           /\ o.need = 0 => AfterDelete(o) = IF o.add THEN "add" ELSE "done"
           /\ AfterDelete(o) = "mark" => o.need > 0
           /\ AfterDelete(o) \in {"mark", "add", "done"} /\ o.need \in Nat
  <1>1. Len(o.payload) \in Nat /\ o.need \in Nat
    BY DEF Ops
  <1>2. ASSUME ~o.add PROVE o.need = 0
    <2>1. o.payload = <<>> /\ ~o.mkdir
      BY <1>2 DEF Sound
    <2>2. Len(o.payload) = 0 /\ o.need = ClustersFor(Len(o.payload))
      BY <2>1 DEF Sound
    <2> QED BY <2>2, ClustersForFacts
  <1> QED BY <1>1, <1>2 DEF AfterDelete

\* What the registers are reset to.
LEMMA Resets ==
    /\ 1 \in 1..NumFats /\ 0 \in {0} \cup Clusters /\ 0 \in {0} \cup DataClusters
    /\ 0 \in {Free, EOC} \cup DataClusters /\ 0 \in Nat /\ FALSE \in BOOLEAN
    /\ Free \in {Free, EOC} \cup DataClusters /\ EOC \in {Free, EOC} \cup DataClusters
    /\ \A x \in {0} \cup DataClusters : x \in {0} \cup Clusters
  BY Numbers

\* Between operations there is nothing in the registers.
LEMMA IdleDisk ==
    ASSUME pc' \in {"idle", "beyond"}, copy' = 1, growing' = FALSE
    PROVE  OpInv' /\ PhaseInv' /\ BuildInv'
  BY DEF OpInv, PhaseInv, BuildInv

\* The old entry is gone, or there was none, and nothing is allocated yet.
LEMMA Cleared ==
    ASSUME op' \in Ops, Sound(op)', pc' = AfterDelete(op)', head' = 0, tail' = 0,
           cnt' = 0, copy' = 1, growing' = FALSE
    PROVE  OpInv' /\ PhaseInv' /\ BuildInv'
  <1>1. PICK o : o = op'
    OBVIOUS
  <1>2. Sound(o) /\ o \in Ops /\ pc' = AfterDelete(o)
    BY <1>1
  <1>3. /\ o.need > 0 => o.add /\ pc' = "mark"
        /\ o.need = 0 => pc' = IF o.add THEN "add" ELSE "done"
        /\ pc' = "mark" => o.need > 0
        /\ pc' \in {"mark", "add", "done"} /\ o.need \in Nat
    BY <1>2, AfterFacts
  <1>4. OpInv'
    BY <1>1, <1>2 DEF OpInv
  <1>5. PhaseInv'
    BY <1>1, <1>3 DEF PhaseInv
  <1>6. BuildInv'
    <2>1. <<>> \in Seq(DataClusters) /\ Len(<<>>) = 0
      OBVIOUS
    <2>2. ASSUME pc' = "mark" PROVE Building(<<>>)'
      BY <1>1, <1>3, <2>1, <2>2 DEF Building
    <2> QED BY <1>1, <1>3, <2>1, <2>2 DEF BuildInv
  <1> QED BY <1>4, <1>5, <1>6

\* The calls.
LEMMA CallDisk ==
    ASSUME DiskInv, Call
    PROVE  DiskInv'
  <1>1. fat[1] \in Fats /\ data \in DataAreas
    BY Numbers DEF DiskInv, TypeInv
  <1>2. CASE Reject
    BY <1>2 DEF DiskInv, TypeInv, OpInv, PhaseInv, BuildInv, Building, Reject, diskVars,
                regVars, histVars
  <1>3. CASE \E p \in Paths : Beyond(p)
    <2>1. PICK p \in Paths : Beyond(p)
      BY <1>3
    <2>2. TypeInv'
      BY <2>1 DEF DiskInv, TypeInv, Beyond, diskVars, regVars, histVars, Phases
    <2>3. copy = 1 /\ growing = FALSE
      BY <2>1, Numbers DEF Beyond, DiskInv, PhaseInv, TypeInv
    <2> QED BY <2>1, <2>2, <2>3, IdleDisk DEF Beyond, DiskInv, regVars
  <1>4. CASE Begins
    <2>1. PICK o \in Ops : pc = "idle" /\ Start(o) /\ Sound(o)
      BY <1>4 DEF Begins
    <2>2. /\ op' = o /\ pc' = FirstPhase(o) /\ cl' = o.free /\ nxt' = 0 /\ copy' = 1
          /\ head' = 0 /\ tail' = 0 /\ cnt' = 0 /\ growing' = FALSE
          /\ UNCHANGED <<fat, data, freeInfo, faults, bad, reused>>
      BY <2>1 DEF Start, diskVars, histVars
    <2>3. o.free \in {0} \cup DataClusters /\ (IsCluster(o.free) <=> o.free # 0)
      BY Numbers DEF Ops, IsCluster
    <2>4. FirstPhase(o) \in {"free", "delete", "mark", "add", "done"}
      BY DEF FirstPhase, AfterFree, AfterDelete
    <2>5. TypeInv'
      BY <2>2, <2>3, <2>4, Resets DEF DiskInv, TypeInv, Phases
    <2>6. CASE FirstPhase(o) = "free"
      <3>1. o.free # 0 /\ o.del
        BY <2>1, <2>3, <2>6 DEF FirstPhase, AfterFree, AfterDelete, Sound
      <3>2. o.free \in DataClusters
        BY <2>3, <3>1
      <3> QED BY <2>1, <2>2, <2>5, <2>6, <3>1, <3>2
              DEF DiskInv, OpInv, PhaseInv, BuildInv
    <2>7. CASE FirstPhase(o) = "delete"
      <3>1. o.del
        BY <2>7 DEF FirstPhase, AfterFree, AfterDelete
      <3> QED BY <2>1, <2>2, <2>5, <2>7, <3>1
              DEF DiskInv, OpInv, PhaseInv, BuildInv
    <2>8. CASE FirstPhase(o) \notin {"free", "delete"}
      <3>1. pc' = AfterDelete(o)
        BY <2>2, <2>8 DEF FirstPhase, AfterFree
      <3>2. OpInv' /\ PhaseInv' /\ BuildInv'
        BY <2>1, <2>2, <3>1, Cleared
      <3> QED BY <2>5, <3>2 DEF DiskInv
    <2> QED BY <2>6, <2>7, <2>8
  <1> QED BY <1>1, <1>2, <1>3, <1>4, CallFound

\* The returns.
LEMMA ReturnDisk ==
    ASSUME DiskInv, NEW r, Return(r), pc # "idle"
    PROVE  DiskInv'
  <1>1. /\ pc' = "idle" /\ op' = NoOp /\ cl' = 0 /\ nxt' = 0 /\ copy' = 1 /\ head' = 0
        /\ tail' = 0 /\ cnt' = 0 /\ growing' = FALSE
        /\ UNCHANGED <<fat, data, freeInfo, faults>>
        /\ bad' \subseteq bad /\ reused' = (reused /\ bad' # {})
    BY DEF Return, diskVars
  <1>2. NoOp \in Ops
    BY FatAssumption DEF NoOp, Ops
  <1>3. reused' \in BOOLEAN
    BY <1>1
  <1>4. TypeInv'
    BY <1>1, <1>2, <1>3, Resets DEF DiskInv, TypeInv, Phases
  <1> QED BY <1>1, <1>4, IdleDisk DEF DiskInv

\* free_chain.
LEMMA FreeDisk ==
    ASSUME DiskInv, FreeWrite
    PROVE  DiskInv'
  <1> DEFINE next == IF copy = 1 THEN fat[1][cl] ELSE nxt
  <1>1. /\ pc = "free" /\ cl \in DataClusters /\ cl \in Clusters /\ copy \in 1..NumFats
        /\ fat \in [1..NumFats -> Fats] /\ Free \in {Free, EOC} \cup DataClusters
        /\ Wrote(fat, copy, cl, Free, fat')
        /\ cnt \in Nat /\ NumFats \in Nat /\ ~growing
    BY Numbers DEF FreeWrite, DiskInv, TypeInv, PhaseInv, Wrote
  <1>2. fat' \in [1..NumFats -> Fats] /\ fat[1] \in Fats
    BY <1>1, FatWrite
  <1>3. next \in {Free, EOC} \cup DataClusters
    BY <1>1, <1>2 DEF DiskInv, TypeInv, Fats
  <1>4. IsCluster(next) => next \in DataClusters
    BY <1>3, Numbers DEF IsCluster
  <1>5. /\ copy' \in 1..NumFats /\ nxt' \in {Free, EOC} \cup DataClusters /\ cnt' \in Nat
        /\ cl' \in {0} \cup Clusters
        /\ \/ pc' = "free" /\ cl' \in DataClusters
           \/ pc' = "freeinfo" /\ copy' = 1
    <2> HIDE DEF next
    <2>1. \/ /\ copy < NumFats /\ copy' = copy + 1 /\ nxt' = next /\ cl' = cl
             /\ cnt' = cnt /\ pc' = pc
          \/ /\ copy' = 1 /\ nxt' = 0 /\ cnt' = cnt + 1
             /\ cl' = (IF IsCluster(next) THEN next ELSE 0)
             /\ pc' = (IF IsCluster(next) THEN "free" ELSE "freeinfo")
      BY DEF FreeWrite, next
    <2> QED BY <1>1, <1>3, <1>4, <2>1, Numbers
  <1>6. UNCHANGED <<data, freeInfo, op, head, tail, growing, faults, bad, reused>>
    BY DEF FreeWrite, histVars
  <1>7. TypeInv'
    BY <1>2, <1>5, <1>6 DEF DiskInv, TypeInv, Phases
  <1> QED BY <1>1, <1>5, <1>6, <1>7 DEF DiskInv, OpInv, PhaseInv, BuildInv, Sound

\* update_fsinfo after free_chain.
LEMMA FreeInfoDisk ==
    ASSUME DiskInv, NEW ok \in BOOLEAN, FreeInfo(ok), ok \/ faults < MaxFaults
    PROVE  DiskInv'
  <1>1. /\ pc = "freeinfo" /\ cnt' = 0 /\ pc' = AfterFree(op) /\ op' = op
        /\ head' = head /\ tail' = tail /\ copy' = copy /\ growing' = growing
        /\ UNCHANGED <<fat, data, cl, nxt, bad, reused>>
    BY DEF FreeInfo, histVars
  <1>2. /\ head = 0 /\ tail = 0 /\ copy = 1 /\ growing = FALSE /\ op \in Ops
        /\ Sound(op) /\ op.del
    BY <1>1, Numbers DEF DiskInv, TypeInv, PhaseInv, OpInv
  <1>3. freeInfo' \in Nat \cup {Unknown} /\ faults' \in 0..MaxFaults
    <2>1. freeInfo \in Nat \cup {Unknown} /\ cnt \in Nat /\ faults \in 0..MaxFaults /\ MaxFaults \in Nat
      BY FatAssumption DEF DiskInv, TypeInv
    <2>2. \/ faults' = faults /\ freeInfo # Unknown
             /\ freeInfo' = IF freeInfo + cnt < 0 THEN 0 ELSE freeInfo + cnt
          \/ freeInfo' = freeInfo /\ (faults' = faults \/ (faults' = faults + 1 /\ faults < MaxFaults))
      BY DEF FreeInfo, UpdateFsinfo
    <2> QED BY <2>1, <2>2
  <1>4. pc' = "delete"
    BY <1>1, <1>2 DEF AfterFree
  <1>5. TypeInv'
    BY <1>1, <1>3, <1>4, Numbers DEF DiskInv, TypeInv, Phases
  <1> QED BY <1>1, <1>2, <1>4, <1>5, Numbers DEF DiskInv, OpInv, PhaseInv, BuildInv, Sound

\* delete_dir_entry, if it finds an end marker or an entry of the name.
Deletes ==
    /\ pc = "delete"
    /\ LET s == ReadChain(op.parent)
           hits == {End} \cup
                   {u \in RangeOf(s) : IsEntry(u) /\ u.name = Last(op.path)}
           j == FirstIndex(s, hits)
       IN  /\ j <= Len(s)
           /\ IF s[j] = End THEN UNCHANGED data ELSE SetSlot(op.parent, j, Del)
    /\ pc' = AfterDelete(op)
    /\ UNCHANGED <<fat, freeInfo, op, regVars, result, faults, histVars>>

\* ... and if it comes to the end of the chain first.
NotFound ==
    /\ pc = "delete"
    /\ \A j \in 1..Len(ReadChain(op.parent)) :
          LET u == ReadChain(op.parent)[j]
          IN  u # End /\ ~(IsEntry(u) /\ u.name = Last(op.path))
    /\ Return("err")

LEMMA DeleteCases == DeleteDirEntry => Deletes \/ NotFound
  <1> SUFFICES ASSUME DeleteDirEntry, ~Deletes PROVE NotFound
    OBVIOUS
  <1> DEFINE s == ReadChain(op.parent)
             hits == {End} \cup
                     {u \in RangeOf(s) : IsEntry(u) /\ u.name = Last(op.path)}
             j == FirstIndex(s, hits)
  <1>1. Len(s) \in Nat /\ DOMAIN s = 1..Len(s)
    BY UnitsFacts, UnitsNow
  <1>2. pc = "delete" /\ ~(j <= Len(s)) /\ Return("err")
    <2> HIDE DEF s
    <2> QED BY DEF DeleteDirEntry, Deletes, s
  <1> HIDE DEF s
  <1>3. /\ j \in 1..(Len(s) + 1)
        /\ \A i \in 1..(j - 1) : s[i] \notin hits
    <2> HIDE DEF hits
    <2> QED BY <1>1, FirstFacts
  <1> HIDE DEF j
  <1>4. ASSUME NEW i \in 1..Len(s)
        PROVE  s[i] # End /\ ~(IsEntry(s[i]) /\ s[i].name = Last(op.path))
    <2>1. i \in 1..(j - 1) /\ s[i] \in RangeOf(s)
      BY <1>1, <1>2, <1>3 DEF RangeOf
    <2> QED BY <1>3, <2>1
  <1> QED BY <1>2, <1>4 DEF NotFound, s

\* delete_dir_entry stops at the end of the directory or overwrites the first
\* entry of the name.
LEMMA DeleteEffect ==
    ASSUME fat[1] \in Fats, data \in DataAreas, op.parent \in DataClusters,
           Deletes
    PROVE  LET ch == ChainIn(fat[1], op.parent)
               s  == UnitsIn(fat[1], data, op.parent)
               Named(u) == u.k = "entry" /\ u.name = Last(op.path)
           IN  \E j \in 1..Len(s) :
                  /\ \A i \in 1..(j - 1) : s[i] # End /\ ~Named(s[i])
                  /\ \/ s[j] = End /\ data' = data
                     \/ /\ Named(s[j])
                        /\ WroteUnit(data, Place(ch, j)[1], Place(ch, j)[2], Del, data')
  <1> DEFINE ch == ChainIn(fat[1], op.parent)
             s  == UnitsIn(fat[1], data, op.parent)
             Named(u) == u.k = "entry" /\ u.name = Last(op.path)
             hits == {End} \cup {u \in RangeOf(s) : IsEntry(u) /\ u.name = Last(op.path)}
             j == FirstIndex(s, hits)
  <1>1. s = ReadChain(op.parent) /\ ch = Chain(op.parent)
    BY UnitsNow, ChainNow
  <1>2. Len(s) \in Nat /\ DOMAIN s = 1..Len(s)
    BY UnitsFacts
  <1>3. /\ j <= Len(s)
        /\ IF s[j] = End THEN data' = data
           ELSE data' = [data EXCEPT ![ch[(j - 1) \div ClusterUnits + 1]]
                                     [((j - 1) % ClusterUnits) + 1] = Del]
    <2> HIDE DEF s, ch
    <2> QED BY <1>1 DEF Deletes, SetSlot
  <1> HIDE DEF s, ch
  <1>4. /\ j \in 1..(Len(s) + 1)
        /\ j <= Len(s) => s[j] \in hits
        /\ \A i \in 1..(j - 1) : s[i] \notin hits
    <2> HIDE DEF hits
    <2> QED BY <1>2, FirstFacts
  <1> HIDE DEF j
  <1>5. j \in 1..Len(s) /\ (s[j] = End \/ Named(s[j]))
    BY <1>2, <1>3, <1>4 DEF IsEntry
  <1>6. ASSUME NEW i \in 1..(j - 1) PROVE s[i] # End /\ ~Named(s[i])
    <2>1. i \in DOMAIN s /\ s[i] \in RangeOf(s)
      BY <1>2, <1>5 DEF RangeOf
    <2> QED BY <1>4, <2>1 DEF IsEntry
  <1>7. s[j] = End => data' = data
    BY <1>3
  <1>8. s[j] # End => WroteUnit(data, Place(ch, j)[1], Place(ch, j)[2], Del, data')
    BY <1>3 DEF WroteUnit, Place
  <1> QED BY <1>5, <1>6, <1>7, <1>8 DEF s, ch

\* add_dir_entry overwrites the first slot that is free or deleted.
LEMMA AddEffect ==
    ASSUME fat[1] \in Fats, data \in DataAreas, op.parent \in DataClusters, AddDirEntry
    PROVE  LET ch == ChainIn(fat[1], op.parent)
               s  == UnitsIn(fat[1], data, op.parent)
               e  == Entry(Short[Last(op.path)], op.mkdir, head, Len(op.payload))
           IN  \E j \in 1..Len(s) :
                  /\ s[j] \in FreeSlots
                  /\ \A i \in 1..(j - 1) : s[i] \notin FreeSlots
                  /\ WroteUnit(data, Place(ch, j)[1], Place(ch, j)[2], e, data')
  <1> DEFINE ch == ChainIn(fat[1], op.parent)
             s  == UnitsIn(fat[1], data, op.parent)
             e  == Entry(Short[Last(op.path)], op.mkdir, head, Len(op.payload))
             j == FirstIndex(s, FreeSlots)
  <1>1. s = ReadChain(op.parent) /\ ch = Chain(op.parent)
    BY UnitsNow, ChainNow
  <1>2. Len(s) \in Nat
    BY UnitsFacts
  <1>3. /\ j <= Len(s)
        /\ data' = [data EXCEPT ![ch[(j - 1) \div ClusterUnits + 1]]
                                [((j - 1) % ClusterUnits) + 1] = e]
    <2> HIDE DEF s, ch, e
    <2> QED BY <1>1 DEF AddDirEntry, SetSlot, e
  <1> HIDE DEF s, ch, e
  <1>4. /\ j \in 1..(Len(s) + 1)
        /\ j <= Len(s) => s[j] \in FreeSlots
        /\ \A i \in 1..(j - 1) : s[i] \notin FreeSlots
    BY <1>2, FirstFacts
  <1> HIDE DEF j
  <1>5. j \in 1..Len(s) /\ s[j] \in FreeSlots
    BY <1>2, <1>3, <1>4
  <1>6. WroteUnit(data, Place(ch, j)[1], Place(ch, j)[2], e, data')
    BY <1>3 DEF WroteUnit, Place
  <1> QED BY <1>4, <1>5, <1>6 DEF s, ch, e

\* The entry that is added has the type of an entry.
LEMMA AddedEntry ==
    ASSUME DiskInv, pc = "add"
    PROVE  /\ Entry(Short[Last(op.path)], op.mkdir, head, Len(op.payload)) \in Entries
           /\ Last(op.path) \in Names
  <1>1. /\ Sound(op) /\ op \in Ops /\ head \in {0} \cup DataClusters /\ op.need \in Nat
        /\ op.need > 0 => head \in DataClusters
    BY DEF DiskInv, OpInv, TypeInv, PhaseInv, Ops
  <1>2. op.path \in Seq(Names) /\ op.path # <<>>
    BY <1>1, PathFacts DEF Ops, Sound
  <1>3. Last(op.path) \in Names /\ Short[Last(op.path)] \in Names
    BY <1>2, PathFacts, FatAssumption
  <1>4. op.mkdir => head # 0
    <2>1. op.mkdir => op.need = 1
      BY <1>1 DEF Sound
    <2> QED BY <1>1, <2>1, Numbers
  <1>5. op.mkdir \in BOOLEAN /\ Len(op.payload) \in Nat
    BY <1>1 DEF Ops
  <1> QED BY <1>1, <1>3, <1>4, <1>5 DEF Entry, Entries

\* delete_dir_entry.
LEMMA DeleteDisk ==
    ASSUME DiskInv, Deletes
    PROVE  DiskInv'
  <1>1. /\ fat[1] \in Fats /\ data \in DataAreas /\ pc = "delete" /\ op \in Ops
        /\ Sound(op) /\ op.parent \in DataClusters /\ copy = 1 /\ growing = FALSE
        /\ head = 0 /\ tail = 0 /\ cnt = 0
    BY Numbers DEF Deletes, DiskInv, TypeInv, OpInv, PhaseInv, Sound
  <1>2. /\ pc' = AfterDelete(op) /\ op' = op
        /\ UNCHANGED <<fat, freeInfo, cl, nxt, copy, head, tail, cnt, growing,
                       faults, bad, reused>>
    BY DEF Deletes, regVars, histVars
  <1>3. data' \in DataAreas
    <2> DEFINE ch == ChainIn(fat[1], op.parent)
               s  == UnitsIn(fat[1], data, op.parent)
    <2>1. PICK j \in 1..Len(s) :
              \/ data' = data
              \/ WroteUnit(data, Place(ch, j)[1], Place(ch, j)[2], Del, data')
      BY <1>1, DeleteEffect
    <2>2. Place(ch, j) \in DataClusters \X (1..ClusterUnits)
      BY <1>1, UnitsFacts
    <2> HIDE DEF ch
    <2>3. Place(ch, j)[1] \in DataClusters /\ Place(ch, j)[2] \in 1..ClusterUnits
      BY <2>2
    <2> QED BY <1>1, <2>1, <2>3, SlotWrite, EntryUnits
  <1>4. AfterDelete(op) \in Phases
    BY DEF AfterDelete, Phases
  <1>5. TypeInv'
    BY <1>2, <1>3, <1>4 DEF DiskInv, TypeInv
  <1>6. OpInv' /\ PhaseInv' /\ BuildInv'
    BY <1>1, <1>2, Cleared
  <1> QED BY <1>5, <1>6 DEF DiskInv

\* The new entry, the last block write.
LEMMA AddDisk ==
    ASSUME DiskInv, AddDirEntry
    PROVE  DiskInv'
  <1>1. /\ fat[1] \in Fats /\ data \in DataAreas /\ pc = "add" /\ op \in Ops
        /\ Sound(op) /\ op.parent \in DataClusters /\ copy = 1 /\ growing = FALSE
    BY Numbers DEF AddDirEntry, DiskInv, TypeInv, OpInv, PhaseInv, Sound
  <1>2. /\ pc' = "done" /\ op' = op
        /\ UNCHANGED <<fat, freeInfo, cl, nxt, copy, head, tail, cnt, growing,
                       faults, bad, reused>>
    BY DEF AddDirEntry, regVars, histVars
  <1>3. data' \in DataAreas
    <2> DEFINE ch == ChainIn(fat[1], op.parent)
               s  == UnitsIn(fat[1], data, op.parent)
               e  == Entry(Short[Last(op.path)], op.mkdir, head, Len(op.payload))
    <2>1. PICK j \in 1..Len(s) :
              WroteUnit(data, Place(ch, j)[1], Place(ch, j)[2], e, data')
      BY <1>1, AddEffect
    <2>2. Place(ch, j) \in DataClusters \X (1..ClusterUnits)
      BY <1>1, UnitsFacts
    <2>3. e \in Units
      BY <1>1, AddedEntry DEF Units
    <2> HIDE DEF ch, e
    <2>4. Place(ch, j)[1] \in DataClusters /\ Place(ch, j)[2] \in 1..ClusterUnits
      BY <2>2
    <2> QED BY <1>1, <2>1, <2>3, <2>4, SlotWrite
  <1>4. TypeInv'
    BY <1>2, <1>3 DEF DiskInv, TypeInv, Phases
  <1> QED BY <1>1, <1>2, <1>4, Numbers DEF DiskInv, OpInv, PhaseInv, BuildInv, Sound

\* One write of write_fat_entry(c, EOC): c was free, or is being marked.
LEMMA MarkEffect ==
    ASSUME DiskInv, MarkEoc
    PROVE  /\ cl' \in Clusters /\ Wrote(fat, copy, cl', EOC, fat')
           /\ fat' \in [1..NumFats -> Fats] /\ fat'[1][cl'] = EOC
           /\ \A x \in Clusters : x # cl' => fat'[1][x] = fat[1][x]
           /\ IF copy = 1 THEN fat[1][cl'] = Free ELSE cl' = cl /\ fat[1][cl'] = EOC
  <1> DEFINE c == IF copy = 1 THEN FindFreeCluster ELSE cl
  <1>1. /\ pc = "mark" /\ IsCluster(c) /\ cl' = c /\ Wrote(fat, copy, c, EOC, fat')
        /\ copy \in 1..NumFats /\ fat \in [1..NumFats -> Fats]
    BY DEF MarkEoc, DiskInv, TypeInv, Wrote
  <1>2. IF copy = 1 THEN fat[1][c] = Free ELSE c = cl /\ fat[1][c] = EOC
    <2>1. CASE copy = 1
      BY <1>1, <2>1, FreeFound, Numbers DEF IsCluster
    <2>2. CASE copy # 1
      BY <1>1, <2>2, Numbers DEF DiskInv, PhaseInv
    <2> QED BY <2>1, <2>2
  <1> HIDE DEF c
  <1>3. c \in Clusters
    BY <1>1 DEF IsCluster
  <1>4. /\ fat' \in [1..NumFats -> Fats]
        /\ IF copy = 1 THEN fat'[1][c] = EOC ELSE fat'[1] = fat[1]
        /\ \A x \in Clusters : x # c => fat'[1][x] = fat[1][x]
    <2>1. PICK v : v = EOC /\ v \in {Free, EOC} \cup DataClusters
      OBVIOUS
    <2>2. Wrote(fat, copy, c, v, fat')
      BY <1>1, <2>1
    <2>3. fat' \in [1..NumFats -> Fats] /\ FirstCopy(fat[1], copy, c, v, fat'[1])
      BY <1>1, <1>3, <2>1, <2>2, FatWrite
    <2> QED BY <2>1, <2>3 DEF FirstCopy
  <1> QED BY <1>1, <1>2, <1>3, <1>4

\* allocate_chain marks a free cluster.
LEMMA MarkDisk ==
    ASSUME DiskInv, MarkEoc
    PROVE  DiskInv'
  <1>1. /\ cl' \in Clusters /\ fat' \in [1..NumFats -> Fats] /\ fat'[1][cl'] = EOC
        /\ \A x \in Clusters : x # cl' => fat'[1][x] = fat[1][x]
        /\ IF copy = 1 THEN fat[1][cl'] = Free ELSE cl' = cl /\ fat[1][cl'] = EOC
    BY MarkEffect
  <1>2. /\ pc = "mark" /\ UNCHANGED <<data, freeInfo, op, nxt, head, tail, cnt,
                                      growing, faults, bad>>
        /\ \/ copy < NumFats /\ copy' = copy + 1 /\ pc' = "mark"
           \/ copy' = 1 /\ pc' = "zero"
    BY DEF MarkEoc
  <1>3. copy \in 1..NumFats /\ NumFats \in Nat /\ copy' \in 1..NumFats
    BY <1>2, Numbers DEF DiskInv, TypeInv
  <1>4. reused' \in BOOLEAN
    BY DEF MarkEoc
  <1>5. TypeInv'
    BY <1>1, <1>2, <1>3, <1>4 DEF DiskInv, TypeInv, Phases
  <1>6. OpInv' /\ PhaseInv'
    BY <1>1, <1>2, <1>3 DEF DiskInv, OpInv, PhaseInv, Sound
  <1>7. BuildInv'
    <2>1. CASE growing
      BY <1>2, <2>1 DEF BuildInv
    <2>2. CASE ~growing
      <3>1. PICK s \in Seq(DataClusters) : Building(s) /\ op.need > 0
        BY <1>2, <2>2 DEF DiskInv, BuildInv
      <3>2. Len(s) \in Nat /\ \A i \in 1..Len(s) : s[i] \in DataClusters /\ s[i] \in Clusters
        <4>1. Len(s) \in Nat /\ \A i \in 1..Len(s) : s[i] \in DataClusters
          OBVIOUS
        <4> QED BY <4>1, Numbers
      <3>3. /\ \A i \in 1..(Len(s) - 1) : fat[1][s[i]] = s[i + 1]
            /\ Len(s) > 0 => head = s[1] /\ fat[1][s[Len(s)]] = EOC
            /\ Len(s) = cnt /\ cnt < op.need
            /\ IF cnt = 0 THEN head = 0 /\ tail = 0 ELSE tail = s[cnt]
            /\ copy > 1 => \A i \in 1..Len(s) : s[i] # cl
        BY <1>2, <3>1 DEF Building
      <3>4. ASSUME NEW i \in 1..Len(s) PROVE s[i] # cl' /\ fat'[1][s[i]] = fat[1][s[i]]
        <4>1. fat[1][s[i]] # Free
          <5>1. CASE i = Len(s)
            BY <3>2, <3>3, <5>1, Numbers
          <5>2. CASE i # Len(s)
            <6>1. i \in 1..(Len(s) - 1) /\ i + 1 \in 1..Len(s)
              BY <3>2, <5>2
            <6>2. fat[1][s[i]] \in Clusters
              BY <3>2, <3>3, <6>1
            <6> QED BY <6>2, Numbers
          <5> QED BY <5>1, <5>2
        <4>2. s[i] # cl'
          BY <1>1, <1>3, <3>3, <4>1
        <4> QED BY <1>1, <3>2, <4>2
      <3>5. \A i \in 1..(Len(s) - 1) : fat'[1][s[i]] = s[i + 1]
        <4>1. ASSUME NEW i \in 1..(Len(s) - 1) PROVE fat'[1][s[i]] = s[i + 1]
          <5>1. i \in 1..Len(s)
            BY <3>2
          <5> QED BY <3>3, <3>4, <5>1
        <4> QED BY <4>1
      <3>6. Len(s) > 0 => fat'[1][s[Len(s)]] = EOC
        <4>1. ASSUME Len(s) > 0 PROVE Len(s) \in 1..Len(s)
          BY <3>2, <4>1
        <4> QED BY <3>3, <3>4, <4>1
      <3>7. Building(s)'
        BY <1>2, <3>3, <3>4, <3>5, <3>6 DEF Building
      <3> QED BY <1>2, <3>1, <3>7 DEF BuildInv
    <2> QED BY <2>1, <2>2
  <1> QED BY <1>5, <1>6, <1>7 DEF DiskInv

\* The chain under construction with one cluster more.
LEMMA BuildLonger ==
    ASSUME TypeInv, NEW s \in Seq(DataClusters), NEW c \in DataClusters, growing' = FALSE,
           op' = op, c = cl, Len(s) = cnt, cnt < op.need,
           \A i \in 1..(Len(s) - 1) : fat'[1][s[i]] = s[i + 1],
           Len(s) > 0 => fat'[1][s[Len(s)]] = c,
           fat'[1][c] = EOC,
           head' = IF Len(s) = 0 THEN c ELSE s[1], copy' = 1, tail' = c, cnt' = cnt + 1,
           pc' = IF cnt + 1 = op.need THEN "allocinfo" ELSE "mark"
    PROVE  BuildInv'
  <1> DEFINE t == Append(s, c)
  <1>1. Len(s) \in Nat /\ cnt \in Nat /\ op.need \in Nat
    BY DEF TypeInv, Ops
  <1>2. /\ t \in Seq(DataClusters) /\ Len(t) = cnt + 1 /\ t[cnt + 1] = c
        /\ \A i \in 1..Len(s) : t[i] = s[i]
    BY <1>1
  <1> HIDE DEF t
  <1>3. ASSUME NEW i \in 1..(Len(t) - 1) PROVE fat'[1][t[i]] = t[i + 1]
    <2>1. i \in 1..Len(s) /\ t[i] = s[i]
      BY <1>1, <1>2
    <2>2. CASE i = Len(s)
      BY <1>1, <1>2, <2>1, <2>2
    <2>3. CASE i # Len(s)
      <3>1. i \in 1..(Len(s) - 1) /\ i + 1 \in 1..Len(s)
        BY <1>1, <2>1, <2>3
      <3> QED BY <1>2, <2>1, <3>1
    <2> QED BY <2>2, <2>3
  <1>4. head' = t[1] /\ Len(t) > 0 /\ Len(t) = cnt' /\ t[cnt'] = c /\ cnt' # 0
    BY <1>1, <1>2
  <1>5. cnt' <= op.need /\ (pc' = "mark" => cnt' < op.need)
    BY <1>1
  <1>6. Building(t)'
    BY <1>1, <1>2, <1>3, <1>4, <1>5 DEF Building
  <1> QED BY <1>1, <1>2, <1>6 DEF BuildInv

\* The fresh cluster is zeroed; the first one becomes the head.
LEMMA ZeroDisk ==
    ASSUME DiskInv, ZeroCluster
    PROVE  DiskInv'
  <1>1. /\ pc = "zero" /\ cl <= LastData /\ cl \in Clusters /\ fat[1][cl] = EOC
        /\ WroteCluster(data, cl, Zeros, data') /\ data \in DataAreas
        /\ UNCHANGED <<fat, freeInfo, op, cl, nxt, copy, growing, faults, bad, reused>>
    BY DEF ZeroCluster, DiskInv, PhaseInv, TypeInv, WroteCluster, histVars
  <1>2. cl \in DataClusters
    BY <1>1, Numbers DEF Clusters, DataClusters
  <1>3. data' \in DataAreas
    <2>1. Zeros \in [1..ClusterUnits -> Units]
      BY EntryUnits DEF Zeros
    <2> QED BY <1>1, <2>1, ClusterWrite
  <1>4. copy = 1 /\ cnt \in Nat /\ op.need \in Nat /\ growing \in BOOLEAN
    BY <1>1, Numbers DEF DiskInv, PhaseInv, TypeInv, Ops
  <1>5. CASE tail = 0
    <2>1. ~growing
      BY <1>1, <1>5, Numbers DEF DiskInv, PhaseInv
    <2>2. /\ head' = cl /\ tail' = cl /\ cnt' = cnt + 1
          /\ pc' = IF cnt + 1 = op.need THEN "allocinfo" ELSE "mark"
      BY <1>5, <2>1 DEF ZeroCluster, Linked
    <2>3. TypeInv'
      BY <1>1, <1>2, <1>3, <1>4, <2>2 DEF DiskInv, TypeInv, Phases
    <2>4. PICK s \in Seq(DataClusters) : Building(s)
      BY <1>1, <2>1 DEF DiskInv, BuildInv
    <2>5. Len(s) = cnt /\ cnt < op.need /\ (cnt # 0 => tail = s[cnt])
      BY <1>1, <2>4 DEF Building
    <2>6. cnt = 0
      <3>1. ASSUME cnt # 0 PROVE FALSE
        <4>1. cnt \in 1..Len(s)
          BY <1>4, <2>5, <3>1
        <4>2. s[cnt] \in DataClusters
          BY <4>1
        <4> QED BY <1>5, <2>5, <3>1, <4>2, Numbers
      <3> QED BY <3>1
    <2>7. BuildInv'
      <3>1. fat'[1][cl] = EOC
        BY <1>1
      <3>2. Len(s) = 0 /\ TypeInv /\ growing' = FALSE
        BY <1>1, <1>4, <2>1, <2>5, <2>6 DEF DiskInv
      <3>3. PICK c : c = cl
        OBVIOUS
      <3>4. /\ c \in DataClusters /\ fat'[1][c] = EOC /\ op' = op /\ copy' = 1
            /\ head' = (IF Len(s) = 0 THEN c ELSE s[1]) /\ tail' = c
            /\ \A i \in 1..(Len(s) - 1) : fat'[1][s[i]] = s[i + 1]
            /\ Len(s) > 0 => fat'[1][s[Len(s)]] = c
        BY <1>1, <1>2, <1>4, <2>2, <3>1, <3>2, <3>3
      <3> QED BY <2>2, <2>5, <3>2, <3>3, <3>4, BuildLonger
    <2> QED BY <1>1, <1>4, <2>1, <2>2, <2>3, <2>7 DEF DiskInv, OpInv, PhaseInv, Sound
  <1>6. CASE tail # 0
    <2>1. pc' = "link" /\ UNCHANGED <<head, tail, cnt>>
      BY <1>6 DEF ZeroCluster
    <2>2. tail \in DataClusters
      BY <1>6 DEF DiskInv, TypeInv
    <2>3. TypeInv'
      BY <1>1, <1>3, <2>1 DEF DiskInv, TypeInv, Phases
    <2>4. OpInv' /\ PhaseInv'
      BY <1>1, <1>2, <1>4, <2>1, <2>2 DEF DiskInv, OpInv, PhaseInv, Sound
    <2>5. BuildInv'
      <3>1. CASE growing
        BY <1>1, <3>1 DEF BuildInv
      <3>2. CASE ~growing
        <4>1. PICK s \in Seq(DataClusters) : Building(s) /\ op.need > 0
          BY <1>1, <3>2 DEF DiskInv, BuildInv
        <4>2. cnt > 0
          BY <1>1, <1>4, <1>6, <4>1 DEF Building
        <4>3. Building(s)'
          BY <1>1, <1>4, <2>1, <4>1, <4>2 DEF Building
        <4> QED BY <1>1, <4>1, <4>3 DEF BuildInv
      <3> QED BY <3>1, <3>2
    <2> QED BY <2>3, <2>4, <2>5 DEF DiskInv
  <1> QED BY <1>5, <1>6

\* One write of write_fat_entry(prev, c).
LEMMA LinkEffect ==
    ASSUME DiskInv, LinkWrite
    PROVE  /\ pc = "link" /\ cl \in DataClusters /\ tail \in DataClusters
           /\ Wrote(fat, copy, tail, cl, fat') /\ copy \in 1..NumFats
           /\ fat' \in [1..NumFats -> Fats] /\ FirstCopy(fat[1], copy, tail, cl, fat'[1])
           /\ \/ copy < NumFats /\ copy' = copy + 1 /\ UNCHANGED <<tail, cnt, pc>>
              \/ copy = NumFats /\ copy' = 1 /\ Linked
  <1>1. /\ pc = "link" /\ cl \in DataClusters /\ tail \in DataClusters
        /\ Wrote(fat, copy, tail, cl, fat') /\ copy \in 1..NumFats
        /\ fat \in [1..NumFats -> Fats] /\ NumFats \in Nat
    BY Numbers DEF LinkWrite, DiskInv, TypeInv, PhaseInv, Wrote
  <1>2. tail \in Clusters /\ cl \in {Free, EOC} \cup DataClusters
    BY <1>1, Numbers
  <1>3. fat' \in [1..NumFats -> Fats] /\ FirstCopy(fat[1], copy, tail, cl, fat'[1])
    BY <1>1, <1>2, FatWrite
  <1>4. \/ copy < NumFats /\ copy' = copy + 1 /\ UNCHANGED <<tail, cnt, pc>>
        \/ ~(copy < NumFats) /\ copy' = 1 /\ Linked
    BY DEF LinkWrite
  <1> QED BY <1>1, <1>3, <1>4

\* allocate_chain links the fresh cluster to the one before it.
LEMMA LinkDisk ==
    ASSUME DiskInv, LinkWrite
    PROVE  DiskInv'
  <1>1. /\ pc = "link" /\ cl \in DataClusters /\ tail \in DataClusters
        /\ copy \in 1..NumFats /\ fat' \in [1..NumFats -> Fats]
        /\ FirstCopy(fat[1], copy, tail, cl, fat'[1])
    BY LinkEffect
  <1>2. \/ copy < NumFats /\ copy' = copy + 1 /\ UNCHANGED <<tail, cnt, pc>>
        \/ /\ copy = NumFats /\ copy' = 1 /\ tail' = cl /\ cnt' = cnt + 1
           /\ pc' = IF growing \/ cnt + 1 = op.need THEN "allocinfo" ELSE "mark"
    BY LinkEffect DEF Linked
  <1>3. UNCHANGED <<data, freeInfo, op, cl, nxt, head, growing, faults, bad, reused>>
    BY DEF LinkWrite, histVars
  <1>4. /\ copy' \in 1..NumFats /\ cnt' \in Nat /\ cnt \in Nat /\ copy \in Nat
        /\ tail' \in DataClusters /\ pc' \in {"link", "allocinfo", "mark"}
        /\ growing \in BOOLEAN /\ NumFats \in Nat
    BY <1>1, <1>2, Numbers DEF DiskInv, TypeInv
  <1>5. TypeInv'
    BY <1>1, <1>3, <1>4 DEF DiskInv, TypeInv, Phases
  <1>6. OpInv'
    BY <1>1, <1>3, <1>4 DEF DiskInv, OpInv, Sound
  <1>7. PhaseInv'
    <2>1. /\ growing => cnt = 0 /\ op.add /\ IF op.need > 0 THEN head \in DataClusters
                                                            ELSE head = 0
      BY <1>1 DEF DiskInv, PhaseInv
    <2>2. growing => (IF pc' = "allocinfo" THEN cnt' = 1 ELSE pc' = "link" /\ cnt' = 0)
      BY <1>1, <1>2, <2>1
    <2>3. pc' = "mark" => copy' = 1
      BY <1>1, <1>2
    <2>4. copy' > 1 => pc' = "link"
      BY <1>1, <1>2
    <2> QED BY <1>1, <1>3, <1>4, <2>1, <2>2, <2>3, <2>4 DEF PhaseInv
  <1>8. BuildInv'
    <2>1. CASE growing
      BY <1>3, <2>1 DEF BuildInv
    <2>2. CASE ~growing
      <3>1. PICK s \in Seq(DataClusters) : Building(s) /\ op.need > 0
        BY <1>1, <2>2 DEF DiskInv, BuildInv
      <3>2. Len(s) \in Nat /\ \A i \in 1..Len(s) : s[i] \in DataClusters /\ s[i] \in Clusters
        <4>1. Len(s) \in Nat /\ \A i \in 1..Len(s) : s[i] \in DataClusters
          OBVIOUS
        <4> QED BY <4>1, Numbers
      <3>3. /\ \A i \in 1..(Len(s) - 1) : fat[1][s[i]] = s[i + 1]
            /\ head = s[1] /\ fat[1][s[Len(s)]] = (IF copy > 1 THEN cl ELSE EOC)
            /\ Len(s) = cnt /\ cnt < op.need /\ cnt > 0 /\ tail = s[cnt]
            /\ fat[1][cl] = EOC
            /\ \A i \in 1..Len(s) : s[i] # cl
        BY <1>1, <1>4, <3>1 DEF Building
      <3>4. cnt \in 1..Len(s) /\ cl # tail /\ cl \in Clusters /\ tail \in Clusters
        BY <1>1, <1>4, <3>2, <3>3, Numbers
      <3>5. fat'[1][cl] = EOC
        BY <1>1, <3>3, <3>4 DEF FirstCopy
      <3>6. fat'[1][s[Len(s)]] = cl
        <4>1. CASE copy = 1
          BY <1>1, <3>3, <4>1 DEF FirstCopy
        <4>2. CASE copy # 1
          BY <1>1, <1>4, <3>3, <4>2 DEF FirstCopy
        <4> QED BY <4>1, <4>2
      <3>7. ASSUME NEW i \in 1..(Len(s) - 1) PROVE fat'[1][s[i]] = s[i + 1]
        <4>1. i \in 1..Len(s) /\ i + 1 \in 1..Len(s) /\ s[i] \in Clusters
          BY <3>2
        <4>2. CASE s[i] = tail
          <5>1. s[i + 1] \in DataClusters /\ fat[1][tail] = s[i + 1]
            BY <3>2, <3>3, <4>1, <4>2
          <5>2. copy # 1
            BY <1>4, <3>3, <5>1, Numbers
          <5> QED BY <1>1, <3>3, <5>2 DEF FirstCopy
        <4>3. CASE s[i] # tail
          BY <1>1, <3>3, <4>1, <4>3 DEF FirstCopy
        <4> QED BY <4>2, <4>3
      <3>8. CASE copy < NumFats /\ copy' = copy + 1 /\ UNCHANGED <<tail, cnt, pc>>
        <4>1. copy' > 1
          BY <1>1, <1>4, <3>8
        <4>2. Building(s)'
          BY <1>1, <1>3, <3>3, <3>5, <3>6, <3>7, <3>8, <4>1 DEF Building
        <4> QED BY <1>3, <3>1, <4>2 DEF BuildInv
      <3>9. CASE copy' = 1 /\ tail' = cl /\ cnt' = cnt + 1
                 /\ pc' = IF growing \/ cnt + 1 = op.need THEN "allocinfo" ELSE "mark"
        <4>1. PICK c : c = cl
          OBVIOUS
        <4>2. /\ c \in DataClusters /\ growing' = FALSE /\ op' = op /\ TypeInv
              /\ fat'[1][c] = EOC /\ (Len(s) > 0 => fat'[1][s[Len(s)]] = c)
              /\ head' = (IF Len(s) = 0 THEN c ELSE s[1]) /\ tail' = c
              /\ pc' = IF cnt + 1 = op.need THEN "allocinfo" ELSE "mark"
          BY <1>1, <1>3, <1>4, <2>2, <3>3, <3>5, <3>6, <3>9, <4>1 DEF DiskInv
        <4> QED BY <3>3, <3>7, <3>9, <4>1, <4>2, BuildLonger
      <3> QED BY <1>2, <3>8, <3>9
    <2> QED BY <2>1, <2>2
  <1> QED BY <1>5, <1>6, <1>7, <1>8 DEF DiskInv

\* update_fsinfo after allocate_chain.
LEMMA AllocInfoDisk ==
    ASSUME DiskInv, NEW ok \in BOOLEAN, AllocInfo(ok), ok \/ faults < MaxFaults
    PROVE  DiskInv'
  <1>1. /\ pc = "allocinfo" /\ cnt' = 0 /\ tail' = 0
        /\ cl' = (IF growing THEN 0 ELSE head)
        /\ pc' = (IF growing THEN "add" ELSE "data") /\ growing' = FALSE
        /\ UNCHANGED <<fat, data, op, nxt, copy, head, bad, reused>>
    BY DEF AllocInfo, histVars
  <1>2. copy = 1 /\ head \in {0} \cup DataClusters /\ op \in Ops /\ op.need \in Nat
    BY <1>1, Numbers DEF DiskInv, TypeInv, PhaseInv, Ops
  <1>3. freeInfo' \in Nat \cup {Unknown} /\ faults' \in 0..MaxFaults
    <2>1. freeInfo \in Nat \cup {Unknown} /\ cnt \in Nat /\ faults \in 0..MaxFaults /\ MaxFaults \in Nat
      BY FatAssumption DEF DiskInv, TypeInv
    <2>2. \/ faults' = faults /\ freeInfo # Unknown
             /\ freeInfo' = IF freeInfo + (-cnt) < 0 THEN 0 ELSE freeInfo + (-cnt)
          \/ freeInfo' = freeInfo /\ (faults' = faults \/ (faults' = faults + 1 /\ faults < MaxFaults))
      BY DEF AllocInfo, UpdateFsinfo
    <2> QED BY <2>1, <2>2
  <1>4. TypeInv'
    BY <1>1, <1>2, <1>3, Resets DEF DiskInv, TypeInv, Phases
  <1>5. CASE growing
    BY <1>1, <1>2, <1>4, <1>5, Numbers DEF DiskInv, OpInv, PhaseInv, BuildInv, Sound
  <1>6. CASE ~growing
    <2>1. PICK s \in Seq(DataClusters) : Building(s) /\ op.need > 0
      BY <1>1, <1>6 DEF DiskInv, BuildInv
    <2>2. /\ Len(s) = op.need /\ head = s[1] /\ fat[1][s[Len(s)]] = EOC
          /\ \A i \in 1..(Len(s) - 1) : fat[1][s[i]] = s[i + 1]
      BY <1>1, <1>2, <2>1 DEF Building
    <2>3. Building(s)'
      BY <1>1, <1>2, <1>6, <2>1, <2>2 DEF Building
    <2>4. BuildInv'
      BY <1>1, <2>1, <2>3 DEF BuildInv
    <2> QED BY <1>1, <1>2, <1>4, <1>6, <2>4, Numbers DEF DiskInv, OpInv, PhaseInv, Sound
  <1> QED BY <1>5, <1>6

\* A chunk of the payload, or the first cluster of a new directory.
LEMMA ChunkType ==
    ASSUME op \in Ops, cnt \in Nat
    PROVE  Chunk \in [1..ClusterUnits -> Units]
  <1>1. op.payload \in Seq(Nat) /\ ClusterUnits \in Nat
    BY Numbers DEF Ops
  <1>2. ASSUME NEW u \in 1..ClusterUnits,
               LET j == cnt * ClusterUnits + u IN j <= Len(op.payload)
        PROVE  Byte(op.payload[cnt * ClusterUnits + u]) \in Units
    <2> DEFINE j == cnt * ClusterUnits + u
    <2>1. cnt * ClusterUnits \in Nat
      BY <1>1
    <2>2. j \in 1..Len(op.payload)
      BY <1>1, <1>2, <2>1
    <2>3. op.payload[j] \in Nat
      BY <1>1, <2>2
    <2> QED BY <2>3 DEF Byte, Units, Bytes
  <1> QED BY <1>2, EntryUnits DEF Chunk

\* write_chain writes one cluster.
LEMMA WriteClusterDisk ==
    ASSUME DiskInv, WriteCluster
    PROVE  DiskInv'
  <1>1. /\ pc = "data" /\ WroteCluster(data, cl, Chunk, data') /\ data \in DataAreas
        /\ UNCHANGED <<fat, freeInfo, op, nxt, copy, head, tail, growing, faults, bad,
                       reused>>
        /\ op \in Ops /\ cnt \in Nat /\ op.need \in Nat /\ Sound(op)
    BY DEF WriteCluster, DiskInv, TypeInv, OpInv, WroteCluster, histVars, Ops
  <1>2. ~growing /\ copy = 1
    BY <1>1, Numbers DEF DiskInv, PhaseInv, TypeInv
  <1>3. data' \in DataAreas
    BY <1>1, ChunkType, ClusterWrite
  <1>4. PICK s \in Seq(DataClusters) : Building(s) /\ op.need > 0
    BY <1>1, <1>2 DEF DiskInv, BuildInv
  <1>5. /\ Len(s) = op.need /\ head = s[1] /\ fat[1][s[Len(s)]] = EOC
        /\ \A i \in 1..(Len(s) - 1) : fat[1][s[i]] = s[i + 1]
        /\ cnt < op.need /\ cl = s[cnt + 1]
    BY <1>1, <1>2, <1>4 DEF Building
  <1>6. head \in DataClusters
    <2>1. 1 \in 1..Len(s)
      BY <1>1, <1>4, <1>5
    <2> QED BY <1>5, <2>1
  <1>7. op.add
    BY <1>1, <1>4, AfterFacts
  <1>8. CASE (cnt + 1) * ClusterUnits >= Len(op.payload)
    <2>1. cnt' = 0 /\ cl' = 0 /\ pc' = "add"
      BY <1>8 DEF WriteCluster
    <2>2. TypeInv'
      BY <1>1, <1>3, <2>1, Resets DEF DiskInv, TypeInv, Phases
    <2> QED BY <1>1, <1>2, <1>4, <1>6, <1>7, <2>1, <2>2, Numbers
            DEF DiskInv, OpInv, PhaseInv, BuildInv, Sound
  <1>9. CASE ~((cnt + 1) * ClusterUnits >= Len(op.payload))
    <2>1. cnt' = cnt + 1 /\ cl' = fat[1][cl] /\ pc' = "data"
      BY <1>1, <1>9 DEF WriteCluster
    <2>2. cnt + 1 < op.need
      <3> DEFINE n == Len(op.payload)
                 q == cnt + 1
      <3>1. n \in Nat /\ q \in Nat /\ ClusterUnits \in Nat /\ q * ClusterUnits \in Nat
        BY <1>1, Numbers DEF Ops
      <3>2. ~op.mkdir
        <4>1. ASSUME op.mkdir PROVE FALSE
          <5>1. n = 0
            BY <1>1, <4>1 DEF Sound
          <5> QED BY <1>9, <3>1, <5>1
        <4> QED BY <4>1
      <3>3. op.need = ClustersFor(n) /\ ClustersFor(n) * ClusterUnits >= n
        BY <1>1, <3>1, <3>2, ClustersForFacts DEF Sound
      <3>4. q * ClusterUnits < n
        BY <1>9, <3>1
      <3>5. q # op.need
        <4> HIDE DEF q
        <4> QED BY <1>1, <3>1, <3>3, <3>4
      <3> QED BY <1>1, <1>5, <3>5
    <2>3. cnt + 1 \in 1..(Len(s) - 1) /\ cnt + 2 \in 1..Len(s)
      BY <1>1, <1>5, <2>2
    <2>4. cl' = s[cnt + 2] /\ s[cnt + 2] \in DataClusters
      BY <1>1, <1>5, <2>1, <2>3
    <2>5. TypeInv'
      <3>1. cl' \in {0} \cup Clusters
        <4>1. cl' \in DataClusters
          BY <2>4
        <4> QED BY <4>1, Numbers
      <3>2. cnt' \in Nat
        BY <1>1, <2>1
      <3> QED BY <1>1, <1>3, <2>1, <3>1, <3>2 DEF DiskInv, TypeInv, Phases
    <2>6. Building(s)'
      <3>1. fat' = fat /\ head' = head /\ op' = op /\ pc' = "data"
        BY <1>1, <2>1
      <3>2. \A i \in 1..(Len(s) - 1) : fat'[1][s[i]] = s[i + 1]
        BY <1>5, <3>1
      <3>3. head' = s[1] /\ fat'[1][s[Len(s)]] = EOC /\ Len(s) = op'.need
        BY <1>5, <3>1
      <3>4. (cnt + 1) + 1 = cnt + 2
        BY <1>1
      <3>5. cnt' < op'.need /\ cl' = s[cnt' + 1]
        BY <2>1, <2>2, <2>4, <3>1, <3>4
      <3> QED BY <3>1, <3>2, <3>3, <3>5 DEF Building
    <2> QED BY <1>1, <1>2, <1>4, <2>1, <2>5, <2>6, Numbers
            DEF DiskInv, OpInv, PhaseInv, BuildInv, Sound
  <1> QED BY <1>8, <1>9

\* add_dir_entry begins to grow the directory.
LEMMA GrowDisk ==
    ASSUME DiskInv, GrowDir
    PROVE  DiskInv'
  <1>1. /\ pc = "add" /\ growing' = TRUE /\ pc' = "mark" /\ op.parent \in DataClusters
        /\ UNCHANGED <<fat, data, freeInfo, op, cl, nxt, copy, head, cnt, faults, bad,
                       reused>>
        /\ fat[1] \in Fats
    BY Numbers DEF GrowDir, DiskInv, OpInv, Sound, TypeInv, diskVars, histVars
  <1>2. tail' \in DataClusters
    <2> DEFINE ch == ChainIn(fat[1], op.parent)
    <2>1. tail' = ch[Len(ch)]
      BY ChainNow DEF GrowDir
    <2>2. ch \in Seq(DataClusters) /\ Len(ch) >= 1
      BY <1>1, ChainRun DEF Run
    <2> HIDE DEF ch
    <2>3. Len(ch) \in 1..Len(ch)
      BY <2>2
    <2> QED BY <2>1, <2>2, <2>3
  <1>3. TypeInv'
    BY <1>1, <1>2 DEF DiskInv, TypeInv, Phases
  <1>4. copy = 1 /\ cnt = 0
    BY <1>1, Numbers DEF DiskInv, TypeInv, PhaseInv
  <1> QED BY <1>1, <1>2, <1>3, <1>4 DEF DiskInv, OpInv, PhaseInv, BuildInv, Sound

\* A block write fails.
LEMMA FaultDisk ==
    ASSUME DiskInv, Fault
    PROVE  DiskInv'
  <1>1. /\ pc' = "failed" /\ pc \notin {"idle", "beyond"} /\ faults < MaxFaults
        /\ faults' = faults + 1 /\ bad' = bad \cup {op.path}
        /\ UNCHANGED <<fat, data, freeInfo, op, cl, nxt, copy, head, tail, cnt, growing,
                       reused>>
    BY DEF Fault, diskVars, regVars
  <1>2. faults' \in 0..MaxFaults
    BY <1>1, FatAssumption DEF DiskInv, TypeInv
  <1>3. bad' \subseteq Paths
    BY <1>1 DEF DiskInv, TypeInv, Ops
  <1>4. TypeInv'
    BY <1>1, <1>2, <1>3 DEF DiskInv, TypeInv, Phases
  <1>5. growing' => op'.add /\ IF op'.need > 0 THEN head' \in DataClusters ELSE head' = 0
    BY <1>1 DEF DiskInv, PhaseInv
  <1> QED BY <1>1, <1>4, <1>5 DEF DiskInv, OpInv, PhaseInv, BuildInv, Sound

\* A freshly formatted disk.
LEMMA InitDisk == Init => DiskInv
  <1> SUFFICES ASSUME Init PROVE DiskInv
    OBVIOUS
  <1>1. fat \in [1..NumFats -> Fats]
    BY Resets DEF Init, Fats
  <1>2. data \in DataAreas
    BY EntryUnits DEF Init, DataAreas, DataClusters, Zeros
  <1>3. freeInfo \in Nat \cup {Unknown} /\ MaxFaults \in Nat
    BY Numbers, FatAssumption DEF Init, Root
  <1>4. NoOp \in Ops
    BY FatAssumption DEF NoOp, Ops
  <1>5. TypeInv
    <2>1. /\ op = NoOp /\ pc = "idle" /\ cl = 0 /\ nxt = 0 /\ head = 0 /\ tail = 0
          /\ copy = 1 /\ cnt = 0 /\ growing = FALSE /\ reused = FALSE /\ bad = {}
          /\ faults \in 0..MaxFaults
      BY <1>3 DEF Init
    <2>2. growing \in BOOLEAN /\ reused \in BOOLEAN
      BY <2>1, Zenon
    <2> QED BY <1>1, <1>2, <1>3, <1>4, <2>1, <2>2, Resets DEF TypeInv, Phases
  <1>6. OpInv /\ PhaseInv /\ BuildInv
    BY DEF Init, OpInv, PhaseInv, BuildInv
  <1> QED BY <1>5, <1>6 DEF DiskInv

\* The steps that end an operation.
Returns(r) ==
    /\ pc \in {"mark", "zero", "done", "failed"} /\ (pc = "mark" => copy = 1)
    /\ (pc = "zero" => cl > LastData)
    /\ Return(r) /\ (r = "ok" <=> pc = "done")

\* The steps, by what they do.
LEMMA Steps ==
    ASSUME Next
    PROVE  \/ Call \/ FreeWrite \/ Deletes \/ NotFound \/ MarkEoc \/ ZeroCluster
           \/ LinkWrite \/ WriteCluster \/ AddDirEntry \/ GrowDir \/ Fault
           \/ \E ok \in BOOLEAN : (ok \/ faults < MaxFaults) /\ (FreeInfo(ok) \/ AllocInfo(ok))
           \/ \E r : Returns(r)
  <1>1. NoSpace => Returns("err")
    BY DEF NoSpace, Returns
  <1>2. ZeroOutOfRange => Returns("err")
    BY DEF ZeroOutOfRange, Returns
  <1>3. Done => Returns("ok")
    BY DEF Done, Returns
  <1>4. Resume => Returns("err")
    BY DEF Resume, Returns
  <1> DEFINE R(r) == Returns(r)
             I(ok) == (ok \/ faults < MaxFaults) /\ (FreeInfo(ok) \/ AllocInfo(ok))
  <1>5. NoSpace \/ ZeroOutOfRange \/ Done \/ Resume => \E r : R(r)
    <2>1. NoSpace \/ ZeroOutOfRange \/ Resume => R("err")
      BY <1>1, <1>2, <1>4
    <2>2. Done => R("ok")
      BY <1>3
    <2> QED BY <2>1, <2>2
  <1>6. InfoWrites(TRUE) \/ (faults < MaxFaults /\ InfoWrites(FALSE)) => \E ok \in BOOLEAN : I(ok)
    <2>1. InfoWrites(TRUE) => I(TRUE)
      BY DEF InfoWrites
    <2>2. faults < MaxFaults /\ InfoWrites(FALSE) => I(FALSE)
      BY DEF InfoWrites
    <2> QED BY <2>1, <2>2
  <1> HIDE DEF R, I
  <1>7. \/ Call \/ FreeWrite \/ Deletes \/ NotFound \/ MarkEoc \/ ZeroCluster
        \/ LinkWrite \/ WriteCluster \/ AddDirEntry \/ GrowDir \/ Fault
        \/ (\E ok \in BOOLEAN : I(ok)) \/ (\E r : R(r))
    BY <1>5, <1>6, DeleteCases DEF Next, Step
  <1> QED BY <1>7 DEF R, I

\* Every step keeps the types.
LEMMA NextDisk == DiskInv /\ [Next]_vars => DiskInv'
  <1> SUFFICES ASSUME DiskInv, [Next]_vars PROVE DiskInv'
    OBVIOUS
  <1>1. CASE UNCHANGED vars
    BY <1>1 DEF vars, diskVars, regVars, histVars, DiskInv, TypeInv, OpInv, PhaseInv,
                BuildInv, Building, Sound
  <1>2. CASE Next
    <2>1. CASE \E ok \in BOOLEAN : (ok \/ faults < MaxFaults) /\ (FreeInfo(ok) \/ AllocInfo(ok))
      BY <2>1, FreeInfoDisk, AllocInfoDisk
    <2>2. CASE \E r : Returns(r)
      BY <2>2, ReturnDisk DEF Returns
    <2>3. CASE NotFound
      BY <2>3, ReturnDisk DEF NotFound
    <2> QED BY <1>2, <2>1, <2>2, <2>3, Steps, CallDisk, FreeDisk, DeleteDisk, MarkDisk, ZeroDisk,
               LinkDisk, WriteClusterDisk, AddDisk, GrowDisk, FaultDisk
  <1> QED BY <1>1, <1>2

\* The registers of an operation agree with its phase at every step: for a disk
\* of any size and any number of failed writes.
THEOREM DiskInvariant == Spec => []DiskInv
  BY InitDisk, NextDisk, PTL DEF Spec

\* The types follow.
THEOREM TypesKept == Spec => []TypeOK
  <1>1. DiskInv => TypeOK
    <2> SUFFICES ASSUME DiskInv PROVE TypeOK
      OBVIOUS
    <2>1. fat \in [1..NumFats -> [Clusters -> {Free} \cup Clusters \cup {EOC}]]
      <3>1. \A f \in Fats : f \in [Clusters -> {Free} \cup Clusters \cup {EOC}]
        BY Numbers DEF Fats
      <3> QED BY <3>1 DEF DiskInv, TypeInv
    <2>2. data \in [DataClusters -> [1..ClusterUnits -> Units]]
      BY DEF DiskInv, TypeInv, DataAreas
    <2>3. \A u \in Units : u.k \in {"end", "del", "skip", "byte", "entry"}
      BY DEF Units, End, Del, Skip, Bytes, Entries
    <2>4. /\ DOMAIN data = 2..LastData
          /\ \A c \in 2..LastData : /\ DOMAIN data[c] = 1..ClusterUnits
                                    /\ \A u \in 1..ClusterUnits : data[c][u].k \in
                                          {"end", "del", "skip", "byte", "entry"}
      BY <2>2, <2>3 DEF DataClusters
    <2>5. {cl, nxt, head, tail} \subseteq {0, EOC} \cup Clusters
      BY Numbers DEF DiskInv, TypeInv
    <2> QED BY <2>1, <2>4, <2>5 DEF DiskInv, TypeInv, TypeOK, Phases
  <1> QED BY <1>1, DiskInvariant, PTL

-----------------------------------------------------------------------------
(* The copies of the FAT.                                                  *)

\* The entries in which the copies F differ, and how many besides c.
Differ(F) == {c \in Clusters : \E i \in 1..NumFats : F[i][c] # F[1][c]}
Others(F, c) == Cardinality(Differ(F) \ {c})

\* Copies below k have v at c, and at most n entries differ besides c; no write
\* is under way when k = 1.
Mirror(F, k, c, v, n) ==
    IF k = 1 THEN Cardinality(Differ(F)) <= n
    ELSE Others(F, c) <= n /\ \A i \in 1..(k - 1) : F[i][c] = v

MirrorInv ==
    IF pc = "failed" THEN Cardinality(Differ(fat)) <= faults
    ELSE Mirror(fat, copy, IF pc = "link" THEN tail ELSE cl,
                IF pc = "free" THEN Free ELSE IF pc = "mark" THEN EOC ELSE cl, faults)

\* Sets of FAT entries are finite.
LEMMA ClusterSets ==
    /\ \A S : S \subseteq Clusters => IsFiniteSet(S) /\ Cardinality(S) \in Nat
    /\ \A S, T : T \subseteq Clusters /\ S \subseteq T => Cardinality(S) <= Cardinality(T)
    /\ \A S, c : S \subseteq Clusters => Cardinality(S) <= Cardinality(S \ {c}) + 1
  <1>1. IsFiniteSet(Clusters)
    BY Numbers, FS_Interval DEF Clusters
  <1>2. \A S : S \subseteq Clusters => IsFiniteSet(S) /\ Cardinality(S) \in Nat
    BY <1>1, FS_Subset, FS_CardinalityType
  <1>3. ASSUME NEW S, NEW T, T \subseteq Clusters, S \subseteq T
        PROVE  Cardinality(S) <= Cardinality(T)
    BY <1>2, <1>3, FS_Subset
  <1>4. ASSUME NEW S, NEW c, S \subseteq Clusters
        PROVE  Cardinality(S) <= Cardinality(S \ {c}) + 1
    <2>1. /\ IsFiniteSet(S) /\ Cardinality(S) \in Nat
          /\ S \ {c} \subseteq Clusters
      BY <1>2, <1>4
    <2>2. Cardinality(S \ {c}) \in Nat
      BY <1>2, <2>1
    <2>3. Cardinality(S \ {c}) = IF c \in S THEN Cardinality(S) - 1 ELSE Cardinality(S)
      BY <2>1, FS_RemoveElement
    <2> QED BY <2>1, <2>2, <2>3
  <1> QED BY <1>2, <1>3, <1>4

\* A write brings the next copy in line, the last one ends it.
LEMMA MirrorWrite ==
    ASSUME NEW F \in [1..NumFats -> Fats], NEW k \in 1..NumFats, NEW c \in Clusters,
           NEW v \in {Free, EOC} \cup DataClusters, NEW G, Wrote(F, k, c, v, G),
           NEW n \in Nat, Mirror(F, k, c, v, n)
    PROVE  IF k < NumFats THEN Mirror(G, k + 1, c, v, n) ELSE Cardinality(Differ(G)) <= n
  <1>1. /\ \A x \in Clusters : G[k][x] = IF x = c THEN v ELSE F[k][x]
        /\ \A i \in 1..NumFats : i # k => G[i] = F[i]
        /\ NumFats \in Nat /\ 1 \in 1..NumFats
    BY FatWrite, Numbers
  <1>2. \A x \in Clusters, i \in 1..NumFats : x # c => G[i][x] = F[i][x]
    BY <1>1
  <1>3. Differ(G) \ {c} \subseteq Differ(F) \ {c}
    BY <1>1, <1>2 DEF Differ
  <1>4. \A i \in 1..k : G[i][c] = v
    <2>1. ASSUME NEW i \in 1..(k - 1) PROVE F[i][c] = v
      <3>1. k # 1
        OBVIOUS
      <3> QED BY <3>1 DEF Mirror
    <2>2. ASSUME NEW i \in 1..k PROVE G[i][c] = v
      <3>1. CASE i = k
        BY <1>1, <3>1
      <3>2. CASE i # k
        <4>1. i \in 1..(k - 1) /\ i \in 1..NumFats
          BY <1>1, <3>2
        <4> QED BY <1>1, <2>1, <3>2, <4>1
      <3> QED BY <3>1, <3>2
    <2> QED BY <2>2
  <1>5. Cardinality(Differ(G) \ {c}) <= n
    <2>1. /\ Differ(F) \subseteq Clusters /\ Differ(F) \ {c} \subseteq Differ(F)
          /\ Differ(F) \ {c} \subseteq Clusters /\ Differ(G) \ {c} \subseteq Clusters
          /\ Differ(G) \ {c} \subseteq Differ(F)
      BY <1>3 DEF Differ
    <2>2. /\ Cardinality(Differ(G) \ {c}) \in Nat /\ Cardinality(Differ(F)) \in Nat
          /\ Cardinality(Differ(F) \ {c}) \in Nat
          /\ Cardinality(Differ(G) \ {c}) <= Cardinality(Differ(F))
          /\ Cardinality(Differ(G) \ {c}) <= Cardinality(Differ(F) \ {c})
      BY <1>3, <2>1, ClusterSets
    <2> QED BY <2>2 DEF Mirror, Others
  <1>6. CASE k < NumFats
    <2>1. k + 1 # 1 /\ (k + 1) - 1 = k
      BY <1>1
    <2> QED BY <1>4, <1>5, <1>6, <2>1 DEF Mirror, Others
  <1>7. CASE ~(k < NumFats)
    <2>1. \A i \in 1..NumFats : G[i][c] = v
      BY <1>1, <1>4, <1>7
    <2>2. Differ(G) = Differ(G) \ {c}
      BY <1>1, <2>1 DEF Differ
    <2> QED BY <1>5, <1>7, <2>2
  <1> QED BY <1>6, <1>7

\* MirrorInv, in the words of one action.
LEMMA Mirrors ==
    ASSUME TypeInv
    PROVE  /\ pc = "failed" => (MirrorInv <=> Cardinality(Differ(fat)) <= faults)
           /\ copy = 1 => (MirrorInv <=> Cardinality(Differ(fat)) <= faults)
           /\ pc = "free" => (MirrorInv <=> Mirror(fat, copy, cl, Free, faults))
           /\ pc = "mark" => (MirrorInv <=> Mirror(fat, copy, cl, EOC, faults))
           /\ pc = "link" => (MirrorInv <=> Mirror(fat, copy, tail, cl, faults))
  BY DEF MirrorInv, Mirror

\* The same after a step.
LEMMA MirrorsNext ==
    ASSUME TypeInv'
    PROVE  /\ pc' = "failed" => (MirrorInv' <=> Cardinality(Differ(fat')) <= faults')
           /\ copy' = 1 => (MirrorInv' <=> Cardinality(Differ(fat')) <= faults')
           /\ pc' = "free" => (MirrorInv' <=> Mirror(fat', copy', cl', Free, faults'))
           /\ pc' = "mark" => (MirrorInv' <=> Mirror(fat', copy', cl', EOC, faults'))
           /\ pc' = "link" => (MirrorInv' <=> Mirror(fat', copy', tail', cl', faults'))
  BY DEF MirrorInv, Mirror, Others, Differ

\* The steps that write no FAT entry.
LEMMA MirrorKept ==
    ASSUME DiskInv, DiskInv', MirrorInv, fat' = fat, copy = 1, copy' = 1,
           faults' >= faults
    PROVE  MirrorInv'
  <1>1. PICK F, G, m, n : F = fat /\ G = fat' /\ m = faults /\ n = faults'
    OBVIOUS
  <1>2. F = G /\ Cardinality(Differ(F)) <= m /\ m \in Nat /\ n \in Nat /\ n >= m
    BY <1>1, Mirrors, FatAssumption DEF DiskInv, TypeInv
  <1>3. Cardinality(Differ(F)) \in Nat
    <2>1. Differ(F) \subseteq Clusters
      BY DEF Differ
    <2> QED BY <2>1, ClusterSets
  <1>4. Cardinality(Differ(G)) <= n
    BY <1>2, <1>3
  <1>5. Cardinality(Differ(fat')) <= faults'
    BY <1>1, <1>4
  <1> QED BY <1>5, MirrorsNext DEF DiskInv

\* Every FAT mutation is mirrored: what differs is one entry per fault.
LEMMA NextMirror == DiskInv /\ MirrorInv /\ [Next]_vars => MirrorInv'
  <1> SUFFICES ASSUME DiskInv, MirrorInv, [Next]_vars PROVE MirrorInv'
    OBVIOUS
  <1>1. DiskInv'
    BY NextDisk
  <1>2. /\ fat \in [1..NumFats -> Fats] /\ copy \in 1..NumFats /\ faults \in Nat
        /\ NumFats \in Nat /\ TypeInv /\ TypeInv'
        /\ pc \notin {"free", "mark", "link", "failed"} => copy = 1
    <2>1. TypeInv /\ TypeInv' /\ PhaseInv
      BY <1>1 DEF DiskInv
    <2>2. fat \in [1..NumFats -> Fats] /\ copy \in 1..NumFats /\ faults \in Nat
      BY <2>1, FatAssumption DEF TypeInv
    <2>3. copy > 1 => pc \in {"free", "mark", "link", "failed"}
      BY <2>1 DEF PhaseInv
    <2>4. copy > 1 \/ copy = 1
      BY <2>2, Numbers
    <2> QED BY <2>1, <2>2, <2>3, <2>4, Numbers
  <1>3. CASE UNCHANGED vars
    BY <1>3 DEF vars, diskVars, regVars, MirrorInv, Mirror, Others, Differ
  <1>4. CASE Call
    <2>1. fat' = fat /\ copy' = 1 /\ faults' = faults /\ pc \in {"idle", "beyond"}
      <3>1. fat[1] \in Fats /\ data \in DataAreas
        BY Numbers DEF DiskInv, TypeInv
      <3>2. CASE Reject
        <4>1. pc \in {"idle", "beyond"}
          BY <1>4 DEF Call, Beyond, CreateFile, WriteFile, AppendFile, CreateDir, Remove
        <4> QED BY <1>2, <3>2, <4>1 DEF Reject, diskVars, regVars
      <3>3. CASE \E p \in Paths : Beyond(p)
        BY <1>2, <3>3 DEF Beyond, diskVars, regVars
      <3>4. CASE Begins
        BY <3>4 DEF Begins, Start, diskVars
      <3> QED BY <1>4, <3>1, <3>2, <3>3, <3>4, CallFound
    <2> QED BY <1>1, <1>2, <2>1, MirrorKept
  <1>5. CASE FreeWrite
    <2>1. /\ pc = "free" /\ cl \in Clusters /\ Wrote(fat, copy, cl, Free, fat')
          /\ faults' = faults
      BY <1>5, Numbers DEF FreeWrite, DiskInv, PhaseInv, Wrote
    <2>2. \/ copy < NumFats /\ copy' = copy + 1 /\ pc' = "free" /\ cl' = cl
          \/ ~(copy < NumFats) /\ copy' = 1
      BY <1>5 DEF FreeWrite
    <2>3. Mirror(fat, copy, cl, Free, faults)
      BY <1>2, <2>1, Mirrors
    <2>4. Free \in {Free, EOC} \cup DataClusters
      OBVIOUS
    <2>5. IF copy < NumFats THEN Mirror(fat', copy + 1, cl, Free, faults)
          ELSE Cardinality(Differ(fat')) <= faults
      BY <1>2, <2>1, <2>3, <2>4, MirrorWrite
    <2> QED BY <1>2, <2>1, <2>2, <2>5, MirrorsNext
  <1>6. CASE MarkEoc
    <2>1. /\ cl' \in Clusters /\ Wrote(fat, copy, cl', EOC, fat')
          /\ copy # 1 => cl' = cl
      BY <1>6, MarkEffect
    <2>2. /\ pc = "mark" /\ faults' = faults
          /\ \/ copy < NumFats /\ copy' = copy + 1 /\ pc' = "mark"
             \/ ~(copy < NumFats) /\ copy' = 1
      BY <1>6 DEF MarkEoc
    <2>3. PICK c, v : c = cl' /\ v = EOC
      OBVIOUS
    <2>4. /\ Mirror(fat, copy, cl, EOC, faults)
          /\ Mirror(fat, copy, c, v, faults)
      <3>1. Mirror(fat, copy, cl, EOC, faults)
        BY <1>2, <2>2, Mirrors
      <3> QED BY <2>1, <2>3, <3>1 DEF Mirror
    <2>5. /\ v \in {Free, EOC} \cup DataClusters /\ c \in Clusters
          /\ Wrote(fat, copy, c, v, fat')
      BY <2>1, <2>3
    <2>6. IF copy < NumFats THEN Mirror(fat', copy + 1, c, v, faults)
          ELSE Cardinality(Differ(fat')) <= faults
      BY <1>2, <2>4, <2>5, MirrorWrite
    <2> QED BY <1>2, <2>2, <2>3, <2>6, MirrorsNext
  <1>7. CASE LinkWrite
    <2>1. /\ pc = "link" /\ cl \in DataClusters /\ tail \in DataClusters
          /\ Wrote(fat, copy, tail, cl, fat') /\ cl' = cl /\ faults' = faults
          /\ \/ copy < NumFats /\ copy' = copy + 1 /\ tail' = tail /\ pc' = "link"
             \/ ~(copy < NumFats) /\ copy' = 1
      BY <1>2, <1>7, LinkEffect DEF LinkWrite
    <2>2. tail \in Clusters /\ cl \in {Free, EOC} \cup DataClusters
      BY <2>1, Numbers
    <2>3. Mirror(fat, copy, tail, cl, faults)
      BY <1>2, <2>1, Mirrors
    <2>4. IF copy < NumFats THEN Mirror(fat', copy + 1, tail, cl, faults)
          ELSE Cardinality(Differ(fat')) <= faults
      BY <1>2, <2>1, <2>2, <2>3, MirrorWrite
    <2> QED BY <1>2, <2>1, <2>4, MirrorsNext
  <1>8. CASE Fault
    <2>1. fat' = fat /\ pc' = "failed" /\ faults' = faults + 1
      BY <1>8 DEF Fault, diskVars
    <2>2. PICK F, n : F = fat /\ n = faults
      OBVIOUS
    <2>3. \E c : Cardinality(Differ(F)) <= n \/ Others(F, c) <= n
      BY <2>2 DEF MirrorInv, Mirror
    <2>4. PICK c : Cardinality(Differ(F)) <= n \/ Others(F, c) <= n
      BY <2>3
    <2>5. Differ(F) \subseteq Clusters /\ Differ(F) \ {c} \subseteq Clusters
      BY DEF Differ
    <2>6. /\ Cardinality(Differ(F)) \in Nat /\ Others(F, c) \in Nat
          /\ Cardinality(Differ(F)) <= Others(F, c) + 1
      BY <2>5, ClusterSets DEF Others
    <2>7. n \in Nat
      BY <1>2, <2>2
    <2>8. Cardinality(Differ(F)) <= n + 1
      BY <2>4, <2>6, <2>7
    <2>9. Cardinality(Differ(fat')) <= faults'
      BY <2>1, <2>2, <2>8
    <2> QED BY <1>2, <2>1, <2>9, MirrorsNext
  <1>9. CASE \E ok \in BOOLEAN : (ok \/ faults < MaxFaults) /\ (FreeInfo(ok) \/ AllocInfo(ok))
    <2>1. /\ fat' = fat /\ copy' = copy /\ pc \in {"freeinfo", "allocinfo"}
          /\ faults' = faults \/ faults' = faults + 1
      BY <1>9 DEF FreeInfo, AllocInfo
    <2> QED BY <1>1, <1>2, <2>1, MirrorKept
  <1>10. CASE \E r : Returns(r)
    <2>1. /\ fat' = fat /\ copy' = 1 /\ faults' = faults
          /\ pc = "failed" \/ copy = 1
      BY <1>2, <1>10 DEF Returns, Return, diskVars
    <2>2. CASE pc = "failed"
      <3>1. Cardinality(Differ(fat)) <= faults
        BY <1>2, <2>2, Mirrors
      <3> QED BY <1>2, <2>1, <3>1, MirrorsNext
    <2>3. CASE copy = 1
      BY <1>1, <1>2, <2>1, <2>3, MirrorKept
    <2> QED BY <2>1, <2>2, <2>3
  <1>12. CASE NotFound
    <2>1. fat' = fat /\ copy = 1 /\ copy' = 1 /\ faults' = faults
      BY <1>2, <1>12 DEF NotFound, Return, diskVars
    <2> QED BY <1>1, <1>2, <1>12, <2>1, MirrorKept DEF NotFound
  <1>11. CASE Deletes \/ ZeroCluster \/ WriteCluster \/ AddDirEntry \/ GrowDir
    <2>1. /\ fat' = fat /\ copy' = copy /\ faults' = faults
          /\ pc \in {"delete", "zero", "data", "add"}
      BY <1>11 DEF Deletes, ZeroCluster, WriteCluster, AddDirEntry, GrowDir, regVars,
                   diskVars
    <2> QED BY <1>1, <1>2, <2>1, MirrorKept
  <1> QED BY <1>3, <1>4, <1>5, <1>6, <1>7, <1>8, <1>9, <1>10, <1>11, <1>12, Steps

\* fat.rs 8-9: every FAT mutation is mirrored to all copies, at any point and
\* after any number of faults, for any number of copies.
THEOREM FatsStayMirrored == Spec => []FatsMirrored
  <1>1. Init => MirrorInv
    <2> SUFFICES ASSUME Init PROVE MirrorInv
      OBVIOUS
    <2>1. copy = 1 /\ faults = 0 /\ TypeInv
      BY InitDisk DEF Init, DiskInv
    <2>2. Differ(fat) = {}
      <3>1. \A i \in 1..NumFats : fat[i] = fat[1]
        BY Numbers DEF Init
      <3> QED BY <3>1 DEF Differ
    <2>3. Cardinality(Differ(fat)) <= faults
      BY <2>1, <2>2, FS_EmptySet
    <2> QED BY <2>1, <2>3, Mirrors
  <1>2. DiskInv /\ MirrorInv => FatsMirrored
    <2> SUFFICES ASSUME DiskInv, MirrorInv PROVE FatsMirrored
      OBVIOUS
    <2>1. PICK c : Cardinality(Differ(fat)) <= faults \/ Others(fat, c) <= faults
      BY DEF MirrorInv, Mirror
    <2>2. Differ(fat) \subseteq Clusters /\ Differ(fat) \ {c} \subseteq Clusters
      BY DEF Differ
    <2>3. /\ Cardinality(Differ(fat)) \in Nat /\ Others(fat, c) \in Nat
          /\ Cardinality(Differ(fat)) <= Others(fat, c) + 1 /\ faults \in Nat
      <3>1. faults \in Nat
        BY FatAssumption DEF DiskInv, TypeInv
      <3>2. PICK S : S = Differ(fat)
        OBVIOUS
      <3>3. /\ Cardinality(S) \in Nat /\ Cardinality(S \ {c}) \in Nat
            /\ Cardinality(S) <= Cardinality(S \ {c}) + 1
        BY <2>2, <3>2, ClusterSets
      <3> QED BY <3>1, <3>2, <3>3 DEF Others
    <2>4. pc = "idle" => Cardinality(Differ(fat)) <= faults
      <3>1. pc = "idle" => copy = 1 /\ TypeInv
        BY Numbers DEF DiskInv, TypeInv, PhaseInv
      <3> QED BY <3>1, Mirrors
    <2>5. Cardinality(Differ(fat)) <= faults + (IF pc = "idle" THEN 0 ELSE 1)
      BY <2>1, <2>3, <2>4
    <2> QED BY <2>5 DEF FatsMirrored, Differ
  <1>3. Spec => []MirrorInv
    <2>1. DiskInv /\ MirrorInv /\ [Next]_vars => MirrorInv'
      BY NextMirror
    <2> QED BY <1>1, <2>1, DiskInvariant, PTL DEF Spec
  <1> QED BY <1>2, <1>3, DiskInvariant, PTL

-----------------------------------------------------------------------------
(* The structure of the disk.                                              *)

\* fat.rs 14-16: the shell "only emit[s] names that already fit 8.3".
NamesFit == \A n \in Names : Short[n] = n

\* No set of clusters leads only into itself: there is no loop.
Acyclic(f) == \A S \in SUBSET Clusters : S # {} => \E c \in S : f[c] \notin S

NoPred(f, c) == \A b \in Clusters : f[b] # c

\* Nothing has two predecessors, and no chain runs into a free cluster.
FatOK(f) ==
    /\ Acyclic(f)
    /\ \A b, c \in Clusters : f[b] \in DataClusters /\ f[b] = f[c] => b = c
    /\ \A b \in Clusters : f[b] \in DataClusters => f[f[b]] # Free

\* The slots of the data area, those with an entry, and those of them that are
\* in the chain from h.
Slots == DataClusters \X (1..ClusterUnits)
At(d, x) == d[x[1]][x[2]]
EntrySlots(d) == {x \in Slots : At(d, x).k = "entry"}
In(f, h) == RangeOf(ChainIn(f, h))
Holds(f, d, h) == {x \in EntrySlots(d) : x[1] \in In(f, h)}

\* The entries besides those in X, the damaged ones, own their chains.
Owner(f, c) == NoPred(f, c) /\ f[c] # Free
Sized(f, e) == Len(ChainIn(f, e.cluster)) = ClustersFor(e.size)
Owners(f, d, X) ==
    /\ Owner(f, Root)
    /\ \A x \in EntrySlots(d) \ X :
          At(d, x).cluster # 0 => At(d, x).cluster # Root /\ Owner(f, At(d, x).cluster)
    /\ \A x \in EntrySlots(d) \ X : ~At(d, x).dir => Sized(f, At(d, x))
    /\ \A x, y \in EntrySlots(d) \ X :
          At(d, x).cluster # 0 /\ At(d, x).cluster = At(d, y).cluster => x = y

\* No chain begins with c or goes through it.
Heads(d, X) == {Root} \cup {At(d, x).cluster : x \in EntrySlots(d) \ X}
Loose(f, d, X, c) == NoPred(f, c) /\ c \notin Heads(d, X)

\* A directory: nothing but slots, nothing behind its end, no name twice.
Tidy(s) ==
    /\ \A j \in 1..Len(s) : s[j].k # "byte"
    /\ \A i, j \in 1..Len(s) : i < j /\ s[i] = End => s[j] = End
DirOK(f, d, h) ==
    /\ Tidy(UnitsIn(f, d, h))
    /\ \A x, y \in Holds(f, d, h) : At(d, x).name = At(d, y).name => x = y

\* T gives the undamaged directories by their paths.
Tree(f, d, T, X) ==
    /\ T \in [DOMAIN T -> DataClusters] /\ DOMAIN T \subseteq Seq(Names)
    /\ <<>> \in DOMAIN T /\ T[<<>>] = Root
    /\ \A p, q \in DOMAIN T : T[p] = T[q] => p = q
    /\ \A p \in DOMAIN T : p # <<>> =>
          /\ Parent(p) \in DOMAIN T
          /\ \E x \in Holds(f, d, T[Parent(p)]) \ X :
                At(d, x).dir /\ At(d, x).name = Last(p) /\ At(d, x).cluster = T[p]
    /\ \A p \in DOMAIN T : \A x \in Holds(f, d, T[p]) \ X : At(d, x).dir =>
          /\ Append(p, At(d, x).name) \in DOMAIN T
          /\ T[Append(p, At(d, x).name)] = At(d, x).cluster
    /\ \A p \in DOMAIN T : DirOK(f, d, T[p])
    /\ \A x \in EntrySlots(d) : \E p \in DOMAIN T : x \in Holds(f, d, T[p])

\* What is damaged is on one of the paths in B.
Damage(f, d, T, X, B) ==
    /\ X \subseteq EntrySlots(d)
    /\ \A x \in X : \E p \in DOMAIN T :
          x \in Holds(f, d, T[p]) /\ Append(p, At(d, x).name) \in B

Active == pc \notin {"idle", "failed", "beyond"}
Clearing == pc \in {"free", "freeinfo", "delete"}
Fresh == pc \in {"zero", "link"} \/ (pc = "mark" /\ copy > 1)

\* The paths whose entries may be damaged.
Suspects == IF Clearing THEN bad \cup {op.path}
            ELSE IF Active THEN bad \ {op.path} ELSE bad

\* Damaged entries name loose clusters until clusters are given to others.
DamageInv(X) ==
    /\ ~reused => \A x \in X : At(data, x).cluster # 0 =>
          Loose(fat[1], data, X, At(data, x).cluster)
    /\ (Active /\ ~reused /\ (head # 0 \/ Fresh)) => X = {}

\* While the old entry goes: it is one of the damaged.
ClearInv(X) == Clearing =>
    /\ \E x \in X \cap Holds(fat[1], data, op.parent) :
          /\ At(data, x).name = Last(op.path) /\ At(data, x).cluster = op.free
          /\ At(data, x).dir /\ op.path \notin bad =>
                Tidy(UnitsIn(fat[1], data, op.free))
    /\ op.free # 0 =>
          /\ Loose(fat[1], data, X, op.free)
          /\ fat[1][op.free] = Free \/ (pc = "free" /\ copy = 1 /\ cl = op.free)
    /\ pc = "free" =>
          /\ op.free # 0 /\ Loose(fat[1], data, X, cl)
          /\ copy > 1 => fat[1][cl] = Free
          /\ copy > 1 /\ nxt \in DataClusters => Loose(fat[1], data, X, nxt)

NotThere == \A x \in Holds(fat[1], data, op.parent) : At(data, x).name # Last(op.path)

\* The i-th cluster's worth of an operation.
ChunkOf(o, i) ==
    [u \in 1..ClusterUnits |->
        IF o.mkdir THEN IF u <= 2 THEN Skip ELSE End
        ELSE LET j == i * ClusterUnits + u
             IN  IF j <= Len(o.payload) THEN Byte(o.payload[j]) ELSE End]

\* What is written of the new chain.
Filled(n) ==
    LET ch == ChainIn(fat[1], head)
    IN  Len(ch) = op.need /\ \A i \in 1..n : data[ch[i]] = ChunkOf(op, i - 1)

\* While the new entry comes.
MakeInv(X) == (Active /\ ~Clearing) =>
    /\ pc # "done" => NotThere
    /\ pc # "done" /\ head # 0 => Loose(fat[1], data, X, head) /\ fat[1][head] # Free
    /\ Fresh /\ ~(pc = "link" /\ copy > 1) => Loose(fat[1], data, X, cl) /\ cl # head
    /\ Fresh => fat[1][cl] = EOC
    /\ pc = "link" => data[cl] = Zeros
    /\ growing /\ pc \in {"mark", "zero", "link"} =>
          /\ tail \in In(fat[1], op.parent)
          /\ fat[1][tail] = IF pc = "link" /\ copy > 1 THEN cl ELSE EOC
    /\ op.need > 0 /\ pc = "data" => Filled(cnt)
    /\ op.need > 0 /\ (pc \in {"add", "done"} \/ growing) => Filled(op.need)

\* The new entry.
DoneInv(X) == pc = "done" =>
    IF ~op.add THEN NotThere
    ELSE /\ \E x \in Holds(fat[1], data, op.parent) \ X :
               At(data, x) = Entry(Last(op.path), op.mkdir, head, Len(op.payload))
         /\ op.mkdir => Holds(fat[1], data, head) = {}

StructInv(T, X) ==
    /\ Tree(fat[1], data, T, X) /\ Owners(fat[1], data, X)
    /\ Damage(fat[1], data, T, X, Suspects) /\ DamageInv(X)
    /\ Active => Parent(op.path) \in DOMAIN T /\ T[Parent(op.path)] = op.parent
    /\ ClearInv(X) /\ MakeInv(X) /\ DoneInv(X)

TreeInv == FatOK(fat[1]) /\ \E T, X : StructInv(T, X)

-----------------------------------------------------------------------------
(* Chains as sets of clusters.                                             *)

\* Two ways along one chain are the same way.
LEMMA RunsAgree ==
    ASSUME NEW f, NEW h, NEW s, NEW t, Run(f, h, s), Run(f, h, t)
    PROVE  \A i \in 1..Len(s) : i <= Len(t) => s[i] = t[i]
  <1> DEFINE n == Len(s)
             P == {i \in 0..n : i \in 1..Len(t) => s[i] = t[i]}
  <1>1. /\ n \in Nat /\ Len(t) \in Nat /\ s[1] = h /\ t[1] = h
        /\ \A i \in 1..(n - 1) : f[s[i]] = s[i + 1]
        /\ \A i \in 1..(Len(t) - 1) : f[t[i]] = t[i + 1]
    BY DEF Run
  <1> HIDE DEF n
  <1>2. 0 \in P
    BY <1>1
  <1>3. ASSUME NEW i \in 1..n, i - 1 \in P PROVE i \in P
    <2>1. CASE i = 1
      BY <1>1, <2>1
    <2>2. CASE i # 1
      <3>1. i - 1 \in 1..(n - 1) /\ i \in 0..n /\ (i - 1) + 1 = i
        BY <1>1, <2>2
      <3>2. ASSUME i \in 1..Len(t) PROVE s[i] = t[i]
        <4>1. i - 1 \in 1..(Len(t) - 1) /\ i - 1 \in 1..Len(t)
          BY <1>1, <2>2, <3>2
        <4>2. s[i - 1] = t[i - 1]
          BY <1>3, <4>1
        <4> QED BY <1>1, <3>1, <4>1, <4>2
      <3> QED BY <3>1, <3>2
    <2> QED BY <2>1, <2>2
  <1> HIDE DEF P
  <1>4. \A i \in 0..n : i \in P
    BY <1>1, <1>2, <1>3, UpTo
  <1>5. ASSUME NEW i \in 1..n, i <= Len(t) PROVE s[i] = t[i]
    <2>1. i \in 0..n /\ i \in 1..Len(t)
      BY <1>1, <1>5
    <2> QED BY <1>4, <2>1 DEF P
  <1> QED BY <1>5 DEF n

\* Without loops no cluster comes twice.
LEMMA RunDistinct ==
    ASSUME NEW f, Acyclic(f), NEW h, NEW s, Run(f, h, s)
    PROVE  \A i, j \in 1..Len(s) : s[i] = s[j] => i = j
  <1>1. /\ Len(s) \in Nat /\ \A i \in 1..Len(s) : s[i] \in Clusters
        /\ \A i \in 1..(Len(s) - 1) : f[s[i]] = s[i + 1]
    <2>1. s \in Seq(DataClusters)
      BY DEF Run
    <2>2. Len(s) \in Nat /\ \A i \in 1..Len(s) : s[i] \in DataClusters
      BY <2>1
    <2>3. \A i \in 1..Len(s) : s[i] \in Clusters
      BY <2>2, Numbers
    <2> QED BY <2>2, <2>3 DEF Run
  <1>2. ASSUME NEW i \in 1..Len(s), NEW j \in 1..Len(s), i < j, s[i] = s[j] PROVE FALSE
    <2> DEFINE S == {s[k] : k \in i..(j - 1)}
    <2>1. S \subseteq Clusters /\ S # {}
      <3>1. \A k \in i..(j - 1) : k \in 1..Len(s)
        BY <1>1
      <3>2. i \in i..(j - 1)
        BY <1>2
      <3> QED BY <1>1, <3>1, <3>2
    <2>2. PICK c \in S : f[c] \notin S
      <3> HIDE DEF S
      <3> QED BY <2>1 DEF Acyclic
    <2>3. PICK k \in i..(j - 1) : c = s[k]
      OBVIOUS
    <2>4. k \in 1..(Len(s) - 1) /\ f[c] = s[k + 1]
      BY <1>1, <2>3
    <2>5. CASE k = j - 1
      <3>1. f[c] = s[i] /\ i \in i..(j - 1)
        BY <1>1, <1>2, <2>4, <2>5
      <3> QED BY <2>2, <3>1
    <2>6. CASE k # j - 1
      <3>1. k + 1 \in i..(j - 1)
        BY <1>1, <2>3, <2>6
      <3> QED BY <2>2, <2>4, <3>1
    <2> QED BY <2>5, <2>6
  <1> QED BY <1>1, <1>2

\* Without loops read_chain ends where the chain ends.
LEMMA ChainEnds ==
    ASSUME NEW f \in Fats, Acyclic(f), NEW h \in DataClusters
    PROVE  /\ Run(f, h, ChainIn(f, h)) /\ Ends(f, ChainIn(f, h))
           /\ \A i, j \in 1..Len(ChainIn(f, h)) :
                 ChainIn(f, h)[i] = ChainIn(f, h)[j] => i = j
  <1> DEFINE ch == ChainIn(f, h)
             n == Len(ch)
  <1>1. Run(f, h, ch) /\ (Ends(f, ch) \/ n = LastData + 1)
    BY ChainRun
  <1> HIDE DEF ch
  <1>2. \A i, j \in 1..n : ch[i] = ch[j] => i = j
    BY <1>1, RunDistinct
  <1>3. n # LastData + 1
    <2> SUFFICES ASSUME n = LastData + 1 PROVE FALSE
      OBVIOUS
    <2>1. ch \in [1..n -> DataClusters] /\ n \in Nat
      BY <1>1 DEF Run
    <2> DEFINE S == 1..n
               T == 2..LastData
    <2>2. IsFiniteSet(S) /\ Cardinality(S) = n
      BY <2>1, Numbers, FS_Interval
    <2>3. IsFiniteSet(T) /\ Cardinality(T) = LastData - 1
      BY Numbers, FS_Interval
    <2>4. Cardinality(T) < Cardinality(S) /\ ch \in [S -> T]
      <3>1. Cardinality(T) < Cardinality(S)
        BY <2>2, <2>3, Numbers
      <3>2. T = DataClusters
        BY DEF DataClusters
      <3> HIDE DEF T, n
      <3> QED BY <2>1, <3>1, <3>2
    <2> HIDE DEF S, T
    <2>5. \E x, y \in S : x # y /\ ch[x] = ch[y]
      BY <2>2, <2>3, <2>4, FS_PigeonHole
    <2> QED BY <1>2, <2>5 DEF S
  <1> QED BY <1>1, <1>2, <1>3 DEF ch

\* The chain is the way that ends.
LEMMA ChainIs ==
    ASSUME NEW f \in Fats, Acyclic(f), NEW h, NEW s, Run(f, h, s)
    PROVE  /\ h \in DataClusters /\ Len(s) <= Len(ChainIn(f, h))
           /\ \A i \in 1..Len(s) : s[i] = ChainIn(f, h)[i]
           /\ Ends(f, s) => ChainIn(f, h) = s
  <1>1. h \in DataClusters
    <2>1. 1 \in 1..Len(s) /\ s \in Seq(DataClusters)
      BY DEF Run
    <2> QED BY <2>1 DEF Run
  <1> DEFINE t == ChainIn(f, h)
  <1>2. Run(f, h, t) /\ Ends(f, t)
    BY <1>1, ChainEnds
  <1> HIDE DEF t
  <1>3. /\ s \in Seq(DataClusters) /\ t \in Seq(DataClusters) /\ Len(s) \in Nat
        /\ Len(t) \in Nat /\ Len(s) >= 1 /\ Len(t) >= 1
        /\ \A i \in 1..(Len(s) - 1) : f[s[i]] = s[i + 1]
        /\ \A i \in 1..(Len(t) - 1) : f[t[i]] = t[i + 1]
    BY <1>2 DEF Run
  <1>4. \A i \in 1..Len(s) : i <= Len(t) => s[i] = t[i]
    BY <1>2, RunsAgree
  <1>5. ASSUME Len(t) < Len(s) PROVE FALSE
    <2> DEFINE m == Len(t)
    <2>1. m \in 1..(Len(s) - 1) /\ m \in 1..Len(s) /\ m + 1 \in 1..Len(s)
      BY <1>3, <1>5
    <2>2. s[m] = t[m] /\ f[t[m]] = s[m + 1] /\ s[m + 1] \in DataClusters
      BY <1>3, <1>4, <2>1
    <2> QED BY <1>2, <2>2 DEF Ends
  <1>6. ASSUME Ends(f, s), Len(s) < Len(t) PROVE FALSE
    <2> DEFINE m == Len(s)
    <2>1. m \in 1..(Len(t) - 1) /\ m \in 1..Len(s) /\ m + 1 \in 1..Len(t) /\ m <= Len(t)
      BY <1>3, <1>6
    <2>2. s[m] = t[m] /\ f[t[m]] = t[m + 1] /\ t[m + 1] \in DataClusters
      BY <1>3, <1>4, <2>1
    <2> QED BY <1>6, <2>2 DEF Ends
  <1>7. Len(s) <= Len(t) /\ \A i \in 1..Len(s) : s[i] = t[i]
    BY <1>3, <1>4, <1>5
  <1>8. Ends(f, s) => t = s
    BY <1>3, <1>6, <1>7
  <1> QED BY <1>1, <1>7, <1>8 DEF t

\* An empty file has no chain.
LEMMA NoChain == \A f : ChainIn(f, 0) = <<>> /\ In(f, 0) = {}
  <1> SUFFICES ASSUME NEW f PROVE ChainIn(f, 0) = <<>> /\ In(f, 0) = {}
    OBVIOUS
  <1> DEFINE n == LastData
             Body(w, i) == IF i = 0 THEN IF IsCluster(0) THEN <<0>> ELSE <<>>
                           ELSE LET s == w[i - 1] IN Longer(f, s)
             w == CHOOSE g : g = [i \in 0..n |-> Body(g, i)]
             g == [i \in 0..n |-> <<>>]
  <1>1. n \in Nat /\ ~IsCluster(0)
    BY Numbers DEF IsCluster
  <1>2. ChainIn(f, 0) = w[n]
    BY DEF ChainIn, Longer
  <1> HIDE DEF n
  <1>3. Longer(f, <<>>) = <<>>
    BY DEF Longer
  <1>4. g = [i \in 0..n |-> Body(g, i)]
    <2>1. ASSUME NEW i \in 0..n PROVE g[i] = Body(g, i)
      <3>1. CASE i = 0
        BY <1>1, <3>1
      <3>2. CASE i # 0
        <4>1. i - 1 \in 0..n
          BY <1>1, <3>2
        <4> QED BY <1>3, <3>2, <4>1
      <3> QED BY <3>1, <3>2
    <2> HIDE DEF Body
    <2> QED BY <2>1
  <1>5. w = [i \in 0..n |-> Body(w, i)]
    <2> HIDE DEF Body, g
    <2> QED BY <1>4
  <1> HIDE DEF w
  <1> DEFINE P == {i \in 0..n : w[i] = <<>>}
  <1>6. 0 \in P
    BY <1>1, <1>5
  <1>7. ASSUME NEW i \in 1..n, i - 1 \in P PROVE i \in P
    <2>1. i \in 0..n /\ i # 0
      BY <1>1
    <2>2. w[i] = Longer(f, w[i - 1])
      BY <1>5, <2>1
    <2> QED BY <1>3, <1>7, <2>1, <2>2
  <1>8. \A i \in 0..n : i \in P
    <2> HIDE DEF P
    <2> QED BY <1>1, <1>6, <1>7, UpTo
  <1>9. ChainIn(f, 0) = <<>>
    BY <1>1, <1>2, <1>8
  <1> QED BY <1>9 DEF In, RangeOf

\* The clusters of a chain: its head, and the successors.
LEMMA InFacts ==
    ASSUME NEW f \in Fats, Acyclic(f), NEW h \in DataClusters
    PROVE  /\ In(f, h) \subseteq DataClusters /\ In(f, h) \subseteq Clusters
           /\ h \in In(f, h)
           /\ \A c \in In(f, h) : c # h => \E b \in In(f, h) : f[b] = c
           /\ \A c \in In(f, h) : f[c] \in DataClusters => f[c] \in In(f, h)
  <1> DEFINE ch == ChainIn(f, h)
             n == Len(ch)
  <1>1. Run(f, h, ch) /\ Ends(f, ch) /\ In(f, h) = RangeOf(ch)
    BY ChainEnds DEF In
  <1> HIDE DEF ch
  <1>2. /\ n \in Nat /\ n >= 1 /\ ch \in Seq(DataClusters) /\ DOMAIN ch = 1..n
        /\ ch[1] = h /\ \A i \in 1..(n - 1) : f[ch[i]] = ch[i + 1]
    BY <1>1 DEF Run
  <1>0. \A i \in 1..n : i # n => i \in 1..(n - 1) /\ i + 1 \in 1..n
    <2>1. n \in Nat
      BY <1>2
    <2> HIDE DEF n
    <2> QED BY <2>1
  <1>3. \A c : c \in In(f, h) <=> \E i \in 1..n : c = ch[i]
    BY <1>1, <1>2 DEF RangeOf
  <1>4. In(f, h) \subseteq DataClusters /\ In(f, h) \subseteq Clusters
    <2>1. In(f, h) \subseteq DataClusters
      BY <1>2, <1>3
    <2> QED BY <2>1, Numbers
  <1>5. h \in In(f, h)
    <2>1. 1 \in 1..n
      BY <1>2
    <2> QED BY <1>2, <1>3, <2>1
  <1>6. ASSUME NEW c \in In(f, h), c # h PROVE \E b \in In(f, h) : f[b] = c
    <2>1. PICK i \in 1..n : c = ch[i]
      BY <1>3
    <2>2. i - 1 \in 1..(n - 1) /\ i - 1 \in 1..n /\ (i - 1) + 1 = i
      BY <1>2, <1>6, <2>1
    <2>3. ch[i - 1] \in In(f, h) /\ f[ch[i - 1]] = c
      BY <1>2, <1>3, <2>1, <2>2
    <2> QED BY <2>3
  <1>7. ASSUME NEW c \in In(f, h), f[c] \in DataClusters PROVE f[c] \in In(f, h)
    <2>1. PICK i : i \in 1..n /\ c = ch[i]
      BY <1>3
    <2>2. i # n
      BY <1>1, <1>7, <2>1 DEF Ends
    <2>3. i \in 1..(n - 1) /\ i + 1 \in 1..n
      BY <1>0, <2>1, <2>2
    <2> QED BY <1>2, <1>3, <2>1, <2>3
  <1> QED BY <1>4, <1>5, <1>6, <1>7

\* The last cluster of a chain.
LEMMA LastIn ==
    ASSUME NEW f \in Fats, Acyclic(f), NEW h \in DataClusters
    PROVE  LET ch == ChainIn(f, h)
           IN  /\ Len(ch) \in Nat /\ Len(ch) >= 1 /\ ch \in Seq(DataClusters)
               /\ ch[Len(ch)] \in In(f, h) /\ f[ch[Len(ch)]] \notin DataClusters
               /\ \A i \in 1..Len(ch) : ch[i] \in In(f, h)
               /\ \A c \in In(f, h) : \E i \in 1..Len(ch) : c = ch[i]
               /\ \A c \in In(f, h) : f[c] \notin DataClusters => c = ch[Len(ch)]
  <1> DEFINE ch == ChainIn(f, h)
             n == Len(ch)
  <1>1. Run(f, h, ch) /\ Ends(f, ch) /\ In(f, h) = RangeOf(ch)
    BY ChainEnds DEF In
  <1> HIDE DEF ch
  <1>2. /\ n \in Nat /\ n >= 1 /\ ch \in Seq(DataClusters) /\ DOMAIN ch = 1..n
        /\ \A i \in 1..(n - 1) : f[ch[i]] = ch[i + 1]
    BY <1>1 DEF Run
  <1>0. \A i \in 1..n : i # n => i \in 1..(n - 1) /\ i + 1 \in 1..n
    <2>1. n \in Nat
      BY <1>2
    <2> HIDE DEF n
    <2> QED BY <2>1
  <1>3. \A c : c \in In(f, h) <=> \E i \in 1..n : c = ch[i]
    BY <1>1, <1>2 DEF RangeOf
  <1>4. ch[n] \in In(f, h) /\ f[ch[n]] \notin DataClusters
    <2>1. n \in 1..n
      BY <1>2
    <2> QED BY <1>1, <1>3, <2>1 DEF Ends
  <1>5. ASSUME NEW c \in In(f, h), f[c] \notin DataClusters PROVE c = ch[n]
    <2>1. PICK i : i \in 1..n /\ c = ch[i]
      BY <1>3
    <2>2. CASE i # n
      <3>1. i \in 1..(n - 1) /\ i + 1 \in 1..n
        BY <1>0, <2>1, <2>2
      <3>2. f[c] = ch[i + 1] /\ ch[i + 1] \in DataClusters
        BY <1>2, <2>1, <3>1
      <3> QED BY <1>5, <3>2
    <2> QED BY <2>1, <2>2
  <1> QED BY <1>2, <1>3, <1>4, <1>5 DEF ch

\* What is reached along a chain is in it.
LEMMA RunIn ==
    ASSUME NEW f \in Fats, Acyclic(f), NEW h, NEW s, Run(f, h, s)
    PROVE  h \in DataClusters /\ \A i \in 1..Len(s) : s[i] \in In(f, h)
  <1>1. /\ h \in DataClusters /\ Len(s) <= Len(ChainIn(f, h))
        /\ \A i \in 1..Len(s) : s[i] = ChainIn(f, h)[i]
    BY ChainIs
  <1>2. ChainIn(f, h) \in Seq(DataClusters) /\ s \in Seq(DataClusters)
    <2>1. Run(f, h, ChainIn(f, h))
      BY <1>1, ChainEnds
    <2> QED BY <2>1 DEF Run
  <1>3. /\ Len(s) \in Nat /\ Len(ChainIn(f, h)) \in Nat
        /\ DOMAIN ChainIn(f, h) = 1..Len(ChainIn(f, h))
    BY <1>2
  <1> QED BY <1>1, <1>3 DEF In, RangeOf

\* Chains with different heads have no cluster in common.
LEMMA Apart ==
    ASSUME NEW f \in Fats, FatOK(f), NEW g \in DataClusters, NEW h \in DataClusters,
           NoPred(f, g), NoPred(f, h), g # h
    PROVE  In(f, g) \cap In(f, h) = {}
  <1> SUFFICES ASSUME NEW c, c \in In(f, g), c \in In(f, h) PROVE FALSE
    OBVIOUS
  <1>1. Acyclic(f)
    BY DEF FatOK
  <1> DEFINE ch == ChainIn(f, g)
             n == Len(ch)
             T == {i \in 1..n : ch[i] \in In(f, h)}
  <1>2. /\ n \in Nat /\ ch[1] = g /\ \A i \in 1..(n - 1) : f[ch[i]] = ch[i + 1]
        /\ \A i \in 1..n : ch[i] \in In(f, g) /\ ch[i] \in Clusters
    <2>1. Run(f, g, ch)
      BY <1>1, ChainEnds
    <2>2. \A i \in 1..n : ch[i] \in In(f, g)
      BY <1>1, <2>1, RunIn
    <2>3. In(f, g) \subseteq Clusters
      BY <1>1, InFacts
    <2> HIDE DEF ch
    <2> QED BY <2>1, <2>2, <2>3 DEF Run
  <1>3. PICK j \in 1..n : c = ch[j]
    BY <1>1, LastIn
  <1> HIDE DEF ch
  <1>4. T \subseteq Nat /\ T # {}
    BY <1>2, <1>3
  <1>5. PICK m \in T : \A k \in T : m <= k
    <2> HIDE DEF T
    <2> QED BY <1>4, LeastNumber
  <1>6. m \in 1..n /\ ch[m] \in In(f, h)
    OBVIOUS
  <1>7. CASE m = 1
    <2>1. \E b \in In(f, h) : f[b] = g
      BY <1>1, <1>2, <1>6, <1>7, InFacts
    <2>2. In(f, h) \subseteq Clusters
      BY <1>1, InFacts
    <2> QED BY <2>1, <2>2 DEF NoPred
  <1>8. CASE m # 1
    <2>1. m - 1 \in 1..(n - 1) /\ m - 1 \in 1..n /\ (m - 1) + 1 = m /\ ~(m <= m - 1)
      BY <1>2, <1>6, <1>8
    <2>2. f[ch[m - 1]] = ch[m] /\ ch[m - 1] \in Clusters
      BY <1>2, <2>1
    <2>3. ch[m] # h
      BY <2>2 DEF NoPred
    <2>4. PICK b \in In(f, h) : f[b] = ch[m]
      BY <1>1, <1>6, <2>3, InFacts
    <2>5. b \in Clusters /\ ch[m] \in DataClusters
      BY <1>1, <1>6, InFacts
    <2>6. b = ch[m - 1]
      BY <2>2, <2>4, <2>5 DEF FatOK
    <2>7. m - 1 \in T
      BY <2>1, <2>4, <2>6
    <2> QED BY <1>5, <2>1, <2>7
  <1> QED BY <1>7, <1>8

\* A cluster without predecessor is in no chain but its own.
LEMMA LooseOut ==
    ASSUME NEW f \in Fats, Acyclic(f), NEW h \in DataClusters, NEW c, NoPred(f, c), c # h
    PROVE  c \notin In(f, h)
  BY InFacts DEF NoPred

\* No cluster of an owned chain is free.
LEMMA OwnerIn ==
    ASSUME NEW f \in Fats, FatOK(f), NEW h \in DataClusters, f[h] # Free
    PROVE  \A c \in In(f, h) : f[c] # Free
  <1>1. ASSUME NEW c \in In(f, h), c # h PROVE f[c] # Free
    <2>1. PICK b \in In(f, h) : f[b] = c
      BY <1>1, InFacts DEF FatOK
    <2>2. b \in Clusters /\ c \in DataClusters
      BY InFacts DEF FatOK
    <2> QED BY <2>1, <2>2 DEF FatOK
  <1> QED BY <1>1

\* A chain does not change by writes elsewhere.
LEMMA ChainFrame ==
    ASSUME NEW f \in Fats, NEW g \in Fats, Acyclic(f), Acyclic(g), NEW h \in DataClusters,
           \A c \in In(f, h) : g[c] = f[c]
    PROVE  ChainIn(g, h) = ChainIn(f, h) /\ In(g, h) = In(f, h)
  <1> DEFINE ch == ChainIn(f, h)
             n == Len(ch)
  <1>1. Run(f, h, ch) /\ Ends(f, ch)
    BY ChainEnds
  <1>2. /\ n \in Nat /\ n >= 1 /\ ch[n] \in In(f, h)
        /\ \A i \in 1..n : ch[i] \in In(f, h)
    BY LastIn
  <1> HIDE DEF ch
  <1>3. \A i \in 1..(n - 1) : g[ch[i]] = ch[i + 1]
    <2>1. \A i \in 1..(n - 1) : i \in 1..n
      BY <1>2
    <2> QED BY <1>1, <1>2, <2>1 DEF Run
  <1>4. Run(g, h, ch)
    BY <1>1, <1>3 DEF Run
  <1>5. Ends(g, ch)
    BY <1>1, <1>2 DEF Ends
  <1>6. ChainIn(g, h) = ch
    BY <1>4, <1>5, ChainIs
  <1> QED BY <1>6 DEF In, ch

\* A cluster at the end of a chain makes it longer.
LEMMA ChainGrows ==
    ASSUME NEW f \in Fats, NEW g \in Fats, Acyclic(f), Acyclic(g), NEW h \in DataClusters,
           NEW t \in In(f, h), f[t] \notin DataClusters, NEW c \in DataClusters,
           g[t] = c, g[c] \notin DataClusters, c \notin In(f, h),
           \A b \in In(f, h) : b # t => g[b] = f[b]
    PROVE  ChainIn(g, h) = Append(ChainIn(f, h), c) /\ In(g, h) = In(f, h) \cup {c}
  <1> DEFINE ch == ChainIn(f, h)
             n == Len(ch)
             s == Append(ch, c)
  <1>1. Run(f, h, ch) /\ Ends(f, ch)
       /\ \A i, j \in 1..n : ch[i] = ch[j] => i = j
    BY ChainEnds
  <1>2. /\ n \in Nat /\ n >= 1 /\ ch \in Seq(DataClusters)
        /\ \A i \in 1..n : ch[i] \in In(f, h)
        /\ t = ch[n] /\ In(f, h) = RangeOf(ch)
    BY LastIn DEF In
  <1> HIDE DEF ch
  <1>3. /\ s \in Seq(DataClusters) /\ Len(s) = n + 1 /\ s[n + 1] = c
        /\ \A i \in 1..n : s[i] = ch[i]
    BY <1>2
  <1> HIDE DEF s
  <1>4. ASSUME NEW i \in 1..(Len(s) - 1) PROVE g[s[i]] = s[i + 1]
    <2>1. i \in 1..n /\ s[i] = ch[i]
      BY <1>2, <1>3
    <2>2. CASE i = n
      BY <1>2, <1>3, <2>1, <2>2
    <2>3. CASE i # n
      <3>1. i \in 1..(n - 1) /\ i + 1 \in 1..n /\ n \in 1..n
        BY <1>2, <2>1, <2>3
      <3>2. ch[i] # t
        BY <1>1, <1>2, <2>1, <2>3, <3>1
      <3>3. g[ch[i]] = f[ch[i]] /\ f[ch[i]] = ch[i + 1]
        BY <1>1, <1>2, <2>1, <3>1, <3>2 DEF Run
      <3> QED BY <1>3, <2>1, <3>1, <3>3
    <2> QED BY <2>2, <2>3
  <1>5. s[1] = h
    BY <1>1, <1>2, <1>3 DEF Run
  <1>6. Run(g, h, s) /\ Ends(g, s)
    BY <1>2, <1>3, <1>4, <1>5 DEF Run, Ends
  <1>7. ChainIn(g, h) = s
    BY <1>6, ChainIs
  <1>8. RangeOf(s) = RangeOf(ch) \cup {c}
    <2>1. DOMAIN s = 1..(n + 1) /\ DOMAIN ch = 1..n
      BY <1>2, <1>3
    <2>2. \A x : (\E i \in 1..(n + 1) : x = s[i]) <=> x = c \/ \E i \in 1..n : x = ch[i]
      <3>1. \A i \in 1..(n + 1) : i = n + 1 \/ i \in 1..n
        BY <1>2
      <3>2. \A i \in 1..n : i \in 1..(n + 1)
        BY <1>2
      <3>3. n + 1 \in 1..(n + 1)
        BY <1>2
      <3> QED BY <1>3, <3>1, <3>2, <3>3
    <2>3. /\ \A x : x \in RangeOf(s) <=> \E i \in 1..(n + 1) : x = s[i]
          /\ \A x : x \in RangeOf(ch) <=> \E i \in 1..n : x = ch[i]
      BY <2>1 DEF RangeOf
    <2> QED BY <2>2, <2>3
  <1> QED BY <1>2, <1>7, <1>8 DEF s, ch, In

\* A chain of one cluster.
LEMMA ChainOne ==
    ASSUME NEW f \in Fats, Acyclic(f), NEW h \in DataClusters, f[h] \notin DataClusters
    PROVE  ChainIn(f, h) = <<h>> /\ In(f, h) = {h}
  <1>1. Run(f, h, <<h>>) /\ Ends(f, <<h>>)
    BY DEF Run, Ends
  <1>2. ChainIn(f, h) = <<h>>
    BY <1>1, ChainIs
  <1> QED BY <1>2 DEF In, RangeOf

-----------------------------------------------------------------------------
(* The slots of a directory.                                               *)

\* The slots of a chain, counted along it.
LEMMA SlotPlaces ==
    ASSUME NEW f \in Fats, Acyclic(f), NEW d \in DataAreas, NEW h \in DataClusters
    PROVE  LET ch == ChainIn(f, h)
               s  == UnitsIn(f, d, h)
           IN  /\ Len(s) \in Nat /\ s \in [1..Len(s) -> Units]
               /\ \A j \in 1..Len(s) :
                     /\ Place(ch, j) \in Slots /\ Place(ch, j)[1] \in In(f, h)
                     /\ s[j] = At(d, Place(ch, j)) /\ s[j] \in Units
               /\ \A x \in Slots : x[1] \in In(f, h) => \E j \in 1..Len(s) : Place(ch, j) = x
               /\ \A i, j \in 1..Len(s) : Place(ch, i) = Place(ch, j) => i = j
  <1> DEFINE ch == ChainIn(f, h)
             s  == UnitsIn(f, d, h)
             n  == Len(ch)
             U  == ClusterUnits
             Q(j) == (j - 1) \div U + 1
             R(j) == ((j - 1) % U) + 1
  <1>1. /\ n \in Nat /\ Len(s) = n * U /\ Len(s) \in Nat /\ s \in [1..Len(s) -> Units]
        /\ \A j \in 1..Len(s) : /\ Place(ch, j) \in Slots
                                /\ s[j] = At(d, Place(ch, j))
    BY UnitsFacts DEF Slots, At
  <1>2. \A i, j \in 1..n : ch[i] = ch[j] => i = j
    BY ChainEnds
  <1>3. /\ \A i \in 1..n : ch[i] \in In(f, h)
        /\ \A c \in In(f, h) : \E i \in 1..n : c = ch[i]
    BY LastIn
  <1> HIDE DEF ch, s
  <1>4. \A j \in 1..Len(s) : Place(ch, j) = <<ch[Q(j)], R(j)>>
    BY DEF Place
  <1>5. \A j \in 1..Len(s) : Q(j) \in 1..n /\ R(j) \in 1..U /\ j = (Q(j) - 1) * U + R(j)
    <2>1. ASSUME NEW j \in 1..Len(s)
          PROVE  Q(j) \in 1..n /\ R(j) \in 1..U /\ j = (Q(j) - 1) * U + R(j)
      <3>1. j \in 1..(n * U)
        BY <1>1
      <3> HIDE DEF n
      <3>2. /\ Q(j) \in 1..n /\ R(j) \in 1..U
            /\ j = ((j - 1) \div U) * U + ((j - 1) % U) + 1
        BY <1>1, <3>1, Places
      <3>3. ((j - 1) \div U) = Q(j) - 1 /\ ((j - 1) % U) + 1 = R(j)
        <4>1. (j - 1) \div U \in Int
          BY <1>1, <3>1, Numbers
        <4> QED BY <4>1
      <3>4. ((j - 1) \div U) * U \in Int /\ (j - 1) % U \in Int
        BY <1>1, <3>1, Numbers
      <3> QED BY <3>2, <3>3, <3>4
    <2> QED BY <2>1
  <1> HIDE DEF Q, R, n
  <1>6. \A j \in 1..Len(s) : Place(ch, j)[1] \in In(f, h)
    BY <1>3, <1>4, <1>5
  <1>7. ASSUME NEW x \in Slots, x[1] \in In(f, h)
        PROVE  \E j \in 1..Len(s) : Place(ch, j) = x
    <2>1. x = <<x[1], x[2]>> /\ x[2] \in 1..U
      BY DEF Slots
    <2>2. PICK i : i \in 1..n /\ x[1] = ch[i]
      BY <1>3, <1>7
    <2> DEFINE j == (i - 1) * U + x[2]
    <2>3. j \in 1..(n * U) /\ Q(j) = i /\ R(j) = x[2]
      <3>1. PICK m, u : m = n /\ u = x[2]
        OBVIOUS
      <3>2. m \in Nat /\ i \in 1..m /\ u \in 1..ClusterUnits
        BY <1>1, <2>1, <2>2, <3>1
      <3>3. /\ (i - 1) * ClusterUnits + u \in 1..(m * ClusterUnits)
            /\ ((i - 1) * ClusterUnits + u - 1) \div ClusterUnits + 1 = i
            /\ (((i - 1) * ClusterUnits + u - 1) % ClusterUnits) + 1 = u
        BY <3>2, Places
      <3>4. PICK k : k = (i - 1) * ClusterUnits + u
        OBVIOUS
      <3>5. k \in 1..(m * ClusterUnits)
        BY <3>3, <3>4
      <3>6. k - 1 = (i - 1) * ClusterUnits + u - 1
        <4>1. (i - 1) * ClusterUnits \in Int /\ u \in Int
          BY <3>2, Numbers
        <4> QED BY <3>4, <4>1
      <3>7. Q(k) = i /\ R(k) = u
        BY <3>3, <3>6, Zenon DEF Q, R
      <3> QED BY <3>1, <3>4, <3>5, <3>7
    <2> HIDE DEF j
    <2> QED BY <1>1, <1>4, <2>1, <2>2, <2>3
  <1>8. ASSUME NEW i \in 1..Len(s), NEW j \in 1..Len(s), Place(ch, i) = Place(ch, j)
        PROVE  i = j
    <2>1. ch[Q(i)] = ch[Q(j)] /\ R(i) = R(j)
      BY <1>4, <1>8
    <2>2. Q(i) = Q(j)
      BY <1>2, <1>5, <2>1
    <2> QED BY <1>5, <2>1, <2>2
  <1> QED BY <1>1, <1>6, <1>7, <1>8 DEF ch, s

\* find_in_dir does not depend on the order of the slots.
LEMMA FindBy ==
    ASSUME NEW f \in Fats, Acyclic(f), NEW d \in DataAreas, NEW h \in DataClusters,
           DirOK(f, d, h), NEW n
    PROVE  /\ \A x \in Holds(f, d, h) : At(d, x).name = n => FindIn(f, d, h, n) = At(d, x)
           /\ FindIn(f, d, h, n) # Error("NotFound") =>
                 \E x \in Holds(f, d, h) : At(d, x).name = n /\ FindIn(f, d, h, n) = At(d, x)
  <1> DEFINE ch == ChainIn(f, h)
             s == UnitsIn(f, d, h)
             r == FindIn(f, d, h, n)
             Named(j) == j \in 1..Len(s) /\ s[j].k = "entry" /\ s[j].name = n
  <1>1. /\ Len(s) \in Nat
        /\ \A j \in 1..Len(s) : /\ Place(ch, j) \in Slots /\ Place(ch, j)[1] \in In(f, h)
                                /\ s[j] = At(d, Place(ch, j))
        /\ \A x \in Slots : x[1] \in In(f, h) => \E j \in 1..Len(s) : Place(ch, j) = x
    BY SlotPlaces
  <1>2. /\ \A i, j \in 1..Len(s) : i < j /\ s[i] = End => s[j] = End
        /\ \A x, y \in Holds(f, d, h) : At(d, x).name = At(d, y).name => x = y
    BY DEF DirOK, Tidy
  <1>3. \/ /\ r = Error("NotFound")
           /\ \A j : ~Hit(f, d, h, n, j)
        \/ \E j : Hit(f, d, h, n, j) /\ r = s[j]
    BY FindFacts
  <1>4. \A j : Hit(f, d, h, n, j) => Named(j)
    BY DEF Hit
  <1>5. ASSUME NEW j, Named(j) PROVE \E m : Hit(f, d, h, n, m)
    <2> DEFINE M == {i \in 1..Len(s) : Named(i)}
    <2>1. M \subseteq Nat /\ j \in M
      BY <1>1, <1>5
    <2>2. PICK m \in M : \A k \in M : m <= k
      <3> HIDE DEF M
      <3> QED BY <2>1, LeastNumber
    <2>3. Named(m)
      BY <2>2
    <2>4. s[m] # End
      BY <2>3 DEF End
    <2>5. ASSUME NEW i \in 1..(m - 1) PROVE s[i] # End /\ ~(s[i].k = "entry" /\ s[i].name = n)
      <3>1. i \in 1..Len(s) /\ i < m /\ ~(m <= i)
        BY <1>1, <2>3
      <3>2. s[i] # End
        BY <1>2, <2>3, <2>4, <3>1
      <3>3. i \notin M
        BY <2>2, <3>1
      <3> QED BY <3>1, <3>2, <3>3
    <2> QED BY <2>3, <2>5 DEF Hit
  <1> HIDE DEF s, r, ch
  <1>6. ASSUME NEW j, Named(j)
        PROVE  Place(ch, j) \in Holds(f, d, h) /\ s[j] = At(d, Place(ch, j))
    BY <1>1, <1>6 DEF Holds, EntrySlots
  <1>7. ASSUME NEW x \in Holds(f, d, h), At(d, x).name = n PROVE r = At(d, x)
    <2>1. x \in Slots /\ x[1] \in In(f, h) /\ At(d, x).k = "entry"
      BY DEF Holds, EntrySlots
    <2>2. PICK j : j \in 1..Len(s) /\ Place(ch, j) = x
      BY <1>1, <2>1
    <2>3. Named(j)
      BY <1>1, <1>7, <2>1, <2>2
    <2> HIDE DEF Named
    <2>4. PICK m : Hit(f, d, h, n, m) /\ r = s[m]
      BY <1>3, <1>5, <2>3
    <2>5. Place(ch, m) \in Holds(f, d, h) /\ s[m] = At(d, Place(ch, m))
      BY <1>4, <1>6, <2>4
    <2>6. At(d, Place(ch, m)).name = n
      BY <1>4, <2>4, <2>5 DEF Named
    <2> QED BY <1>2, <1>7, <2>4, <2>5, <2>6
  <1>8. ASSUME r # Error("NotFound")
        PROVE  \E x \in Holds(f, d, h) : At(d, x).name = n /\ r = At(d, x)
    <2>1. PICK m : Hit(f, d, h, n, m) /\ r = s[m]
      BY <1>3, <1>8
    <2>2. Named(m)
      BY <1>4, <2>1
    <2>3. Place(ch, m) \in Holds(f, d, h) /\ s[m] = At(d, Place(ch, m))
      BY <1>6, <2>2
    <2> QED BY <2>1, <2>2, <2>3
  <1> QED BY <1>7, <1>8 DEF r

-----------------------------------------------------------------------------
(* Writes outside of the directories.                                      *)

\* The entries of the disk and their first clusters.
LEMMA EntryAt ==
    ASSUME NEW d \in DataAreas, NEW x \in EntrySlots(d)
    PROVE  /\ x \in Slots /\ x[1] \in DataClusters /\ x[2] \in 1..ClusterUnits
           /\ x = <<x[1], x[2]>> /\ At(d, x) \in Entries /\ At(d, x).k = "entry"
           /\ At(d, x).cluster \in {0} \cup DataClusters
           /\ At(d, x).dir => At(d, x).cluster \in DataClusters
           /\ At(d, x).name \in Names /\ At(d, x).dir \in BOOLEAN /\ At(d, x).size \in Nat
  <1>1. x \in Slots /\ At(d, x).k = "entry"
    BY DEF EntrySlots
  <1>2. x[1] \in DataClusters /\ x[2] \in 1..ClusterUnits /\ x = <<x[1], x[2]>>
    BY <1>1 DEF Slots
  <1>3. At(d, x) \in Units
    BY <1>2 DEF At, DataAreas
  <1>4. At(d, x) \in Entries
    BY <1>1, <1>3, EntryUnits
  <1> QED BY <1>1, <1>2, <1>4 DEF Entries

\* The chains of the undamaged entries are apart, and so are the directories.
LEMMA Structure ==
    ASSUME NEW f \in Fats, FatOK(f), NEW d \in DataAreas, NEW T, NEW X,
           Tree(f, d, T, X), Owners(f, d, X)
    PROVE  /\ \A h \in Heads(d, X) : h # 0 => h \in DataClusters /\ Owner(f, h)
           /\ \A g, h \in Heads(d, X) : g # 0 /\ h # 0 /\ g # h =>
                 In(f, g) \cap In(f, h) = {}
           /\ \A p \in DOMAIN T : T[p] \in Heads(d, X) /\ T[p] \in DataClusters /\ T[p] # 0
           /\ \A p, q \in DOMAIN T : \A x :
                 x \in Holds(f, d, T[p]) /\ x \in Holds(f, d, T[q]) => p = q
  <1>1. ASSUME NEW h \in Heads(d, X), h # 0 PROVE h \in DataClusters /\ Owner(f, h)
    <2>1. CASE h = Root
      BY <2>1, Numbers DEF Owners
    <2>2. CASE h # Root
      <3>1. PICK x \in EntrySlots(d) \ X : h = At(d, x).cluster
        BY <2>2 DEF Heads
      <3> QED BY <1>1, <3>1, EntryAt DEF Owners
    <2> QED BY <2>1, <2>2
  <1>2. ASSUME NEW g \in Heads(d, X), NEW h \in Heads(d, X), g # 0, h # 0, g # h
        PROVE  In(f, g) \cap In(f, h) = {}
    BY <1>1, <1>2, Apart DEF Owner
  <1>3. ASSUME NEW p \in DOMAIN T
        PROVE  T[p] \in Heads(d, X) /\ T[p] \in DataClusters /\ T[p] # 0
    <2>1. T[p] \in DataClusters
      BY DEF Tree
    <2>2. T[p] \in Heads(d, X)
      <3>1. CASE p = <<>>
        BY <3>1 DEF Tree, Heads
      <3>2. CASE p # <<>>
        <4>1. PICK x \in Holds(f, d, T[Parent(p)]) \ X : At(d, x).cluster = T[p]
          BY <3>2 DEF Tree
        <4> QED BY <4>1 DEF Heads, Holds
      <3> QED BY <3>1, <3>2
    <2> QED BY <2>1, <2>2, Numbers
  <1>4. ASSUME NEW p \in DOMAIN T, NEW q \in DOMAIN T, NEW x,
               x \in Holds(f, d, T[p]), x \in Holds(f, d, T[q])
        PROVE  p = q
    <2>1. x[1] \in In(f, T[p]) \cap In(f, T[q])
      BY <1>4 DEF Holds
    <2>2. T[p] = T[q]
      BY <1>2, <1>3, <2>1
    <2> QED BY <2>2 DEF Tree
  <1> QED BY <1>1, <1>2, <1>3, <1>4

\* The entries of the directories of T are the same on two disks.
Alike(f, d, g, e, T) ==
    /\ EntrySlots(e) = EntrySlots(d) /\ \A x \in EntrySlots(d) : At(e, x) = At(d, x)
    /\ \A p \in DOMAIN T : Holds(g, e, T[p]) = Holds(f, d, T[p]) /\ DirOK(g, e, T[p])

\* A disk on which the directories are alike has the same tree.
LEMMA TreeAlike ==
    ASSUME NEW f, NEW d, NEW g, NEW e, NEW T, NEW X, Tree(f, d, T, X), Alike(f, d, g, e, T)
    PROVE  /\ Tree(g, e, T, X)
           /\ \A B : Damage(f, d, T, X, B) => Damage(g, e, T, X, B)
           /\ X \subseteq EntrySlots(d) => Heads(e, X) = Heads(d, X)
  <1>1. /\ EntrySlots(e) = EntrySlots(d) /\ \A x \in EntrySlots(d) : At(e, x) = At(d, x)
        /\ \A p \in DOMAIN T : /\ Holds(g, e, T[p]) = Holds(f, d, T[p])
                               /\ Holds(f, d, T[p]) \subseteq EntrySlots(d)
    BY DEF Alike, Holds
  <1>2. \A x, p : p \in DOMAIN T /\ x \in Holds(f, d, T[p]) => At(e, x) = At(d, x)
    BY <1>1
  <1>3. \A p \in DOMAIN T : DirOK(g, e, T[p])
    BY DEF Alike
  <1>4. \A p \in DOMAIN T : p # <<>> =>
          /\ Parent(p) \in DOMAIN T
          /\ \E x \in Holds(g, e, T[Parent(p)]) \ X :
                At(e, x).dir /\ At(e, x).name = Last(p) /\ At(e, x).cluster = T[p]
    <2>1. ASSUME NEW p \in DOMAIN T, p # <<>>
          PROVE  /\ Parent(p) \in DOMAIN T
                 /\ \E x \in Holds(g, e, T[Parent(p)]) \ X :
                       At(e, x).dir /\ At(e, x).name = Last(p) /\ At(e, x).cluster = T[p]
      <3>1. /\ Parent(p) \in DOMAIN T
            /\ \E x \in Holds(f, d, T[Parent(p)]) \ X :
                  At(d, x).dir /\ At(d, x).name = Last(p) /\ At(d, x).cluster = T[p]
        BY <2>1 DEF Tree
      <3> QED BY <1>1, <1>2, <3>1
    <2> QED BY <2>1
  <1>5. \A p \in DOMAIN T : \A x \in Holds(g, e, T[p]) \ X : At(e, x).dir =>
          /\ Append(p, At(e, x).name) \in DOMAIN T
          /\ T[Append(p, At(e, x).name)] = At(e, x).cluster
    <2>1. ASSUME NEW p \in DOMAIN T, NEW x \in Holds(g, e, T[p]) \ X, At(e, x).dir
          PROVE  /\ Append(p, At(e, x).name) \in DOMAIN T
                 /\ T[Append(p, At(e, x).name)] = At(e, x).cluster
      <3>1. x \in Holds(f, d, T[p]) \ X /\ At(e, x) = At(d, x)
        BY <1>1, <1>2
      <3> QED BY <2>1, <3>1 DEF Tree
    <2> QED BY <2>1
  <1>6. \A x \in EntrySlots(e) : \E p \in DOMAIN T : x \in Holds(g, e, T[p])
    BY <1>1 DEF Tree
  <1>7. Tree(g, e, T, X)
    BY <1>3, <1>4, <1>5, <1>6 DEF Tree
  <1>8. ASSUME NEW B, Damage(f, d, T, X, B) PROVE Damage(g, e, T, X, B)
    BY <1>1, <1>2, <1>8 DEF Damage
  <1>9. ASSUME X \subseteq EntrySlots(d) PROVE Heads(e, X) = Heads(d, X)
    BY <1>1, <1>9 DEF Heads
  <1> QED BY <1>7, <1>8, <1>9

\* The directories of T are the same on two disks.
SameTree(f, d, g, e, T) ==
    /\ EntrySlots(e) = EntrySlots(d) /\ \A x \in EntrySlots(d) : At(e, x) = At(d, x)
    /\ \A p \in DOMAIN T : /\ In(g, T[p]) = In(f, T[p])
                           /\ Holds(g, e, T[p]) = Holds(f, d, T[p])
                           /\ UnitsIn(g, e, T[p]) = UnitsIn(f, d, T[p])

\* So has one with the same directories and the same slots in them.
LEMMA TreeSame ==
    ASSUME NEW f, NEW d, NEW g, NEW e, NEW T, NEW X, Tree(f, d, T, X), SameTree(f, d, g, e, T)
    PROVE  /\ Tree(g, e, T, X) /\ Alike(f, d, g, e, T)
           /\ \A B : Damage(f, d, T, X, B) => Damage(g, e, T, X, B)
           /\ X \subseteq EntrySlots(d) => Heads(e, X) = Heads(d, X)
  <1>1. ASSUME NEW p \in DOMAIN T PROVE DirOK(g, e, T[p])
    <2>1. DirOK(f, d, T[p])
      BY DEF Tree
    <2>2. \A x \in Holds(f, d, T[p]) : At(e, x) = At(d, x)
      BY DEF SameTree, Holds
    <2>3. Holds(g, e, T[p]) = Holds(f, d, T[p]) /\ UnitsIn(g, e, T[p]) = UnitsIn(f, d, T[p])
      BY DEF SameTree
    <2> QED BY <2>1, <2>2, <2>3 DEF DirOK
  <1>2. Alike(f, d, g, e, T)
    BY <1>1 DEF SameTree, Alike
  <1> QED BY <1>2, TreeAlike

\* What is read along a chain depends on its clusters only.
LEMMA UnitsFrame ==
    ASSUME NEW f \in Fats, NEW g \in Fats, Acyclic(f), NEW d \in DataAreas, NEW e \in DataAreas,
           NEW h \in DataClusters, ChainIn(g, h) = ChainIn(f, h),
           \A c \in In(f, h) : e[c] = d[c]
    PROVE  UnitsIn(g, e, h) = UnitsIn(f, d, h)
  <1> DEFINE s == UnitsIn(f, d, h)
             t == UnitsIn(g, e, h)
             ch == ChainIn(f, h)
  <1>1. /\ Len(s) = Len(ch) * ClusterUnits /\ s \in [1..Len(s) -> Units]
        /\ \A j \in 1..Len(s) : s[j] = d[Place(ch, j)[1]][Place(ch, j)[2]]
    BY UnitsFacts
  <1>2. /\ Len(t) = Len(ch) * ClusterUnits /\ t \in [1..Len(t) -> Units]
        /\ \A j \in 1..Len(t) : t[j] = e[Place(ch, j)[1]][Place(ch, j)[2]]
    BY UnitsFacts
  <1>3. \A j \in 1..Len(s) : Place(ch, j)[1] \in In(f, h)
    BY SlotPlaces
  <1> HIDE DEF s, t, ch
  <1>4. \A j \in 1..Len(s) : t[j] = s[j]
    BY <1>1, <1>2, <1>3
  <1>5. Len(t) = Len(s)
    BY <1>1, <1>2
  <1>6. t = s
    BY <1>1, <1>2, <1>4, <1>5
  <1> QED BY <1>6 DEF s, t

\* A write to a FAT entry outside of the chains of the undamaged entries.
LEMMA FatOutside ==
    ASSUME NEW f \in Fats, NEW g \in Fats, FatOK(f), FatOK(g), NEW d \in DataAreas,
           NEW T, NEW X, Tree(f, d, T, X), Owners(f, d, X), NEW c,
           \A b \in Clusters : b # c => g[b] = f[b],
           \A h \in Heads(d, X) : h # 0 => c \notin In(f, h) /\ NoPred(g, h)
    PROVE  /\ SameTree(f, d, g, d, T) /\ Owners(g, d, X)
           /\ \A h \in Heads(d, X) : h # 0 => ChainIn(g, h) = ChainIn(f, h)
  <1>0. Acyclic(f) /\ Acyclic(g)
    BY DEF FatOK
  <1>1. ASSUME NEW h \in Heads(d, X), h # 0
        PROVE  /\ h \in DataClusters /\ ChainIn(g, h) = ChainIn(f, h) /\ In(g, h) = In(f, h)
               /\ g[h] # Free /\ Owner(g, h)
    <2>1. h \in DataClusters /\ Owner(f, h)
      BY <1>1, Structure
    <2>2. h \in In(f, h) /\ In(f, h) \subseteq Clusters
      BY <1>0, <2>1, InFacts
    <2>3. \A b \in In(f, h) : g[b] = f[b]
      BY <1>1, <2>2
    <2>4. ChainIn(g, h) = ChainIn(f, h) /\ In(g, h) = In(f, h)
      BY <1>0, <2>1, <2>3, ChainFrame
    <2>5. g[h] # Free
      BY <2>1, <2>2, <2>3 DEF Owner
    <2> QED BY <1>1, <2>1, <2>4, <2>5 DEF Owner
  <1>2. ASSUME NEW p \in DOMAIN T
        PROVE  /\ In(g, T[p]) = In(f, T[p]) /\ Holds(g, d, T[p]) = Holds(f, d, T[p])
               /\ UnitsIn(g, d, T[p]) = UnitsIn(f, d, T[p])
    <2>1. T[p] \in Heads(d, X) /\ T[p] # 0 /\ T[p] \in DataClusters
      BY Structure
    <2>2. ChainIn(g, T[p]) = ChainIn(f, T[p]) /\ In(g, T[p]) = In(f, T[p])
      BY <1>1, <2>1
    <2>3. UnitsIn(g, d, T[p]) = UnitsIn(f, d, T[p])
      BY <1>0, <2>1, <2>2, UnitsFrame
    <2> QED BY <2>2, <2>3 DEF Holds
  <1>3. SameTree(f, d, g, d, T)
    BY <1>2 DEF SameTree
  <1>4. ASSUME NEW x \in EntrySlots(d) \ X, ~At(d, x).dir PROVE Sized(g, At(d, x))
    <2>1. Sized(f, At(d, x))
      BY <1>4 DEF Owners
    <2>2. CASE At(d, x).cluster = 0
      BY <2>1, <2>2, NoChain DEF Sized
    <2>3. CASE At(d, x).cluster # 0
      <3>1. At(d, x).cluster \in Heads(d, X)
        BY DEF Heads
      <3>2. ChainIn(g, At(d, x).cluster) = ChainIn(f, At(d, x).cluster)
        BY <1>1, <2>3, <3>1
      <3> QED BY <2>1, <3>2 DEF Sized
    <2> QED BY <2>2, <2>3
  <1>5. Root \in Heads(d, X) /\ Root # 0
    BY Numbers DEF Heads
  <1>6. \A x \in EntrySlots(d) \ X : At(d, x).cluster # 0 =>
           At(d, x).cluster # Root /\ Owner(g, At(d, x).cluster)
    <2>1. \A x \in EntrySlots(d) \ X : At(d, x).cluster \in Heads(d, X)
      BY DEF Heads
    <2> QED BY <1>1, <2>1 DEF Owners
  <1>7. Owners(g, d, X)
    BY <1>1, <1>4, <1>5, <1>6 DEF Owners
  <1> QED BY <1>1, <1>3, <1>7

\* A write to a cluster outside of the directories.
LEMMA DataOutside ==
    ASSUME NEW f \in Fats, FatOK(f), NEW d \in DataAreas, NEW e \in DataAreas,
           NEW T, NEW X, Tree(f, d, T, X), Owners(f, d, X), NEW c \in DataClusters,
           \A p \in DOMAIN T : c \notin In(f, T[p]),
           \A b \in DataClusters : b # c => e[b] = d[b],
           \A u \in 1..ClusterUnits : e[c][u].k # "entry"
    PROVE  SameTree(f, d, f, e, T) /\ Owners(f, e, X)
  <1>0. Acyclic(f)
    BY DEF FatOK
  <1>1. \A x \in EntrySlots(d) : x[1] # c
    <2>1. \A x \in EntrySlots(d) : \E p \in DOMAIN T : x[1] \in In(f, T[p])
      BY DEF Tree, Holds
    <2> QED BY <2>1
  <1>2. \A x \in EntrySlots(e) : x[1] # c
    BY EntryAt DEF At
  <1>3. \A x \in Slots : x[1] # c => At(e, x) = At(d, x)
    BY DEF Slots, At
  <1>4. EntrySlots(e) = EntrySlots(d)
    BY <1>1, <1>2, <1>3 DEF EntrySlots
  <1>5. \A x \in EntrySlots(d) : At(e, x) = At(d, x)
    BY <1>1, <1>3 DEF EntrySlots
  <1>6. ASSUME NEW p \in DOMAIN T
        PROVE  /\ Holds(f, e, T[p]) = Holds(f, d, T[p])
               /\ UnitsIn(f, e, T[p]) = UnitsIn(f, d, T[p])
    <2>1. T[p] \in DataClusters
      BY DEF Tree
    <2>2. In(f, T[p]) \subseteq DataClusters
      BY <1>0, <2>1, InFacts
    <2>3. \A b \in In(f, T[p]) : e[b] = d[b]
      BY <2>2
    <2>4. UnitsIn(f, e, T[p]) = UnitsIn(f, d, T[p])
      BY <1>0, <2>1, <2>3, UnitsFrame
    <2> QED BY <1>4, <2>4 DEF Holds
  <1>7. SameTree(f, d, f, e, T)
    BY <1>4, <1>5, <1>6 DEF SameTree
  <1>8. Owners(f, e, X)
    BY <1>4, <1>5 DEF Owners
  <1> QED BY <1>7, <1>8

\* The first cluster of a chain.
LEMMA FirstUnits ==
    ASSUME NEW f \in Fats, Acyclic(f), NEW d \in DataAreas, NEW h \in DataClusters
    PROVE  LET s == UnitsIn(f, d, h)
           IN  /\ Len(s) \in Nat /\ ClusterUnits <= Len(s)
               /\ \A j \in 1..ClusterUnits : s[j] = d[h][j]
               /\ ChainIn(f, h) = <<h>> => Len(s) = ClusterUnits
  <1> DEFINE s == UnitsIn(f, d, h)
             ch == ChainIn(f, h)
             n == Len(ch)
  <1>1. /\ Len(s) = n * ClusterUnits /\ Len(s) \in Nat
        /\ \A j \in 1..Len(s) : s[j] = d[Place(ch, j)[1]][Place(ch, j)[2]]
    BY UnitsFacts
  <1>2. n \in Nat /\ n >= 1 /\ ch[1] = h
    BY ChainEnds DEF Run
  <1>3. ch = <<h>> => n = 1
    OBVIOUS
  <1> HIDE DEF s, ch
  <1>4. ClusterUnits <= Len(s) /\ (n = 1 => Len(s) = ClusterUnits)
    <2>1. PICK k : k = n
      OBVIOUS
    <2>2. k \in Nat /\ k >= 1 => k * ClusterUnits >= ClusterUnits /\ 1 * ClusterUnits = ClusterUnits
      BY Numbers
    <2> QED BY <1>1, <1>2, <2>1, <2>2
  <1>5. ASSUME NEW j \in 1..ClusterUnits PROVE s[j] = d[h][j]
    <2>1. (j - 1) \div ClusterUnits = 0 /\ (j - 1) % ClusterUnits = j - 1
      BY Numbers
    <2>2. (j - 1) \div ClusterUnits + 1 = 1 /\ ((j - 1) % ClusterUnits) + 1 = j
      BY <2>1, Numbers
    <2>3. Place(ch, j) = <<h, j>>
      BY <1>2, <2>2 DEF Place
    <2>4. j \in 1..Len(s)
      BY <1>1, <1>4, Numbers
    <2> QED BY <1>1, <2>3, <2>4
  <1> QED BY <1>1, <1>3, <1>4, <1>5 DEF s, ch

\* A chain with one cluster more.
LEMMA LongerUnits ==
    ASSUME NEW f \in Fats, NEW g \in Fats, Acyclic(f), Acyclic(g), NEW d \in DataAreas,
           NEW h \in DataClusters, NEW c \in DataClusters,
           ChainIn(g, h) = Append(ChainIn(f, h), c)
    PROVE  LET s == UnitsIn(f, d, h)
               t == UnitsIn(g, d, h)
           IN  /\ Len(s) \in Nat /\ Len(t) \in Nat
               /\ \A j \in 1..Len(t) : \/ j \in 1..Len(s) /\ t[j] = s[j]
                                       \/ /\ j > Len(s)
                                          /\ \E u \in 1..ClusterUnits : t[j] = d[c][u]
  <1> DEFINE s == UnitsIn(f, d, h)
             t == UnitsIn(g, d, h)
             ch == ChainIn(f, h)
             dh == ChainIn(g, h)
             n == Len(ch)
             U == ClusterUnits
             Q(j) == (j - 1) \div U + 1
             R(j) == ((j - 1) % U) + 1
  <1>1. /\ n \in Nat /\ Len(s) = n * U /\ Len(s) \in Nat /\ ch \in Seq(DataClusters)
        /\ \A j \in 1..Len(s) : s[j] = d[Place(ch, j)[1]][Place(ch, j)[2]]
    BY UnitsFacts
  <1>2. /\ Len(t) = Len(dh) * U /\ Len(t) \in Nat
        /\ \A j \in 1..Len(t) : t[j] = d[Place(dh, j)[1]][Place(dh, j)[2]]
    BY UnitsFacts
  <1>3. Len(dh) = n + 1 /\ dh[n + 1] = c /\ \A i \in 1..n : dh[i] = ch[i]
    BY <1>1
  <1>4. /\ \A j : Place(ch, j) = <<ch[Q(j)], R(j)>>
        /\ \A j : Place(dh, j) = <<dh[Q(j)], R(j)>>
    BY DEF Place
  <1> HIDE DEF s, t, ch, dh
  <1>5. PICK k : k = n
    OBVIOUS
  <1>6. k \in Nat /\ k + 1 \in Nat
    BY <1>1, <1>5
  <1>7. /\ \A j \in 1..(k * U) : Q(j) \in 1..k
        /\ \A j \in 1..((k + 1) * U) : Q(j) \in 1..(k + 1) /\ R(j) \in 1..U
    BY <1>6, Places
  <1>8. ASSUME NEW j \in 1..((k + 1) * U), ~(j \in 1..(k * U)) PROVE Q(j) = k + 1 /\ j > k * U
    <2>1. j \in Nat /\ j >= 1 /\ k * U \in Nat
      BY <1>6, Numbers
    <2>2. j > k * U
      BY <1>8, <2>1
    <2>3. (j - 1) \div U >= k
      <3>1. j - 1 >= k * U /\ j - 1 \in Nat
        BY <2>1, <2>2
      <3> QED BY <1>6, <3>1, Numbers
    <2>4. (j - 1) \div U \in Int
      BY <2>1, Numbers
    <2>5. (j - 1) \div U + 1 \in 1..(k + 1)
      BY <1>7
    <2> QED BY <1>6, <2>2, <2>3, <2>4, <2>5
  <1> HIDE DEF Q, R
  <1>9. ASSUME NEW j \in 1..Len(t)
        PROVE  \/ j \in 1..Len(s) /\ t[j] = s[j]
               \/ j > Len(s) /\ \E u \in 1..U : t[j] = d[c][u]
    <2>1. j \in 1..((k + 1) * U) /\ Len(s) = k * U
      BY <1>1, <1>2, <1>3, <1>5
    <2>2. CASE j \in 1..(k * U)
      <3>1. Q(j) \in 1..n
        BY <1>5, <1>7, <2>2
      <3>2. Place(dh, j) = Place(ch, j)
        BY <1>3, <1>4, <3>1
      <3> QED BY <1>1, <1>2, <2>1, <2>2, <3>2
    <2>3. CASE ~(j \in 1..(k * U))
      <3>1. Q(j) = n + 1 /\ j > k * U /\ R(j) \in 1..U
        BY <1>5, <1>7, <1>8, <2>1, <2>3
      <3>2. Place(dh, j) = <<c, R(j)>>
        BY <1>3, <1>4, <3>1
      <3> QED BY <1>2, <2>1, <3>1, <3>2
    <2> QED BY <2>2, <2>3
  <1> QED BY <1>1, <1>2, <1>9 DEF s, t

-----------------------------------------------------------------------------
(* Paths.                                                                  *)

\* A path is its parent and its last name.
LEMMA PathSplit ==
    /\ \A p \in Seq(Names), n \in Names :
          /\ Append(p, n) \in Seq(Names) /\ Append(p, n) # <<>>
          /\ Parent(Append(p, n)) = p /\ Last(Append(p, n)) = n
    /\ \A q \in Seq(Names) : q # <<>> => Append(Parent(q), Last(q)) = q
  <1>1. ASSUME NEW p \in Seq(Names), NEW n \in Names
        PROVE  /\ Append(p, n) \in Seq(Names) /\ Append(p, n) # <<>>
               /\ Parent(Append(p, n)) = p /\ Last(Append(p, n)) = n
    <2> DEFINE a == Append(p, n)
    <2>1. /\ a \in Seq(Names) /\ Len(a) = Len(p) + 1 /\ Len(p) \in Nat /\ a[Len(a)] = n
          /\ \A i \in 1..Len(p) : a[i] = p[i]
      OBVIOUS
    <2>2. a # <<>>
      BY <2>1
    <2> HIDE DEF a
    <2>3. /\ Parent(a) \in Seq(Names) /\ Len(Parent(a)) = Len(a) - 1
          /\ \A i \in 1..(Len(a) - 1) : Parent(a)[i] = a[i]
      BY <2>1, <2>2, PathFacts
    <2>4. Len(Parent(a)) = Len(p) /\ \A i \in 1..Len(p) : Parent(a)[i] = p[i]
      BY <2>1, <2>3
    <2>5. Parent(a) = p
      BY <2>3, <2>4
    <2> QED BY <2>1, <2>2, <2>5 DEF a, Last
  <1>2. ASSUME NEW q \in Seq(Names), q # <<>> PROVE Append(Parent(q), Last(q)) = q
    <2> DEFINE a == Append(Parent(q), Last(q))
    <2>1. /\ Len(q) \in Nat /\ Len(q) >= 1
          /\ Parent(q) \in Seq(Names) /\ Len(Parent(q)) = Len(q) - 1
          /\ \A i \in 1..(Len(q) - 1) : Parent(q)[i] = q[i]
          /\ Last(q) \in Names /\ Last(q) = q[Len(q)]
      BY <1>2, PathFacts
    <2>2. /\ a \in Seq(Names) /\ Len(a) = Len(q) /\ a[Len(q)] = q[Len(q)]
          /\ \A i \in 1..(Len(q) - 1) : a[i] = q[i]
      BY <2>1
    <2> HIDE DEF a
    <2>3. \A i \in 1..Len(q) : i = Len(q) \/ i \in 1..(Len(q) - 1)
      BY <2>1
    <2>4. \A i \in 1..Len(q) : a[i] = q[i]
      BY <2>2, <2>3
    <2>5. a = q
      BY <2>2, <2>4
    <2> QED BY <2>5 DEF a
  <1> QED BY <1>1, <1>2

\* No path of B is q or above q.
Clear(B, q) == \A b \in B : b # q /\ ~Below(b, q)

\* What is above a path is its parent or above that.
LEMMA BelowParent ==
    ASSUME NEW b \in Seq(Names), NEW q \in Seq(Names), q # <<>>
    PROVE  Below(b, q) <=> (b = Parent(q) \/ Below(b, Parent(q)))
  <1>1. /\ Len(q) \in Nat /\ Len(q) >= 1 /\ Len(b) \in Nat
        /\ Parent(q) \in Seq(Names) /\ Len(Parent(q)) = Len(q) - 1
        /\ \A i \in 1..(Len(q) - 1) : Parent(q)[i] = q[i]
    BY PathFacts
  <1>2. ASSUME Len(b) < Len(q)
        PROVE  SubSeq(q, 1, Len(b)) = b <=> \A i \in 1..Len(b) : b[i] = q[i]
    <2>1. /\ SubSeq(q, 1, Len(b)) \in Seq(Names) /\ Len(SubSeq(q, 1, Len(b))) = Len(b)
          /\ \A k \in 1..Len(b) : SubSeq(q, 1, Len(b))[k] = q[k]
      BY <1>1, <1>2, Prefixes
    <2> QED BY <2>1
  <1>3. ASSUME Len(b) <= Len(Parent(q))
        PROVE  SubSeq(Parent(q), 1, Len(b)) = b <=> \A i \in 1..Len(b) : b[i] = Parent(q)[i]
    <2>1. /\ SubSeq(Parent(q), 1, Len(b)) \in Seq(Names)
          /\ Len(SubSeq(Parent(q), 1, Len(b))) = Len(b)
          /\ \A k \in 1..Len(b) : SubSeq(Parent(q), 1, Len(b))[k] = Parent(q)[k]
      BY <1>1, <1>3, Prefixes
    <2> QED BY <2>1
  <1>4. ASSUME Len(b) < Len(q)
        PROVE  (\A i \in 1..Len(b) : b[i] = q[i]) <=> (\A i \in 1..Len(b) : b[i] = Parent(q)[i])
    <2>1. \A i \in 1..Len(b) : i \in 1..(Len(q) - 1)
      BY <1>1, <1>4
    <2> QED BY <1>1, <2>1
  <1>5. ASSUME Len(b) = Len(Parent(q))
        PROVE  b = Parent(q) <=> \A i \in 1..Len(b) : b[i] = Parent(q)[i]
    BY <1>1, <1>5
  <1>6. b = Parent(q) => Len(b) = Len(Parent(q))
    OBVIOUS
  <1>7. CASE Len(b) >= Len(q)
    BY <1>1, <1>6, <1>7 DEF Below
  <1>8. CASE Len(b) = Len(Parent(q))
    <2>1. Len(b) < Len(q) /\ ~(Len(b) < Len(Parent(q)))
      BY <1>1, <1>8
    <2> QED BY <1>2, <1>4, <1>5, <1>8, <2>1 DEF Below
  <1>9. CASE Len(b) < Len(Parent(q))
    <2>1. Len(b) < Len(q) /\ Len(b) <= Len(Parent(q)) /\ Len(b) # Len(Parent(q))
      BY <1>1, <1>9
    <2> QED BY <1>2, <1>3, <1>4, <1>6, <1>9, <2>1 DEF Below
  <1> QED BY <1>1, <1>7, <1>8, <1>9

\* A path that is clear of the damage is in a directory that is.
LEMMA ClearParent ==
    ASSUME NEW B, B \subseteq Seq(Names), NEW q \in Seq(Names), q # <<>>
    PROVE  Clear(B, q) <=> (q \notin B /\ Clear(B, Parent(q)))
  <1>1. \A b \in B : Below(b, q) <=> (b = Parent(q) \/ Below(b, Parent(q)))
    BY BelowParent
  <1> QED BY <1>1 DEF Clear

\* The paths whose lengths are bounded by induction.
LEMMA PathInduction ==
    ASSUME NEW S, <<>> \in S,
           \A q \in Seq(Names) : q # <<>> /\ Parent(q) \in S => q \in S
    PROVE  \A q \in Seq(Names) : q \in S
  <1> SUFFICES ASSUME NEW p \in Seq(Names) PROVE p \in S
    OBVIOUS
  <1> DEFINE n == Len(p)
             P == {i \in 0..n : \A q \in Seq(Names) : Len(q) = i => q \in S}
  <1>1. n \in Nat
    OBVIOUS
  <1>2. 0 \in P
    <2>1. \A q \in Seq(Names) : Len(q) = 0 => q = <<>>
      OBVIOUS
    <2>2. 0 \in 0..n
      BY <1>1
    <2> QED BY <2>1, <2>2
  <1>3. ASSUME NEW i \in 1..n, i - 1 \in P PROVE i \in P
    <2>1. ASSUME NEW q \in Seq(Names), Len(q) = i PROVE q \in S
      <3>1. q # <<>> /\ i \in Nat
        BY <1>1, <2>1
      <3>2. Parent(q) \in Seq(Names) /\ Len(Parent(q)) = i - 1
        BY <2>1, <3>1, PathFacts
      <3> QED BY <1>3, <3>1, <3>2
    <2>2. i \in 0..n
      BY <1>1
    <2> QED BY <2>1, <2>2
  <1> HIDE DEF n
  <1>4. \A i \in 0..n : i \in P
    <2> HIDE DEF P
    <2> QED BY <1>1, <1>2, <1>3, UpTo
  <1>5. n \in 0..n
    BY <1>1
  <1> QED BY <1>4, <1>5 DEF n

-----------------------------------------------------------------------------
(* What the paths lead to.                                                 *)

\* T leads where lookup leads.
LEMMA LookTable ==
    ASSUME NEW f \in Fats, FatOK(f), NEW d \in DataAreas, NEW T, NEW X, Tree(f, d, T, X)
    PROVE  \A p \in DOMAIN T : /\ LookIn(f, d, p).k = "entry" /\ LookIn(f, d, p).dir
                               /\ LookIn(f, d, p).cluster = T[p]
  <1> DEFINE L(p) == LookIn(f, d, p)
             S == {p \in Seq(Names) : p \in DOMAIN T =>
                      L(p).k = "entry" /\ L(p).dir /\ L(p).cluster = T[p]}
  <1>1. <<>> \in S
    <2>1. L(<<>>) = RootEntry /\ T[<<>>] = Root
      BY LookChild DEF Tree
    <2> QED BY <2>1 DEF RootEntry, Entry
  <1>2. ASSUME NEW q \in Seq(Names), q # <<>>, Parent(q) \in S PROVE q \in S
    <2> SUFFICES ASSUME q \in DOMAIN T
                 PROVE  L(q).k = "entry" /\ L(q).dir /\ L(q).cluster = T[q]
      OBVIOUS
    <2>1. /\ Parent(q) \in DOMAIN T
          /\ \E x \in Holds(f, d, T[Parent(q)]) \ X :
                At(d, x).dir /\ At(d, x).name = Last(q) /\ At(d, x).cluster = T[q]
      BY <1>2 DEF Tree
    <2>2. PICK x \in Holds(f, d, T[Parent(q)]) :
             At(d, x).dir /\ At(d, x).name = Last(q) /\ At(d, x).cluster = T[q]
      BY <2>1
    <2>3. DirOK(f, d, T[Parent(q)]) /\ T[Parent(q)] \in DataClusters /\ Acyclic(f)
      BY <2>1 DEF Tree, FatOK
    <2>4. FindIn(f, d, T[Parent(q)], Last(q)) = At(d, x)
      BY <2>2, <2>3, FindBy
    <2>5. L(Parent(q)).k = "entry" /\ L(Parent(q)).dir /\ L(Parent(q)).cluster = T[Parent(q)]
      BY <1>2, <2>1
    <2>6. L(q) = EnterIn(f, d, L(Parent(q)), Last(q))
      BY <1>2, LookChild
    <2>7. L(q) = At(d, x)
      BY <2>4, <2>5, <2>6 DEF EnterIn
    <2>8. At(d, x).k = "entry"
      BY <2>2 DEF Holds, EntrySlots
    <2> QED BY <2>2, <2>7, <2>8
  <1>3. \A q \in Seq(Names) : q \in S
    <2> HIDE DEF S
    <2> QED BY <1>1, <1>2, PathInduction
  <1>4. DOMAIN T \subseteq Seq(Names)
    BY DEF Tree
  <1> QED BY <1>3, <1>4

\* What lookup finds at a path: nothing, a directory of T or one of its files.
Sees(f, d, T, X, q) ==
    LET e == LookIn(f, d, q)
    IN  \/ e.k = "error"
        \/ q \in DOMAIN T /\ e.k = "entry" /\ e.dir /\ e.cluster = T[q]
        \/ /\ q # <<>> /\ Parent(q) \in DOMAIN T /\ ~e.dir
           /\ \E x \in Holds(f, d, T[Parent(q)]) \ X : e = At(d, x) /\ e.name = Last(q)

\* On a path that is clear of the damage, lookup walks the table.
LEMMA Leaves ==
    ASSUME NEW f \in Fats, FatOK(f), NEW d \in DataAreas, NEW T, NEW X,
           Tree(f, d, T, X), Owners(f, d, X), NEW B, B \subseteq Seq(Names),
           Damage(f, d, T, X, B)
    PROVE  \A q \in Seq(Names) : Clear(B, q) => Sees(f, d, T, X, q)
  <1> DEFINE L(p) == LookIn(f, d, p)
             S == {q \in Seq(Names) : Clear(B, q) => Sees(f, d, T, X, q)}
  <1>1. <<>> \in S
    <2>1. L(<<>>) = RootEntry /\ T[<<>>] = Root /\ <<>> \in DOMAIN T
      BY LookChild DEF Tree
    <2> QED BY <2>1 DEF RootEntry, Entry, Sees
  <1>2. ASSUME NEW q \in Seq(Names), q # <<>>, Parent(q) \in S PROVE q \in S
    <2> SUFFICES ASSUME Clear(B, q) PROVE Sees(f, d, T, X, q)
      OBVIOUS
    <2>1. q \notin B /\ Sees(f, d, T, X, Parent(q))
      BY <1>2, ClearParent
    <2> DEFINE e == L(Parent(q))
    <2>2. L(q) = EnterIn(f, d, e, Last(q))
      BY <1>2, LookChild
    <2>3. CASE e.k = "error"
      <3>1. L(q).k = "error"
        BY <2>2, <2>3 DEF EnterIn
      <3> QED BY <3>1 DEF Sees
    <2>4. CASE e.k # "error" /\ ~e.dir
      <3>1. L(q).k = "error"
        BY <2>2, <2>4, EntryUnits DEF EnterIn
      <3> QED BY <3>1 DEF Sees
    <2>5. CASE e.k # "error" /\ e.dir
      <3>1. Parent(q) \in DOMAIN T /\ e.cluster = T[Parent(q)]
        BY <2>1, <2>5 DEF Sees
      <3>2. L(q) = FindIn(f, d, T[Parent(q)], Last(q))
        BY <2>2, <2>5, <3>1 DEF EnterIn
      <3>3. DirOK(f, d, T[Parent(q)]) /\ T[Parent(q)] \in DataClusters /\ Acyclic(f)
        BY <3>1 DEF Tree, FatOK
      <3>4. CASE L(q) = Error("NotFound")
        <4>1. L(q).k = "error"
          BY <3>4, EntryUnits
        <4> QED BY <4>1 DEF Sees
      <3>5. CASE L(q) # Error("NotFound")
        <4>1. PICK x \in Holds(f, d, T[Parent(q)]) : At(d, x).name = Last(q) /\ L(q) = At(d, x)
          BY <3>2, <3>3, <3>5, FindBy
        <4>2. x \notin X
          <5> SUFFICES ASSUME x \in X PROVE FALSE
            OBVIOUS
          <5>1. PICK p \in DOMAIN T : x \in Holds(f, d, T[p]) /\ Append(p, At(d, x).name) \in B
            BY DEF Damage
          <5>2. p = Parent(q)
            BY <3>1, <4>1, <5>1, Structure
          <5>3. Append(p, At(d, x).name) = q
            BY <1>2, <4>1, <5>2, PathSplit
          <5> QED BY <2>1, <5>1, <5>3
        <4>3. CASE ~L(q).dir
          BY <1>2, <3>1, <4>1, <4>2, <4>3 DEF Sees
        <4>4. CASE L(q).dir
          <5>1. /\ Append(Parent(q), Last(q)) \in DOMAIN T
                /\ T[Append(Parent(q), Last(q))] = L(q).cluster
            BY <3>1, <4>1, <4>2, <4>4 DEF Tree
          <5>2. Append(Parent(q), Last(q)) = q
            BY <1>2, PathSplit
          <5>3. L(q).k = "entry"
            BY <4>1 DEF Holds, EntrySlots
          <5> QED BY <4>4, <5>1, <5>2, <5>3 DEF Sees
        <4> QED BY <4>3, <4>4
      <3> QED BY <3>4, <3>5
    <2> QED BY <2>3, <2>4, <2>5
  <1>3. \A q \in Seq(Names) : q \in S
    <2> HIDE DEF S
    <2> QED BY <1>1, <1>2, PathInduction
  <1> QED BY <1>3

-----------------------------------------------------------------------------
(* The writes to the FAT.                                                  *)

\* g is f but for the entry of c.
Except(f, c, v, g) == g[c] = v /\ \A b \in Clusters : b # c => g[b] = f[b]

\* A cluster that nothing points to is freed: its successor is loose then.
LEMMA FatFreed ==
    ASSUME NEW f \in Fats, NEW g \in Fats, FatOK(f), NEW c \in Clusters, NoPred(f, c),
           Except(f, c, Free, g)
    PROVE  /\ FatOK(g) /\ \A b \in Clusters : NoPred(f, b) => NoPred(g, b)
           /\ f[c] \in DataClusters => NoPred(g, f[c])
  <1>1. g[c] = Free /\ Free \notin Clusters /\ DataClusters \subseteq Clusters
    BY Numbers DEF Except
  <1>2. \A b \in Clusters : b # c => g[b] = f[b]
    BY DEF Except
  <1>3. Acyclic(g)
    <2> SUFFICES ASSUME NEW S \in SUBSET Clusters, S # {} PROVE \E b \in S : g[b] \notin S
      BY DEF Acyclic
    <2>1. PICK b \in S : f[b] \notin S
      BY DEF FatOK, Acyclic
    <2> QED BY <1>1, <1>2, <2>1
  <1>4. \A a, b \in Clusters : g[a] \in DataClusters /\ g[a] = g[b] => a = b
    <2>1. ASSUME NEW a \in Clusters, NEW b \in Clusters, g[a] \in DataClusters, g[a] = g[b]
          PROVE  a = b
      <3>1. a # c /\ b # c
        BY <1>1, <2>1
      <3>2. f[a] \in DataClusters /\ f[a] = f[b]
        BY <1>2, <2>1, <3>1
      <3> QED BY <3>2 DEF FatOK
    <2> QED BY <2>1
  <1>5. \A b \in Clusters : g[b] \in DataClusters => g[g[b]] # Free
    <2>1. ASSUME NEW b \in Clusters, g[b] \in DataClusters PROVE g[g[b]] # Free
      <3>1. b # c /\ f[b] = g[b] /\ g[b] \in Clusters
        BY <1>1, <1>2, <2>1
      <3>2. f[b] # c
        BY DEF NoPred
      <3> QED BY <1>2, <2>1, <3>1, <3>2 DEF FatOK
    <2> QED BY <2>1
  <1>6. ASSUME NEW b \in Clusters, NoPred(f, b) PROVE NoPred(g, b)
    BY <1>1, <1>2, <1>6 DEF NoPred
  <1>7. ASSUME f[c] \in DataClusters PROVE NoPred(g, f[c])
    <2>1. ASSUME NEW a \in Clusters, g[a] = f[c] PROVE FALSE
      <3>1. a # c /\ f[a] = f[c]
        BY <1>1, <1>2, <1>7, <2>1
      <3> QED BY <1>7, <3>1 DEF FatOK
    <2> QED BY <2>1 DEF NoPred
  <1> QED BY <1>3, <1>4, <1>5, <1>6, <1>7 DEF FatOK

\* A free cluster is marked.
LEMMA FatMarked ==
    ASSUME NEW f \in Fats, NEW g \in Fats, FatOK(f), NEW c \in Clusters, f[c] = Free,
           Except(f, c, EOC, g)
    PROVE  FatOK(g) /\ NoPred(f, c) /\ \A b \in Clusters : NoPred(f, b) => NoPred(g, b)
  <1>1. g[c] = EOC /\ EOC \notin Clusters /\ DataClusters \subseteq Clusters /\ EOC # Free
        /\ Free \notin Clusters
    BY Numbers DEF Except
  <1>2. \A b \in Clusters : b # c => g[b] = f[b]
    BY DEF Except
  <1>3. Acyclic(g)
    <2> SUFFICES ASSUME NEW S \in SUBSET Clusters, S # {} PROVE \E b \in S : g[b] \notin S
      BY DEF Acyclic
    <2>1. PICK b \in S : f[b] \notin S
      BY DEF FatOK, Acyclic
    <2> QED BY <1>1, <1>2, <2>1
  <1>4. \A a, b \in Clusters : g[a] \in DataClusters /\ g[a] = g[b] => a = b
    <2>1. ASSUME NEW a \in Clusters, NEW b \in Clusters, g[a] \in DataClusters, g[a] = g[b]
          PROVE  a = b
      <3>1. a # c /\ b # c
        BY <1>1, <2>1
      <3>2. f[a] \in DataClusters /\ f[a] = f[b]
        BY <1>2, <2>1, <3>1
      <3> QED BY <3>2 DEF FatOK
    <2> QED BY <2>1
  <1>5. \A b \in Clusters : g[b] \in DataClusters => g[g[b]] # Free
    <2>1. ASSUME NEW b \in Clusters, g[b] \in DataClusters PROVE g[g[b]] # Free
      <3>1. b # c /\ f[b] = g[b] /\ g[b] \in Clusters
        BY <1>1, <1>2, <2>1
      <3>2. f[g[b]] # Free
        BY <2>1, <3>1 DEF FatOK
      <3> QED BY <1>1, <1>2, <3>1, <3>2
    <2> QED BY <2>1
  <1>6. ASSUME NEW b \in Clusters, NoPred(f, b) PROVE NoPred(g, b)
    BY <1>1, <1>2, <1>6 DEF NoPred
  <1>7. NoPred(f, c)
    <2>1. ASSUME NEW b \in Clusters, f[b] = c PROVE FALSE
      <3>1. f[b] \in DataClusters
        BY <1>1, <2>1 DEF Fats
      <3> QED BY <2>1, <3>1 DEF FatOK
    <2> QED BY <2>1 DEF NoPred
  <1> QED BY <1>3, <1>4, <1>5, <1>6, <1>7 DEF FatOK

\* A marked cluster is linked behind the end of a chain.
LEMMA FatLinked ==
    ASSUME NEW f \in Fats, NEW g \in Fats, FatOK(f), NEW t \in Clusters, NEW c \in DataClusters,
           f[t] = EOC, f[c] = EOC, t # c, NoPred(f, c), Except(f, t, c, g)
    PROVE  FatOK(g) /\ \A b \in Clusters : b # c /\ NoPred(f, b) => NoPred(g, b)
  <1>1. /\ g[t] = c /\ EOC \notin Clusters /\ DataClusters \subseteq Clusters /\ EOC # Free
        /\ c \in Clusters
    BY Numbers DEF Except
  <1>2. \A b \in Clusters : b # t => g[b] = f[b]
    BY DEF Except
  <1>3. Acyclic(g)
    <2> SUFFICES ASSUME NEW S \in SUBSET Clusters, S # {} PROVE \E b \in S : g[b] \notin S
      BY DEF Acyclic
    <2>1. CASE c \in S
      <3>1. g[c] = EOC
        BY <1>1, <1>2
      <3> QED BY <1>1, <2>1, <3>1
    <2>2. CASE c \notin S
      <3>1. PICK b \in S : f[b] \notin S
        BY DEF FatOK, Acyclic
      <3> QED BY <1>1, <1>2, <2>2, <3>1
    <2> QED BY <2>1, <2>2
  <1>4. \A a, b \in Clusters : g[a] \in DataClusters /\ g[a] = g[b] => a = b
    <2>1. ASSUME NEW a \in Clusters, NEW b \in Clusters, g[a] \in DataClusters, g[a] = g[b]
          PROVE  a = b
      <3>1. \A z \in Clusters : z # t => g[z] # c
        BY <1>2 DEF NoPred
      <3>2. CASE a # t /\ b # t
        <4>1. f[a] \in DataClusters /\ f[a] = f[b]
          BY <1>2, <2>1, <3>2
        <4> QED BY <4>1 DEF FatOK
      <3> QED BY <1>1, <2>1, <3>1, <3>2
    <2> QED BY <2>1
  <1>5. \A b \in Clusters : g[b] \in DataClusters => g[g[b]] # Free
    <2>1. ASSUME NEW b \in Clusters, g[b] \in DataClusters PROVE g[g[b]] # Free
      <3>1. CASE b = t
        BY <1>1, <1>2, <3>1
      <3>2. CASE b # t
        <4>1. f[b] = g[b] /\ g[b] \in Clusters
          BY <1>1, <1>2, <2>1, <3>2
        <4>2. f[g[b]] # Free
          BY <2>1, <4>1 DEF FatOK
        <4>3. g[t] # Free
          BY <1>1, Numbers
        <4> QED BY <1>2, <4>1, <4>2, <4>3
      <3> QED BY <3>1, <3>2
    <2> QED BY <2>1
  <1>6. ASSUME NEW b \in Clusters, b # c, NoPred(f, b) PROVE NoPred(g, b)
    BY <1>1, <1>2, <1>6 DEF NoPred
  <1> QED BY <1>3, <1>4, <1>5, <1>6 DEF FatOK

-----------------------------------------------------------------------------
(* Every step keeps the structure.                                         *)

\* A disk with an empty root directory.
LEMMA InitTree == Init => TreeInv
  <1> SUFFICES ASSUME Init PROVE TreeInv
    OBVIOUS
  <1>1. fat[1] \in Fats /\ data \in DataAreas
    <2>1. TypeInv /\ 1 \in 1..NumFats
      BY InitDisk, Numbers DEF DiskInv
    <2> QED BY <2>1 DEF TypeInv
  <1>2. PICK f, d : f = fat[1] /\ d = data
    OBVIOUS
  <1>3. f \in Fats /\ d \in DataAreas
    BY <1>1, <1>2
  <1>4. \A c \in Clusters : f[c] = IF c = Root THEN EOC ELSE Free
    <2>1. 1 \in 1..NumFats
      BY Numbers
    <2> QED BY <1>2, <2>1 DEF Init
  <1>5. \A c \in Clusters : f[c] \notin Clusters
    BY <1>4, Numbers
  <1>6. FatOK(f)
    BY <1>5, Numbers DEF FatOK, Acyclic
  <1>7. In(f, Root) = {Root} /\ ChainIn(f, Root) = <<Root>> /\ Root \in DataClusters
    BY <1>3, <1>5, <1>6, ChainOne, Numbers DEF FatOK
  <1>8. /\ \A c \in DataClusters, u \in 1..ClusterUnits :
              d[c][u] = IF c = Root /\ Labelled /\ u = 1 THEN Skip ELSE End
    BY <1>2 DEF Init, Zeros, DataClusters
  <1>9. EntrySlots(d) = {}
    <2>1. \A x \in Slots : At(d, x).k # "entry"
      BY <1>8, EntryUnits DEF Slots, At
    <2> QED BY <2>1 DEF EntrySlots
  <1> DEFINE T == [p \in {<<>>} |-> Root]
             X == {}
             s == UnitsIn(f, d, Root)
  <1>10. Tidy(s)
    <2>1. /\ Len(s) \in Nat /\ Len(s) = ClusterUnits
          /\ \A j \in 1..Len(s) : s[j] = d[Place(<<Root>>, j)[1]][Place(<<Root>>, j)[2]]
      <3>1. Len(s) = 1 * ClusterUnits
        BY <1>3, <1>7, UnitsFacts
      <3>2. Len(s) \in Nat /\ Len(s) = ClusterUnits
        BY <3>1, Numbers
      <3>3. \A j \in 1..Len(s) :
               s[j] = d[Place(ChainIn(f, Root), j)[1]][Place(ChainIn(f, Root), j)[2]]
        BY <1>3, <1>7, UnitsFacts
      <3> QED BY <1>7, <3>2, <3>3
    <2>2. \A j \in 1..ClusterUnits : Place(<<Root>>, j) = <<Root, j>>
      <3>1. ASSUME NEW j \in 1..ClusterUnits PROVE Place(<<Root>>, j) = <<Root, j>>
        <4>1. (j - 1) \div ClusterUnits = 0 /\ (j - 1) % ClusterUnits = j - 1
          BY Numbers
        <4>2. (j - 1) \div ClusterUnits + 1 = 1 /\ ((j - 1) % ClusterUnits) + 1 = j
          BY <4>1, Numbers
        <4> QED BY <4>2 DEF Place
      <3> QED BY <3>1
    <2>3. \A j \in 1..Len(s) : s[j] = IF Labelled /\ j = 1 THEN Skip ELSE End
      <3>1. ASSUME NEW j \in 1..Len(s)
            PROVE  s[j] = IF Labelled /\ j = 1 THEN Skip ELSE End
        <4>1. s[j] = d[Root][j] /\ j \in 1..ClusterUnits
          BY <2>1, <2>2
        <4> QED BY <1>7, <1>8, <4>1
      <3> QED BY <3>1
    <2>4. Skip # End /\ Skip.k # "byte" /\ End.k # "byte"
      BY DEF Skip, End
    <2> HIDE DEF s
    <2>5. \A i, j \in 1..Len(s) : i < j => j # 1
      BY <2>1
    <2> QED BY <2>3, <2>4, <2>5 DEF Tidy
  <1>11. DOMAIN T = {<<>>} /\ T[<<>>] = Root
    OBVIOUS
  <1> HIDE DEF T, X
  <1>12. Tree(f, d, T, X)
    <2>1. \A h : Holds(f, d, h) = {}
      BY <1>9 DEF Holds
    <2>2. DirOK(f, d, Root)
      BY <1>10, <2>1 DEF DirOK
    <2>3. T \in [DOMAIN T -> DataClusters]
      BY <1>7, <1>11 DEF T
    <2> QED BY <1>9, <1>11, <2>1, <2>2, <2>3 DEF Tree
  <1>13. Owners(f, d, X)
    BY <1>4, <1>5, <1>7, <1>9, Numbers DEF Owners, Owner, NoPred
  <1>14. Damage(f, d, T, X, Suspects) /\ DamageInv(X)
    BY DEF Damage, DamageInv, X
  <1>15. pc = "idle"
    BY DEF Init
  <1>16. StructInv(T, X)
    BY <1>2, <1>12, <1>13, <1>14, <1>15 DEF StructInv, ClearInv, MakeInv, DoneInv, Active, Clearing
  <1> QED BY <1>2, <1>6, <1>16 DEF TreeInv

\* A loose cluster is in none of the chains.
LEMMA LooseHeads ==
    ASSUME NEW f \in Fats, FatOK(f), NEW d \in DataAreas, NEW T, NEW X,
           Tree(f, d, T, X), Owners(f, d, X), NEW c, Loose(f, d, X, c)
    PROVE  /\ \A h \in Heads(d, X) : h # 0 => c \notin In(f, h)
           /\ \A p \in DOMAIN T : c \notin In(f, T[p])
  <1>1. ASSUME NEW h \in Heads(d, X), h # 0 PROVE c \notin In(f, h)
    <2>1. h \in DataClusters /\ c # h /\ NoPred(f, c) /\ Acyclic(f)
      BY <1>1, Structure DEF Loose, FatOK
    <2> QED BY <2>1, LooseOut
  <1> QED BY <1>1, Structure

\* The chain from a loose head is apart from the others.
LEMMA LooseApart ==
    ASSUME NEW f \in Fats, FatOK(f), NEW d \in DataAreas, NEW T, NEW X,
           Tree(f, d, T, X), Owners(f, d, X), NEW c \in DataClusters, Loose(f, d, X, c)
    PROVE  /\ \A h \in Heads(d, X) : h # 0 => In(f, c) \cap In(f, h) = {}
           /\ \A p \in DOMAIN T : In(f, c) \cap In(f, T[p]) = {}
           /\ Holds(f, d, c) = {}
  <1>1. ASSUME NEW h \in Heads(d, X), h # 0 PROVE In(f, c) \cap In(f, h) = {}
    <2>1. h \in DataClusters /\ NoPred(f, h) /\ c # h /\ NoPred(f, c)
      BY <1>1, Structure DEF Loose, Owner
    <2> QED BY <2>1, Apart
  <1>2. \A p \in DOMAIN T : In(f, c) \cap In(f, T[p]) = {}
    BY <1>1, Structure
  <1>3. ASSUME NEW x \in Holds(f, d, c) PROVE FALSE
    <2>1. x \in EntrySlots(d) /\ x[1] \in In(f, c)
      BY DEF Holds
    <2>2. PICK p \in DOMAIN T : x[1] \in In(f, T[p])
      BY <2>1 DEF Tree, Holds
    <2> QED BY <1>2, <2>1, <2>2
  <1> QED BY <1>1, <1>2, <1>3

\* The types, and the structure of the disk, at hand.
LEMMA At1 ==
    ASSUME DiskInv
    PROVE  /\ fat \in [1..NumFats -> Fats] /\ fat[1] \in Fats /\ data \in DataAreas
           /\ op \in Ops /\ op.path \in Seq(Names) /\ op.need \in Nat
           /\ op.free \in {0} \cup DataClusters /\ bad \subseteq Seq(Names)
           /\ head \in {0} \cup DataClusters /\ cl \in {0} \cup Clusters
           /\ copy \in 1..NumFats /\ 1 \in 1..NumFats /\ cnt \in Nat
           /\ Suspects \subseteq Seq(Names)
  <1>1. 1 \in 1..NumFats
    BY Numbers
  <1>2. Paths \subseteq Seq(Names)
    BY PathFacts
  <1>3. /\ fat \in [1..NumFats -> Fats] /\ data \in DataAreas /\ op \in Ops /\ bad \subseteq Paths
        /\ head \in {0} \cup DataClusters /\ cl \in {0} \cup Clusters
        /\ copy \in 1..NumFats /\ cnt \in Nat
    BY DEF DiskInv, TypeInv
  <1>4. fat[1] \in Fats
    BY <1>1, <1>3
  <1>5. op.path \in Paths /\ op.need \in Nat /\ op.free \in {0} \cup DataClusters
    BY <1>3 DEF Ops
  <1>6. Suspects \subseteq Paths
    BY <1>3, <1>5 DEF Suspects
  <1> QED BY <1>1, <1>2, <1>3, <1>4, <1>5, <1>6

\* What a write leaves alone: every name but that of the target p0 in every
\* directory of the tree, and the chains of the files.
FilesKept(f, d, g, e, X) ==
    \A x \in EntrySlots(d) \ X : ~At(d, x).dir /\ At(d, x).cluster # 0 =>
        \A b \in In(f, At(d, x).cluster) : g[b] = f[b] /\ e[b] = d[b]
Keeps(f, d, g, e, T, X, p0) ==
    /\ \A p \in DOMAIN T : DirOK(g, e, T[p])
    /\ \A p \in DOMAIN T : \A x \in Holds(f, d, T[p]) : Append(p, At(d, x).name) # p0 =>
          x \in Holds(g, e, T[p]) /\ At(e, x) = At(d, x)
    /\ \A p \in DOMAIN T : \A x \in Holds(g, e, T[p]) : Append(p, At(e, x).name) # p0 =>
          x \in Holds(f, d, T[p]) /\ At(e, x) = At(d, x)
    /\ FilesKept(f, d, g, e, X)
Stay(f, d, g, e, T, X, B, p0) ==
    /\ FatOK(g) /\ g \in Fats /\ e \in DataAreas
    /\ Tree(f, d, T, X) /\ Owners(f, d, X) /\ Damage(f, d, T, X, B)
    /\ Keeps(f, d, g, e, T, X, p0)
Stays == \E T, X : Stay(fat[1], data, fat'[1], data', T, X, Suspects, op.path)

\* A write to a cluster c that no chain goes through, or only that of a
\* directory, leaves the files alone.
LEMMA FileFrame ==
    ASSUME NEW f \in Fats, FatOK(f), NEW d \in DataAreas, NEW T, NEW X, Tree(f, d, T, X),
           Owners(f, d, X), NEW c, NEW g, NEW e,
           \A b \in Clusters : b # c => g[b] = f[b],
           \A b \in DataClusters : b # c => e[b] = d[b],
           \/ \A h \in Heads(d, X) : h # 0 => c \notin In(f, h)
           \/ \E p \in DOMAIN T : c \in In(f, T[p])
    PROVE  FilesKept(f, d, g, e, X)
  <1> SUFFICES ASSUME NEW x \in EntrySlots(d) \ X, ~At(d, x).dir, At(d, x).cluster # 0,
                      NEW b \in In(f, At(d, x).cluster)
               PROVE  g[b] = f[b] /\ e[b] = d[b]
    BY DEF FilesKept
  <1>1. PICK h : h = At(d, x).cluster
    OBVIOUS
  <1>2. h \in Heads(d, X) /\ h # 0 /\ h \in DataClusters /\ Acyclic(f)
    BY <1>1, EntryAt DEF Heads, FatOK
  <1>3. b \in Clusters /\ b \in DataClusters /\ b \in In(f, h)
    BY <1>1, <1>2, InFacts
  <1>4. c \notin In(f, h)
    <2>1. CASE \E p \in DOMAIN T : c \in In(f, T[p])
      <3>1. PICK p \in DOMAIN T : c \in In(f, T[p])
        BY <2>1
      <3>2. T[p] # h
        <4>1. CASE p = <<>>
          <5>1. T[p] = Root
            BY <4>1 DEF Tree
          <5> QED BY <1>1, <5>1 DEF Owners
        <4>2. CASE p # <<>>
          <5>1. \A r \in DOMAIN T : r # <<>> => \E y \in Holds(f, d, T[Parent(r)]) \ X :
                   At(d, y).dir /\ At(d, y).name = Last(r) /\ At(d, y).cluster = T[r]
            BY DEF Tree
          <5>2. PICK y \in EntrySlots(d) \ X : At(d, y).dir /\ At(d, y).cluster = T[p]
            BY <4>2, <5>1 DEF Holds
          <5>3. At(d, x).cluster # 0 /\ x # y
            BY <5>2
          <5>4. At(d, x).cluster # At(d, y).cluster
            BY <5>3 DEF Owners
          <5> QED BY <1>1, <5>2, <5>4
        <4> QED BY <4>1, <4>2
      <3>3. T[p] \in Heads(d, X) /\ T[p] # 0
        BY Structure
      <3>4. In(f, T[p]) \cap In(f, h) = {}
        BY <1>2, <3>2, <3>3, Structure
      <3> QED BY <3>1, <3>4
    <2>2. CASE \A k \in Heads(d, X) : k # 0 => c \notin In(f, k)
      BY <1>2, <2>2
    <2> QED BY <2>1, <2>2
  <1> QED BY <1>3, <1>4

\* A write that leaves the directories alike.
LEMMA AlikeStays ==
    ASSUME NEW f, NEW d, NEW g \in Fats, FatOK(g), NEW e \in DataAreas, NEW T, NEW X, NEW B,
           Tree(f, d, T, X), Owners(f, d, X), Damage(f, d, T, X, B), Alike(f, d, g, e, T),
           FilesKept(f, d, g, e, X), NEW p0
    PROVE  Stay(f, d, g, e, T, X, B, p0)
  <1>1. \A p \in DOMAIN T : DirOK(g, e, T[p]) /\ Holds(g, e, T[p]) = Holds(f, d, T[p])
    BY DEF Alike
  <1>2. \A p \in DOMAIN T : \A x \in Holds(f, d, T[p]) : At(e, x) = At(d, x)
    BY DEF Alike, Holds
  <1>3. Keeps(f, d, g, e, T, X, p0)
    BY <1>1, <1>2 DEF Keeps
  <1> QED BY <1>3 DEF Stay

\* What is left of a directory while its chain is freed.
LEMMA TidyFirst ==
    ASSUME NEW f \in Fats, NEW g \in Fats, Acyclic(f), Acyclic(g), NEW d \in DataAreas,
           NEW h \in DataClusters, Tidy(UnitsIn(f, d, h)), ChainIn(g, h) = <<h>>
    PROVE  Tidy(UnitsIn(g, d, h))
  <1> DEFINE s == UnitsIn(f, d, h)
             t == UnitsIn(g, d, h)
  <1>1. Len(s) \in Nat /\ ClusterUnits <= Len(s) /\ \A j \in 1..ClusterUnits : s[j] = d[h][j]
    BY FirstUnits
  <1>2. Len(t) = ClusterUnits /\ \A j \in 1..ClusterUnits : t[j] = d[h][j]
    BY FirstUnits
  <1> HIDE DEF s, t
  <1>3. Tidy(s)
    BY DEF s
  <1>4. \A j \in 1..Len(t) : j \in 1..Len(s) /\ t[j] = s[j]
    BY <1>1, <1>2, Numbers
  <1>5. Tidy(t)
    BY <1>3, <1>4 DEF Tidy
  <1> QED BY <1>5 DEF t

\* free_chain keeps the structure: the cluster it frees is loose.
LEMMA FreeTree ==
    ASSUME DiskInv, TreeInv, FreeWrite
    PROVE  TreeInv' /\ Stays
  <1>1. PICK T, X : StructInv(T, X)
    BY DEF TreeInv
  <1>2. PICK f, g, d, fr : f = fat[1] /\ g = fat'[1] /\ d = data /\ fr = op.free
    OBVIOUS
  <1>3. /\ pc = "free" /\ cl \in DataClusters /\ cl \in Clusters /\ copy \in 1..NumFats
        /\ head = 0 /\ f \in Fats /\ d \in DataAreas /\ fr \in {0} \cup DataClusters
        /\ fat \in [1..NumFats -> Fats] /\ FatOK(f)
    BY <1>2, At1, Numbers DEF FreeWrite, DiskInv, PhaseInv, TreeInv
  <1>4. Wrote(fat, copy, cl, Free, fat')
    BY DEF FreeWrite, Wrote
  <1>5. g \in Fats /\ FirstCopy(f, copy, cl, Free, g)
    BY <1>2, <1>3, <1>4, FatWrite
  <1>6. /\ Tree(f, d, T, X) /\ Owners(f, d, X) /\ Damage(f, d, T, X, Suspects) /\ DamageInv(X)
        /\ Parent(op.path) \in DOMAIN T /\ T[Parent(op.path)] = op.parent
        /\ ClearInv(X)
    BY <1>1, <1>2, <1>3 DEF StructInv, Active
  <1> DEFINE next == IF copy = 1 THEN f[cl] ELSE nxt
  <1>7. /\ fr # 0 /\ fr \in DataClusters /\ Loose(f, d, X, fr)
        /\ f[fr] = Free \/ (copy = 1 /\ cl = fr)
        /\ Loose(f, d, X, cl) /\ (copy > 1 => f[cl] = Free)
        /\ copy > 1 /\ nxt \in DataClusters => Loose(f, d, X, nxt)
    BY <1>2, <1>3, <1>6 DEF ClearInv, Clearing
  <1>8. /\ FatOK(g) /\ SameTree(f, d, g, d, T) /\ Owners(g, d, X)
        /\ \A b \in Clusters : NoPred(f, b) => NoPred(g, b)
        /\ g[cl] = Free /\ g[fr] = Free
        /\ next \in DataClusters => Loose(g, d, X, next)
        /\ Tidy(UnitsIn(f, d, fr)) => Tidy(UnitsIn(g, d, fr))
    <2>1. CASE copy # 1
      <3>1. g = f /\ copy > 1
        BY <1>3, <1>5, <2>1 DEF FirstCopy
      <3>2. SameTree(f, d, g, d, T)
        BY <3>1 DEF SameTree
      <3> QED BY <1>3, <1>6, <1>7, <2>1, <3>1, <3>2
    <2>2. CASE copy = 1
      <3>1. Except(f, cl, Free, g) /\ NoPred(f, cl)
        BY <1>5, <1>7, <2>2 DEF FirstCopy, Except, Loose
      <3>2. /\ FatOK(g) /\ \A b \in Clusters : NoPred(f, b) => NoPred(g, b)
            /\ f[cl] \in DataClusters => NoPred(g, f[cl])
        BY <1>3, <1>5, <3>1, FatFreed
      <3>3. \A h \in Heads(d, X) : h # 0 => cl \notin In(f, h) /\ NoPred(f, h) /\ h \in Clusters
        BY <1>3, <1>6, <1>7, LooseHeads, Structure, Numbers DEF Owner
      <3>4. \A b \in Clusters : b # cl => g[b] = f[b]
        BY <3>1 DEF Except
      <3>5. SameTree(f, d, g, d, T) /\ Owners(g, d, X)
        BY <1>3, <1>5, <1>6, <3>2, <3>3, <3>4, FatOutside
      <3>6. g[cl] = Free /\ g[fr] = Free /\ fr \in Clusters
        BY <1>7, <3>1, <3>4, Numbers DEF Except
      <3>7. ASSUME f[cl] \in DataClusters PROVE Loose(g, d, X, f[cl])
        <4>1. f[cl] # 0
          BY <3>7, Numbers
        <4>2. f[cl] \notin Heads(d, X)
          BY <1>3, <3>3, <4>1 DEF NoPred
        <4> QED BY <3>2, <3>7, <4>2 DEF Loose
      <3>8. Acyclic(f) /\ Acyclic(g) /\ Free \notin DataClusters
        BY <1>3, <3>2, Numbers DEF FatOK
      <3>9. ChainIn(g, fr) = <<fr>>
        BY <1>5, <1>7, <3>6, <3>8, ChainOne
      <3>10. ASSUME Tidy(UnitsIn(f, d, fr)) PROVE Tidy(UnitsIn(g, d, fr))
        BY <1>3, <1>5, <1>7, <3>8, <3>9, <3>10, TidyFirst
      <3> QED BY <2>2, <3>2, <3>5, <3>6, <3>7, <3>10
    <2> QED BY <2>1, <2>2
  <1>9. /\ Tree(g, d, T, X) /\ Damage(g, d, T, X, Suspects)
        /\ Holds(g, d, op.parent) = Holds(f, d, op.parent)
    BY <1>6, <1>8, TreeSame DEF SameTree
  <1>10. \A c \in Clusters : Loose(f, d, X, c) => Loose(g, d, X, c)
    BY <1>8 DEF Loose
  <1>11. /\ UNCHANGED <<data, op, head, tail, growing, bad, reused>>
         /\ \/ copy' = copy + 1 /\ nxt' = next /\ cl' = cl /\ pc' = "free"
            \/ copy' = 1 /\ cl' = next /\ next \in DataClusters /\ pc' = "free"
            \/ pc' = "freeinfo"
    <2>1. next \in Clusters => next \in DataClusters
      <3>1. nxt \in {Free, EOC} \cup DataClusters /\ f[cl] \in {Free, EOC} \cup DataClusters
        BY <1>3 DEF DiskInv, TypeInv, Fats
      <3> QED BY <3>1, Numbers
    <2> QED BY <1>2, <1>3, <2>1 DEF FreeWrite, histVars, IsCluster
  <1>12. Clearing /\ Clearing' /\ Active' /\ ~Fresh' /\ Suspects' = Suspects /\ pc' # "done"
    BY <1>3, <1>11 DEF Clearing, Active, Fresh, Suspects
  <1>13. \A x \in X : At(d, x).cluster \in {0} \cup DataClusters
    BY <1>3, <1>6, EntryAt DEF Damage
  <1>14. DamageInv(X)'
    <2>1. ASSUME ~reused, NEW x \in X, At(d, x).cluster # 0
          PROVE  Loose(g, d, X, At(d, x).cluster)
      <3>1. Loose(f, d, X, At(d, x).cluster)
        BY <1>2, <1>6, <2>1 DEF DamageInv
      <3>2. At(d, x).cluster \in Clusters
        BY <1>13, <2>1, Numbers
      <3> QED BY <1>10, <3>1, <3>2
    <2> QED BY <1>2, <1>3, <1>11, <1>12, <2>1 DEF DamageInv
  <1>15. ClearInv(X)'
    <2>1. PICK x \in X \cap Holds(f, d, op.parent) :
             /\ At(d, x).name = Last(op.path) /\ At(d, x).cluster = fr
             /\ At(d, x).dir /\ op.path \notin bad => Tidy(UnitsIn(f, d, fr))
      BY <1>2, <1>6, <1>12 DEF ClearInv
    <2>2. /\ x \in X \cap Holds(g, d, op.parent)
          /\ At(d, x).dir /\ op.path \notin bad => Tidy(UnitsIn(g, d, fr))
      BY <1>8, <1>9, <2>1
    <2>3. Loose(g, d, X, fr) /\ Loose(g, d, X, cl)
      BY <1>3, <1>7, <1>10, Numbers
    <2>4. g = fat'[1] /\ d = data' /\ op' = op /\ fr = op'.free /\ bad' = bad
      BY <1>2, <1>11
    <2>5. pc' = "free" =>
             /\ Loose(g, d, X, cl')
             /\ copy' > 1 => g[cl'] = Free
             /\ copy' > 1 /\ nxt' \in DataClusters => Loose(g, d, X, nxt')
      BY <1>8, <1>11, <2>3
    <2>6. \E y \in X \cap Holds(g, d, op.parent) :
             /\ At(d, y).name = Last(op.path) /\ At(d, y).cluster = fr
             /\ At(d, y).dir /\ op.path \notin bad => Tidy(UnitsIn(g, d, fr))
      BY <2>1, <2>2
    <2> QED BY <1>7, <1>8, <2>3, <2>4, <2>5, <2>6 DEF ClearInv
  <1>16. StructInv(T, X)'
    <2>1. MakeInv(X)' /\ DoneInv(X)'
      BY <1>12 DEF MakeInv, DoneInv
    <2> QED BY <1>2, <1>6, <1>8, <1>9, <1>11, <1>12, <1>14, <1>15, <2>1 DEF StructInv
  <1>17. Stays
    <2>1. \A b \in Clusters : b # cl => g[b] = f[b]
      BY <1>3, <1>5, Numbers DEF FirstCopy
    <2>2. \A h \in Heads(d, X) : h # 0 => cl \notin In(f, h)
      BY <1>3, <1>6, <1>7, LooseHeads
    <2>3. FilesKept(f, d, g, d, X)
      BY <1>3, <1>6, <2>1, <2>2, FileFrame
    <2>4. Alike(f, d, g, d, T)
      BY <1>6, <1>8, TreeSame
    <2>5. Stay(f, d, g, d, T, X, Suspects, op.path)
      BY <1>3, <1>5, <1>6, <1>8, <2>3, <2>4, AlikeStays
    <2> QED BY <1>2, <1>11, <2>5 DEF Stays
  <1> QED BY <1>2, <1>8, <1>16, <1>17 DEF TreeInv

\* More paths may be suspect.
LEMMA DamageMore ==
    ASSUME NEW f, NEW d, NEW T, NEW X, NEW B, NEW C, Damage(f, d, T, X, B), B \subseteq C
    PROVE  Damage(f, d, T, X, C)
  BY DEF Damage

\* free_chain's update_fsinfo, then delete_dir_entry.
LEMMA FreeInfoTree ==
    ASSUME DiskInv, TreeInv, NEW ok, FreeInfo(ok)
    PROVE  TreeInv'
  <1>1. PICK T, X : StructInv(T, X)
    BY DEF TreeInv
  <1>2. pc = "freeinfo" /\ pc' = "delete" /\ head = 0
    BY DEF FreeInfo, DiskInv, PhaseInv, AfterFree
  <1>3. UNCHANGED <<fat, data, op, cl, nxt, copy, head, tail, growing, bad, reused>>
    BY DEF FreeInfo, histVars
  <1>4. /\ Clearing /\ Clearing' /\ Active /\ Active' /\ ~Fresh' /\ Suspects' = Suspects
    BY <1>2, <1>3 DEF Clearing, Active, Fresh, Suspects
  <1>5. DamageInv(X)'
    BY <1>1, <1>2, <1>3, <1>4 DEF StructInv, DamageInv
  <1>6. ClearInv(X)'
    BY <1>1, <1>2, <1>3, <1>4 DEF StructInv, ClearInv
  <1>7. MakeInv(X)' /\ DoneInv(X)'
    BY <1>2, <1>4 DEF MakeInv, DoneInv
  <1>8. StructInv(T, X)'
    BY <1>1, <1>3, <1>4, <1>5, <1>6, <1>7 DEF StructInv
  <1> QED BY <1>3, <1>8 DEF TreeInv

\* allocate_chain is done, and so is the cluster that a directory grows by.
LEMMA AllocInfoTree ==
    ASSUME DiskInv, TreeInv, NEW ok, AllocInfo(ok)
    PROVE  TreeInv'
  <1>1. PICK T, X : StructInv(T, X)
    BY DEF TreeInv
  <1>2. /\ pc = "allocinfo" /\ growing \in BOOLEAN /\ op.need \in Nat /\ head' = head
        /\ IF growing THEN pc' = "add" ELSE pc' = "data" /\ cnt' = 0
        /\ growing' = FALSE
    BY At1 DEF AllocInfo, DiskInv, TypeInv
  <1>3. UNCHANGED <<fat, data, op, nxt, copy, head, bad, reused>>
    BY DEF AllocInfo, histVars
  <1>4. /\ ~Clearing /\ ~Clearing' /\ Active /\ Active' /\ ~Fresh /\ ~Fresh' /\ Suspects' = Suspects
        /\ pc' # "done" /\ pc # "done"
    BY <1>2, <1>3 DEF Clearing, Active, Fresh, Suspects
  <1>5. DamageInv(X)'
    BY <1>1, <1>2, <1>3, <1>4 DEF StructInv, DamageInv
  <1>6. ClearInv(X)' /\ DoneInv(X)'
    BY <1>4 DEF ClearInv, DoneInv
  <1>7. MakeInv(X)'
    <2>1. MakeInv(X)
      BY <1>1 DEF StructInv
    <2>2. NotThere' /\ (head # 0 => Loose(fat[1], data, X, head) /\ fat[1][head] # Free)
      <3>1. NotThere /\ (head # 0 => Loose(fat[1], data, X, head) /\ fat[1][head] # Free)
        BY <1>4, <2>1 DEF MakeInv
      <3> QED BY <1>3, <3>1 DEF NotThere
    <2>3. growing /\ op.need > 0 => Filled(op.need)'
      <3>1. growing /\ op.need > 0 => Filled(op.need)
        BY <1>4, <2>1 DEF MakeInv
      <3> QED BY <1>3, <3>1 DEF Filled
    <2>4. ~growing => Filled(0)'
      <3> SUFFICES ASSUME ~growing PROVE Filled(0)'
        OBVIOUS
      <3>1. PICK s \in Seq(DataClusters) : Building(s) /\ op.need > 0
        BY <1>2 DEF DiskInv, BuildInv
      <3>2. PICK f : f = fat[1]
        OBVIOUS
      <3>3. f \in Fats /\ Acyclic(f) /\ EOC \notin DataClusters
        BY <3>2, At1, Numbers DEF TreeInv, FatOK
      <3>4. /\ Len(s) = op.need /\ Len(s) >= 1 /\ Len(s) > 0 /\ head = s[1] /\ f[s[Len(s)]] = EOC
            /\ \A i \in 1..(Len(s) - 1) : f[s[i]] = s[i + 1]
        BY <1>2, <3>1, <3>2 DEF Building
      <3>5. Run(f, head, s) /\ Ends(f, s)
        BY <3>3, <3>4 DEF Run, Ends
      <3>6. ChainIn(f, head) = s
        BY <3>3, <3>5, ChainIs
      <3> QED BY <1>3, <3>2, <3>4, <3>6 DEF Filled
    <2>5. CASE growing
      <3>1. pc' = "add"
        BY <1>2, <2>5
      <3> QED BY <1>2, <1>3, <1>4, <2>2, <2>3, <2>5, <3>1 DEF MakeInv
    <2>6. CASE ~growing
      <3>1. pc' = "data" /\ cnt' = 0
        BY <1>2, <2>6
      <3> QED BY <1>2, <1>3, <1>4, <2>2, <2>4, <2>6, <3>1 DEF MakeInv
    <2> QED BY <2>5, <2>6
  <1>8. StructInv(T, X)'
    BY <1>1, <1>3, <1>4, <1>5, <1>6, <1>7 DEF StructInv
  <1> QED BY <1>3, <1>8 DEF TreeInv

\* A fault makes the target of the operation suspect.
LEMMA FaultTree ==
    ASSUME DiskInv, TreeInv, Fault
    PROVE  TreeInv'
  <1>1. PICK T, X : StructInv(T, X)
    BY DEF TreeInv
  <1>2. pc' = "failed" /\ UNCHANGED <<fat, data, op, reused>> /\ bad' = bad \cup {op.path}
    BY DEF Fault, diskVars
  <1>3. ~Active' /\ ~Clearing' /\ Suspects \subseteq Suspects'
    BY <1>2 DEF Active, Clearing, Suspects
  <1>4. PICK B, C : B = Suspects /\ C = Suspects'
    OBVIOUS
  <1>5. Damage(fat[1], data, T, X, C)
    <2>1. Damage(fat[1], data, T, X, B)
      BY <1>1, <1>4 DEF StructInv
    <2> QED BY <1>3, <1>4, <2>1, DamageMore
  <1>6. DamageInv(X)'
    BY <1>1, <1>2, <1>3 DEF StructInv, DamageInv
  <1>7. StructInv(T, X)'
    BY <1>1, <1>2, <1>3, <1>4, <1>5, <1>6 DEF StructInv, ClearInv, MakeInv, DoneInv
  <1> QED BY <1>2, <1>7 DEF TreeInv

\* An operation that returns: its target is suspect only if it was cut off.
LEMMA ReturnTree ==
    ASSUME DiskInv, TreeInv, NEW r, Returns(r)
    PROVE  TreeInv'
  <1>1. PICK T, X : StructInv(T, X)
    BY DEF TreeInv
  <1>2. /\ pc' = "idle" /\ UNCHANGED <<fat, data>> /\ reused' = (reused /\ bad' # {})
        /\ pc \in {"mark", "zero", "done", "failed"}
        /\ bad' = (IF r = "ok" THEN bad \ {op.path} ELSE bad) /\ (r = "ok" <=> pc = "done")
    BY DEF Returns, Return, diskVars
  <1>3. ~Active' /\ ~Clearing' /\ Suspects' = bad' /\ Suspects \subseteq bad'
    BY <1>2 DEF Active, Clearing, Suspects
  <1>4. PICK B, C : B = Suspects /\ C = Suspects'
    OBVIOUS
  <1>5. Damage(fat[1], data, T, X, C)
    <2>1. Damage(fat[1], data, T, X, B)
      BY <1>1, <1>4 DEF StructInv
    <2> QED BY <1>3, <1>4, <2>1, DamageMore
  <1>6. DamageInv(X)'
    <2>1. CASE bad' = {}
      <3>1. X = {}
        BY <1>3, <1>4, <1>5, <2>1 DEF Damage
      <3> QED BY <3>1 DEF DamageInv
    <2>2. CASE bad' # {}
      <3>1. ~reused' => ~reused
        BY <1>2, <2>2
      <3>2. DamageInv(X)
        BY <1>1 DEF StructInv
      <3> QED BY <1>2, <1>3, <3>1, <3>2 DEF DamageInv
    <2> QED BY <2>1, <2>2
  <1>7. StructInv(T, X)'
    BY <1>1, <1>2, <1>3, <1>4, <1>5, <1>6 DEF StructInv, ClearInv, MakeInv, DoneInv
  <1> QED BY <1>2, <1>7 DEF TreeInv

\* A directory without a free slot: the end of its chain.
LEMMA GrowTree ==
    ASSUME DiskInv, TreeInv, GrowDir
    PROVE  TreeInv'
  <1>1. PICK T, X : StructInv(T, X)
    BY DEF TreeInv
  <1>2. PICK f, h : f = fat[1] /\ h = op.parent
    OBVIOUS
  <1>3. /\ pc = "add" /\ pc' = "mark" /\ growing' = TRUE /\ copy = 1
        /\ tail' = ChainIn(f, h)[Len(ChainIn(f, h))]
    <2>1. copy = 1
      BY At1, Numbers DEF GrowDir, DiskInv, PhaseInv
    <2> QED BY <1>2, <2>1, ChainNow DEF GrowDir
  <1>4. UNCHANGED <<fat, data, op, cl, copy, head, cnt, bad, reused>>
    BY DEF GrowDir, diskVars, histVars
  <1>5. /\ ~Clearing /\ ~Clearing' /\ Active /\ Active' /\ ~Fresh /\ ~Fresh' /\ Suspects' = Suspects
        /\ pc' # "done" /\ pc # "done"
    BY <1>3, <1>4 DEF Clearing, Active, Fresh, Suspects
  <1>6. DamageInv(X)'
    BY <1>1, <1>3, <1>4, <1>5 DEF StructInv, DamageInv
  <1>7. ClearInv(X)' /\ DoneInv(X)'
    BY <1>5 DEF ClearInv, DoneInv
  <1>8. tail' \in In(f, h) /\ f[tail'] = EOC
    <2>1. /\ f \in Fats /\ FatOK(f) /\ Acyclic(f) /\ data \in DataAreas
          /\ Tree(f, data, T, X) /\ Owners(f, data, X)
      BY <1>1, <1>2, At1 DEF TreeInv, StructInv, FatOK
    <2>2. h \in DataClusters /\ Owner(f, h)
      <3>1. Parent(op.path) \in DOMAIN T /\ T[Parent(op.path)] = h
        BY <1>1, <1>2, <1>5 DEF StructInv
      <3> QED BY <2>1, <3>1, Structure
    <2>3. tail' \in In(f, h) /\ f[tail'] \notin DataClusters
      BY <1>3, <2>1, <2>2, LastIn
    <2>4. f[tail'] # Free /\ tail' \in Clusters
      BY <2>1, <2>2, <2>3, OwnerIn, InFacts DEF Owner
    <2> QED BY <2>1, <2>3, <2>4 DEF Fats
  <1>9. MakeInv(X)'
    <2>1. MakeInv(X)
      BY <1>1 DEF StructInv
    <2>2. NotThere' /\ (head # 0 => Loose(fat[1], data, X, head) /\ fat[1][head] # Free)
      <3>1. NotThere /\ (head # 0 => Loose(fat[1], data, X, head) /\ fat[1][head] # Free)
        BY <1>5, <2>1 DEF MakeInv
      <3> QED BY <1>4, <3>1 DEF NotThere
    <2>3. op.need > 0 => Filled(op.need)'
      <3>1. op.need > 0 => Filled(op.need)
        BY <1>3, <1>5, <2>1 DEF MakeInv
      <3> QED BY <1>4, <3>1 DEF Filled
    <2> QED BY <1>2, <1>3, <1>4, <1>5, <1>8, <2>2, <2>3 DEF MakeInv
  <1>10. StructInv(T, X)'
    BY <1>1, <1>4, <1>5, <1>6, <1>7, <1>9 DEF StructInv
  <1> QED BY <1>4, <1>10 DEF TreeInv

\* The chain under construction does not change by writes elsewhere.
LEMMA FilledKept ==
    ASSUME NEW f \in Fats, NEW g \in Fats, Acyclic(f), Acyclic(g), NEW d, NEW e,
           f = fat[1], d = data, g = fat'[1], e = data', head \in DataClusters,
           head' = head, op' = op, \A c \in In(f, head) : g[c] = f[c] /\ e[c] = d[c],
           NEW n, n \in Nat, op.need \in Nat, n <= op.need, Filled(n)
    PROVE  LET ch == ChainIn(fat'[1], head')
           IN  Len(ch) = op'.need /\ \A i \in 1..n : data'[ch[i]] = ChunkOf(op', i - 1)
  <1>1. ChainIn(g, head) = ChainIn(f, head)
    BY ChainFrame
  <1>2. Len(ChainIn(f, head)) = op.need
    BY DEF Filled
  <1>3. \A i \in 1..n : ChainIn(f, head)[i] \in In(f, head)
    <2>1. \A i \in 1..n : i \in 1..Len(ChainIn(f, head))
      BY <1>2
    <2> QED BY <2>1, LastIn
  <1>4. \A i \in 1..n : d[ChainIn(f, head)[i]] = ChunkOf(op, i - 1)
    BY DEF Filled
  <1> QED BY <1>1, <1>2, <1>3, <1>4

\* A free cluster is marked: from then on the damaged entries may name clusters
\* of others.
LEMMA MarkTree ==
    ASSUME DiskInv, TreeInv, MarkEoc
    PROVE  TreeInv' /\ Stays
  <1>1. PICK T, X : StructInv(T, X)
    BY DEF TreeInv
  <1>2. PICK f, g, d, c, h : f = fat[1] /\ g = fat'[1] /\ d = data /\ c = cl' /\ h = head
    OBVIOUS
  <1>3. /\ f \in Fats /\ d \in DataAreas /\ FatOK(f) /\ h \in {0} \cup DataClusters
        /\ op.need \in Nat /\ growing \in BOOLEAN /\ reused \in BOOLEAN
        /\ growing => op.need = 0 \/ h \in DataClusters
        /\ copy \in 1..NumFats /\ pc = "mark"
    <2>1. growing => op.need = 0 \/ h \in DataClusters
      BY <1>2, At1 DEF DiskInv, PhaseInv
    <2> QED BY <1>2, <2>1, At1 DEF TreeInv, DiskInv, TypeInv, MarkEoc
  <1>4. /\ c \in Clusters /\ g \in Fats /\ Except(f, c, EOC, g)
        /\ IF copy = 1 THEN f[c] = Free ELSE c = cl /\ f[c] = EOC
    <2>1. fat' \in [1..NumFats -> Fats] /\ 1 \in 1..NumFats
      BY MarkEffect, Numbers
    <2> QED BY <1>2, <2>1, MarkEffect DEF Except
  <1>5. /\ UNCHANGED <<data, op, head, tail, cnt, growing, bad>>
        /\ reused' = (reused \/ bad \ {op.path} # {})
        /\ \/ pc' = "mark" /\ copy' = copy + 1
           \/ pc' = "zero" /\ copy' = 1
    BY <1>3 DEF MarkEoc
  <1>6. /\ ~Clearing /\ ~Clearing' /\ Active /\ Active' /\ Fresh' /\ Suspects' = bad \ {op.path}
        /\ Suspects = bad \ {op.path} /\ (Fresh <=> copy > 1) /\ pc' \in {"mark", "zero"}
    <2>1. pc' \in {"mark", "zero"} /\ (pc' = "mark" => copy' > 1)
      BY <1>3, <1>5
    <2> QED BY <1>3, <1>5, <2>1 DEF Clearing, Active, Fresh, Suspects
  <1>7. /\ Tree(f, d, T, X) /\ Owners(f, d, X) /\ Damage(f, d, T, X, Suspects) /\ DamageInv(X)
        /\ Parent(op.path) \in DOMAIN T /\ T[Parent(op.path)] = op.parent /\ MakeInv(X)
    BY <1>1, <1>2, <1>6 DEF StructInv
  <1>8. /\ NotThere /\ (h # 0 => Loose(f, d, X, h) /\ f[h] # Free)
        /\ Fresh => Loose(f, d, X, cl) /\ cl # h
        /\ growing => tail \in In(f, op.parent) /\ f[tail] = EOC
        /\ op.need > 0 /\ growing => Filled(op.need)
    BY <1>2, <1>3, <1>6, <1>7 DEF MakeInv
  <1>9. /\ FatOK(g) /\ SameTree(f, d, g, d, T) /\ Owners(g, d, X)
        /\ \A b \in Clusters : NoPred(f, b) => NoPred(g, b)
        /\ Loose(g, d, X, c) /\ c # h
        /\ h # 0 => \A b \in In(f, h) : g[b] = f[b]
    <2>1. CASE copy # 1
      <3>1. copy > 1 /\ c = cl /\ f[c] = EOC
        BY <1>3, <1>4, <2>1
      <3>2. g = f
        <4>1. \A b \in Clusters : g[b] = f[b]
          BY <1>4, <3>1 DEF Except
        <4> QED BY <1>3, <1>4, <4>1 DEF Fats
      <3>3. SameTree(f, d, g, d, T)
        BY <3>2 DEF SameTree
      <3>4. Loose(f, d, X, c) /\ c # h
        BY <1>6, <1>8, <3>1
      <3> QED BY <1>3, <1>7, <3>2, <3>3, <3>4
    <2>2. CASE copy = 1
      <3>1. f[c] = Free /\ \A b \in Clusters : b # c => g[b] = f[b]
        BY <1>4, <2>2 DEF Except
      <3>2. FatOK(g) /\ NoPred(f, c) /\ \A b \in Clusters : NoPred(f, b) => NoPred(g, b)
        BY <1>3, <1>4, <3>1, FatMarked
      <3>3. \A k \in Heads(d, X) : k # 0 => k \in DataClusters /\ k \in Clusters /\ Owner(f, k)
        BY <1>3, <1>7, Structure, Numbers
      <3>4. \A k \in DataClusters : f[k] # Free => c \notin In(f, k)
        BY <1>3, <3>1, OwnerIn
      <3>5. \A k \in Heads(d, X) : k # 0 => c \notin In(f, k) /\ NoPred(g, k)
        BY <3>2, <3>3, <3>4 DEF Owner
      <3>6. SameTree(f, d, g, d, T) /\ Owners(g, d, X)
        BY <1>3, <1>4, <1>7, <3>1, <3>2, <3>5, FatOutside
      <3>7. c \notin Heads(d, X) /\ c # h
        BY <1>4, <1>8, <3>1, <3>3, Numbers DEF Owner
      <3>8. ASSUME h # 0 PROVE \A b \in In(f, h) : g[b] = f[b]
        <4>1. In(f, h) \subseteq Clusters /\ c \notin In(f, h)
          BY <1>3, <1>8, <3>4, <3>8, InFacts DEF FatOK
        <4> QED BY <3>1, <4>1
      <3> QED BY <1>4, <3>2, <3>6, <3>7, <3>8 DEF Loose
    <2> QED BY <2>1, <2>2
  <1>10. /\ Tree(g, d, T, X) /\ Damage(g, d, T, X, Suspects)
         /\ Holds(g, d, op.parent) = Holds(f, d, op.parent)
         /\ In(g, op.parent) = In(f, op.parent)
    BY <1>7, <1>9, TreeSame DEF SameTree
  <1>11. DamageInv(X)'
    <2>1. CASE reused'
      BY <2>1 DEF DamageInv
    <2>2. CASE ~reused'
      <3>1. X = {}
        BY <1>5, <1>6, <1>7, <2>2 DEF Damage
      <3> QED BY <3>1 DEF DamageInv
    <2> QED BY <2>1, <2>2
  <1>12. MakeInv(X)'
    <2>1. NotThere'
      BY <1>2, <1>5, <1>8, <1>10 DEF NotThere
    <2>2. h # 0 => Loose(g, d, X, h) /\ g[h] # Free
      <3> SUFFICES ASSUME h # 0 PROVE Loose(g, d, X, h) /\ g[h] # Free
        OBVIOUS
      <3>1. h \in Clusters /\ h # c /\ NoPred(f, h) /\ h \notin Heads(d, X) /\ f[h] # Free
        BY <1>3, <1>8, <1>9, Numbers DEF Loose
      <3>2. g[h] = f[h]
        BY <1>4, <3>1 DEF Except
      <3> QED BY <1>9, <3>1, <3>2 DEF Loose
    <2>3. g[c] = EOC
      BY <1>4 DEF Except
    <2>4. growing => tail \in In(g, op.parent) /\ g[tail] = EOC
      <3> SUFFICES ASSUME growing PROVE tail \in In(g, op.parent) /\ g[tail] = EOC
        OBVIOUS
      <3>1. tail \in Clusters
        <4>1. op.parent \in DataClusters /\ Acyclic(f)
          BY <1>3, <1>7 DEF Tree, FatOK
        <4> QED BY <1>3, <1>8, <4>1, InFacts
      <3>2. g[tail] = EOC
        BY <1>4, <1>8, <3>1 DEF Except
      <3> QED BY <1>8, <1>10, <3>2
    <2>5. op.need > 0 /\ growing => Filled(op.need)'
      <3> SUFFICES ASSUME op.need > 0, growing PROVE Filled(op.need)'
        OBVIOUS
      <3>1. h \in DataClusters /\ Filled(op.need) /\ op.need <= op.need
        BY <1>3, <1>8
      <3>2. \A b \in In(f, h) : g[b] = f[b] /\ d[b] = d[b]
        BY <1>9, <3>1, Numbers
      <3>3. Acyclic(f) /\ Acyclic(g) /\ d = data' /\ head' = head /\ op' = op
        BY <1>2, <1>3, <1>5, <1>9 DEF FatOK
      <3>4. PICK m : m = op.need
        OBVIOUS
      <3>5. LET ch == ChainIn(fat'[1], head')
            IN  Len(ch) = op'.need /\ \A i \in 1..m : data'[ch[i]] = ChunkOf(op', i - 1)
        BY <1>2, <1>3, <1>4, <3>1, <3>2, <3>3, <3>4, FilledKept
      <3> QED BY <1>5, <3>4, <3>5 DEF Filled
    <2> QED BY <1>2, <1>5, <1>6, <1>9, <2>1, <2>2, <2>3, <2>4, <2>5 DEF MakeInv
  <1>13. StructInv(T, X)'
    <2>1. ClearInv(X)' /\ DoneInv(X)'
      BY <1>6 DEF ClearInv, DoneInv
    <2> QED BY <1>2, <1>5, <1>6, <1>7, <1>9, <1>10, <1>11, <1>12, <2>1 DEF StructInv
  <1>14. Stays
    <2>1. \A b \in Clusters : b # c => g[b] = f[b]
      BY <1>4 DEF Except
    <2>2. \A k \in Heads(d, X) : k # 0 => c \notin In(f, k)
      <3>1. CASE copy = 1
        <4>1. f[c] = Free
          BY <1>4, <3>1
        <4>2. \A k \in Heads(d, X) : k # 0 => k \in DataClusters /\ f[k] # Free
          BY <1>3, <1>7, Structure DEF Owner
        <4> QED BY <1>3, <4>1, <4>2, OwnerIn
      <3>2. CASE copy # 1
        <4>1. Loose(f, d, X, c)
          BY <1>3, <1>4, <1>6, <1>8, <3>2, Numbers
        <4> QED BY <1>3, <1>7, <4>1, LooseHeads
      <3> QED BY <3>1, <3>2
    <2>3. FilesKept(f, d, g, d, X)
      BY <1>3, <1>7, <2>1, <2>2, FileFrame
    <2>4. Alike(f, d, g, d, T)
      BY <1>7, <1>9, TreeSame
    <2>5. Stay(f, d, g, d, T, X, Suspects, op.path)
      BY <1>3, <1>4, <1>7, <1>9, <2>3, <2>4, AlikeStays
    <2> QED BY <1>2, <1>5, <2>5 DEF Stays
  <1> QED BY <1>2, <1>9, <1>13, <1>14 DEF TreeInv

\* The new cluster is zeroed; it is the first one, or about to be linked.
LEMMA ZeroTree ==
    ASSUME DiskInv, TreeInv, ZeroCluster
    PROVE  TreeInv' /\ Stays
  <1>1. PICK T, X : StructInv(T, X)
    BY DEF TreeInv
  <1>2. PICK f, d, e, c, h : f = fat[1] /\ d = data /\ e = data' /\ c = cl /\ h = head
    OBVIOUS
  <1>3. /\ f \in Fats /\ d \in DataAreas /\ FatOK(f) /\ Acyclic(f) /\ h \in {0} \cup DataClusters
        /\ op.need \in Nat /\ growing \in BOOLEAN
        /\ growing => op.need = 0 \/ h \in DataClusters
        /\ growing => tail \in DataClusters
        /\ copy = 1 /\ pc = "zero" /\ c \in DataClusters
    <2>1. growing => op.need = 0 \/ h \in DataClusters
      BY <1>2, At1 DEF DiskInv, PhaseInv
    <2>2. pc = "zero" /\ c <= LastData /\ c \in Clusters
      BY <1>2 DEF ZeroCluster, DiskInv, PhaseInv
    <2>3. c \in DataClusters
      BY <2>2, Numbers DEF Clusters, DataClusters
    <2>4. copy = 1
      BY <2>2, At1, Numbers DEF DiskInv, PhaseInv
    <2>5. growing => tail \in DataClusters
      BY <2>2 DEF DiskInv, PhaseInv
    <2> QED BY <1>2, <2>1, <2>2, <2>3, <2>4, <2>5, At1 DEF TreeInv, FatOK, DiskInv, TypeInv
  <1>4. e \in DataAreas /\ \A b \in DataClusters : e[b] = IF b = c THEN Zeros ELSE d[b]
    <2>1. WroteCluster(d, c, Zeros, e)
      BY <1>2 DEF ZeroCluster, WroteCluster
    <2>2. Zeros \in [1..ClusterUnits -> Units]
      BY EntryUnits DEF Zeros
    <2>3. e \in DataAreas
      BY <1>3, <2>1, <2>2 DEF WroteCluster, DataAreas
    <2>4. \A b \in DataClusters : e[b] = IF b = c THEN Zeros ELSE d[b]
      BY <1>3, <2>1 DEF WroteCluster, DataAreas
    <2> QED BY <2>3, <2>4
  <1>5. /\ UNCHANGED <<fat, op, cl, copy, growing, bad, reused>>
        /\ \/ /\ tail = 0 /\ head' = c /\ pc' \in {"mark", "allocinfo"}
              /\ ~growing
           \/ tail # 0 /\ head' = head /\ tail' = tail /\ cnt' = cnt /\ pc' = "link"
    <2>1. tail = 0 => ~growing
      BY <1>3, Numbers
    <2> QED BY <1>2, <2>1 DEF ZeroCluster, Linked, histVars
  <1>6. /\ ~Clearing /\ ~Clearing' /\ Active /\ Active' /\ Fresh /\ Suspects' = Suspects
        /\ pc' # "done"
    BY <1>3, <1>5 DEF Clearing, Active, Fresh, Suspects
  <1>7. /\ Tree(f, d, T, X) /\ Owners(f, d, X) /\ Damage(f, d, T, X, Suspects) /\ DamageInv(X)
        /\ Parent(op.path) \in DOMAIN T /\ T[Parent(op.path)] = op.parent /\ MakeInv(X)
    BY <1>1, <1>2, <1>6 DEF StructInv
  <1>8. /\ NotThere /\ (h # 0 => Loose(f, d, X, h) /\ f[h] # Free)
        /\ Loose(f, d, X, c) /\ c # h /\ f[c] = EOC
        /\ growing => tail \in In(f, op.parent) /\ f[tail] = EOC
        /\ op.need > 0 /\ growing => Filled(op.need)
    BY <1>2, <1>3, <1>6, <1>7 DEF MakeInv
  <1>9. SameTree(f, d, f, e, T) /\ Owners(f, e, X)
    <2>1. \A p \in DOMAIN T : c \notin In(f, T[p])
      BY <1>3, <1>7, <1>8, LooseHeads
    <2>2. \A u \in 1..ClusterUnits : e[c][u].k # "entry"
      BY <1>3, <1>4, EntryUnits DEF Zeros
    <2>3. \A b \in DataClusters : b # c => e[b] = d[b]
      BY <1>4
    <2> QED BY <1>3, <1>4, <1>7, <2>1, <2>2, <2>3, DataOutside
  <1>10. /\ Tree(f, e, T, X) /\ Damage(f, e, T, X, Suspects) /\ Heads(e, X) = Heads(d, X)
         /\ Holds(f, e, op.parent) = Holds(f, d, op.parent)
         /\ \A x \in EntrySlots(d) : At(e, x) = At(d, x)
         /\ X \subseteq EntrySlots(d)
    <2>1. X \subseteq EntrySlots(d)
      BY <1>7 DEF Damage
    <2>2. /\ Tree(f, e, T, X) /\ Heads(e, X) = Heads(d, X)
          /\ Damage(f, e, T, X, Suspects)
      BY <1>7, <1>9, <2>1, TreeSame
    <2> QED BY <1>7, <1>9, <2>1, <2>2 DEF SameTree
  <1>11. \A b : Loose(f, d, X, b) => Loose(f, e, X, b)
    BY <1>10 DEF Loose
  <1>12. DamageInv(X)'
    <2>1. ~reused => X = {}
      BY <1>6, <1>7 DEF DamageInv
    <2>2. CASE reused
      BY <1>5, <2>2 DEF DamageInv
    <2>3. CASE ~reused
      BY <2>1, <2>3 DEF DamageInv
    <2> QED BY <2>2, <2>3
  <1>13. MakeInv(X)'
    <2>1. NotThere'
      <3>1. \A x \in Holds(f, d, op.parent) : x \in EntrySlots(d)
        BY DEF Holds
      <3> QED BY <1>2, <1>5, <1>8, <1>10, <3>1 DEF NotThere
    <2>2. CASE tail = 0
      <3>1. head' = c /\ pc' \in {"mark", "allocinfo"} /\ growing' = FALSE /\ copy' = 1
        BY <1>3, <1>5, <2>2
      <3>2. ~Fresh'
        BY <3>1 DEF Fresh
      <3>3. Loose(f, e, X, c) /\ f[c] # Free /\ fat' = fat
        BY <1>5, <1>8, <1>11, Numbers
      <3> QED BY <1>2, <2>1, <3>1, <3>2, <3>3 DEF MakeInv
    <2>3. CASE tail # 0
      <3>1. head' = h /\ pc' = "link" /\ UNCHANGED <<tail, growing, copy, fat, op, cl>>
        BY <1>2, <1>5, <2>3
      <3>2. e[c] = Zeros
        BY <1>3, <1>4
      <3>3. op.need > 0 /\ growing => Filled(op.need)'
        <4> SUFFICES ASSUME op.need > 0, growing PROVE Filled(op.need)'
          OBVIOUS
        <4>1. h \in DataClusters /\ Filled(op.need) /\ op.need <= op.need
          BY <1>3, <1>8
        <4>2. c \notin In(f, h) /\ In(f, h) \subseteq DataClusters
          BY <1>3, <1>8, <4>1, LooseOut, InFacts DEF Loose
        <4>3. \A b \in In(f, h) : f[b] = f[b] /\ e[b] = d[b]
          BY <1>4, <4>2
        <4>4. f = fat'[1] /\ head' = head /\ op' = op
          BY <1>2, <3>1
        <4>5. PICK m : m = op.need
          OBVIOUS
        <4>6. LET ch == ChainIn(fat'[1], head')
              IN  Len(ch) = op'.need /\ \A i \in 1..m : data'[ch[i]] = ChunkOf(op', i - 1)
          BY <1>2, <1>3, <4>1, <4>3, <4>4, <4>5, FilledKept
        <4> QED BY <4>4, <4>5, <4>6 DEF Filled
      <3>4. Loose(f, e, X, c) /\ (h # 0 => Loose(f, e, X, h))
        BY <1>8, <1>11
      <3>5. f = fat'[1] /\ e = data' /\ c = cl' /\ h = head' /\ copy' = 1
        BY <1>2, <1>3, <3>1
      <3> QED BY <1>8, <2>1, <3>1, <3>2, <3>3, <3>4, <3>5 DEF MakeInv
    <2> QED BY <2>2, <2>3
  <1>14. StructInv(T, X)'
    <2>1. ClearInv(X)' /\ DoneInv(X)'
      BY <1>6 DEF ClearInv, DoneInv
    <2>2. f = fat'[1] /\ e = data' /\ op' = op
      BY <1>2, <1>5
    <2> QED BY <1>6, <1>7, <1>9, <1>10, <1>12, <1>13, <2>1, <2>2 DEF StructInv
  <1>15. Stays
    <2>1. \A k \in Heads(d, X) : k # 0 => c \notin In(f, k)
      BY <1>3, <1>7, <1>8, LooseHeads
    <2>2. \A b \in DataClusters : b # c => e[b] = d[b]
      BY <1>4
    <2>3. FilesKept(f, d, f, e, X)
      BY <1>3, <1>7, <2>1, <2>2, FileFrame
    <2>4. Alike(f, d, f, e, T)
      BY <1>7, <1>9, TreeSame
    <2>5. Stay(f, d, f, e, T, X, Suspects, op.path)
      BY <1>3, <1>4, <1>7, <2>3, <2>4, AlikeStays
    <2> QED BY <1>2, <1>5, <2>5 DEF Stays
  <1> QED BY <1>2, <1>3, <1>5, <1>14, <1>15 DEF TreeInv

\* A zeroed cluster is linked to the chain of a directory.
LEMMA DirGrows ==
    ASSUME NEW f \in Fats, NEW g \in Fats, FatOK(f), FatOK(g), NEW d \in DataAreas,
           NEW T, NEW X, Tree(f, d, T, X), Owners(f, d, X), NEW q \in DOMAIN T,
           NEW t \in In(f, T[q]), NEW c \in DataClusters, f[t] = EOC, f[c] = EOC,
           Loose(f, d, X, c), Except(f, t, c, g), d[c] = Zeros,
           \A b \in Clusters : b # c /\ NoPred(f, b) => NoPred(g, b)
    PROVE  /\ Alike(f, d, g, d, T) /\ Owners(g, d, X) /\ In(g, T[q]) = In(f, T[q]) \cup {c}
           /\ \A h \in Heads(d, X) : h # 0 /\ h # T[q] => ChainIn(g, h) = ChainIn(f, h)
  <1>0. Acyclic(f) /\ Acyclic(g) /\ EOC \notin DataClusters
    BY Numbers DEF FatOK
  <1>1. /\ g[t] = c /\ \A b \in Clusters : b # t => g[b] = f[b]
    BY DEF Except
  <1>2. T[q] \in DataClusters /\ T[q] \in Heads(d, X) /\ T[q] # 0
    BY Structure
  <1>3. In(f, T[q]) \subseteq Clusters /\ t \in Clusters /\ c \notin In(f, T[q]) /\ c \in Clusters
    BY <1>0, <1>2, InFacts, LooseHeads, Numbers
  <1>4. ChainIn(g, T[q]) = Append(ChainIn(f, T[q]), c) /\ In(g, T[q]) = In(f, T[q]) \cup {c}
    <2>1. \A b \in In(f, T[q]) : b # t => g[b] = f[b]
      BY <1>1, <1>3
    <2>2. g[c] \notin DataClusters /\ f[t] \notin DataClusters
      BY <1>0, <1>1, <1>3
    <2> QED BY <1>0, <1>1, <1>2, <1>3, <2>1, <2>2, ChainGrows
  <1>5. ASSUME NEW h \in Heads(d, X), h # 0
        PROVE  /\ h \in DataClusters /\ g[h] # Free /\ Owner(g, h)
               /\ h # T[q] => ChainIn(g, h) = ChainIn(f, h) /\ In(g, h) = In(f, h)
    <2>1. h \in DataClusters /\ Owner(f, h) /\ h \in Clusters
      BY <1>5, Structure, Numbers
    <2>2. In(f, h) \subseteq Clusters
      BY <1>0, <2>1, InFacts
    <2>3. ASSUME h # T[q] PROVE ChainIn(g, h) = ChainIn(f, h) /\ In(g, h) = In(f, h)
      <3>1. t \notin In(f, h)
        BY <1>2, <1>5, <2>3, Structure
      <3>2. \A b \in In(f, h) : g[b] = f[b]
        BY <1>1, <2>2, <3>1
      <3> QED BY <1>0, <2>1, <3>2, ChainFrame
    <2>4. g[h] # Free
      BY <1>1, <2>1, Numbers DEF Owner
    <2>5. h # c
      BY DEF Loose
    <2> QED BY <2>1, <2>3, <2>4, <2>5 DEF Owner
  <1>6. ASSUME NEW x \in EntrySlots(d) PROVE x[1] # c
    <2>1. x[2] \in 1..ClusterUnits /\ At(d, x).k = "entry"
      BY <1>6, EntryAt
    <2>2. x[1] = c => At(d, x) = End
      BY <2>1 DEF At, Zeros
    <2> QED BY <2>1, <2>2, EntryUnits
  <1>7. ASSUME NEW p \in DOMAIN T
        PROVE  Holds(g, d, T[p]) = Holds(f, d, T[p]) /\ DirOK(g, d, T[p])
    <2>1. T[p] \in Heads(d, X) /\ T[p] # 0 /\ T[p] \in DataClusters /\ DirOK(f, d, T[p])
      <3>1. DirOK(f, d, T[p])
        BY DEF Tree
      <3> QED BY <3>1, Structure
    <2>2. CASE T[p] # T[q]
      <3>1. ChainIn(g, T[p]) = ChainIn(f, T[p]) /\ In(g, T[p]) = In(f, T[p])
        BY <1>5, <2>1, <2>2
      <3>2. UnitsIn(g, d, T[p]) = UnitsIn(f, d, T[p])
        BY <1>0, <2>1, <3>1, UnitsFrame
      <3>3. Holds(g, d, T[p]) = Holds(f, d, T[p])
        BY <3>1 DEF Holds
      <3> QED BY <2>1, <3>2, <3>3 DEF DirOK
    <2>3. CASE T[p] = T[q]
      <3>1. Holds(g, d, T[p]) = Holds(f, d, T[p])
        BY <1>4, <1>6, <2>3 DEF Holds
      <3> DEFINE s == UnitsIn(f, d, T[p])
                 u == UnitsIn(g, d, T[p])
      <3>2. /\ Len(s) \in Nat /\ Len(u) \in Nat
            /\ \A j \in 1..Len(u) : \/ j \in 1..Len(s) /\ u[j] = s[j]
                                    \/ /\ j > Len(s)
                                       /\ \E k \in 1..ClusterUnits : u[j] = d[c][k]
        <4>1. PICK h \in DataClusters : h = T[p] /\ ChainIn(g, h) = Append(ChainIn(f, h), c)
          BY <1>0, <1>4, <2>1, <2>3
        <4> QED BY <1>0, <4>1, LongerUnits
      <3>3. Tidy(s)
        BY <2>1 DEF DirOK
      <3> HIDE DEF s, u
      <3>4. \A j \in 1..Len(u) : \/ j \in 1..Len(s) /\ u[j] = s[j]
                                 \/ j > Len(s) /\ u[j] = End
        BY <3>2 DEF Zeros
      <3>5. \A j \in 1..Len(u) : u[j].k # "byte"
        BY <3>3, <3>4, EntryUnits DEF Tidy
      <3>6. ASSUME NEW i \in 1..Len(u), NEW j \in 1..Len(u), i < j, u[i] = End PROVE u[j] = End
        <4>1. CASE j \in 1..Len(s)
          <5>1. i \in 1..Len(s) /\ ~(i > Len(s)) /\ ~(j > Len(s))
            BY <3>2, <3>6, <4>1
          <5> QED BY <3>3, <3>4, <3>6, <4>1, <5>1 DEF Tidy
        <4>2. CASE ~(j \in 1..Len(s))
          BY <3>4, <4>2
        <4> QED BY <4>1, <4>2
      <3>7. Tidy(u)
        BY <3>5, <3>6 DEF Tidy
      <3> QED BY <2>1, <3>1, <3>7 DEF DirOK, u
    <2> QED BY <2>2, <2>3
  <1>8. Alike(f, d, g, d, T)
    BY <1>7 DEF Alike
  <1>9. ASSUME NEW x \in EntrySlots(d) \ X, ~At(d, x).dir PROVE Sized(g, At(d, x))
    <2>1. Sized(f, At(d, x))
      BY <1>9 DEF Owners
    <2>2. CASE At(d, x).cluster = 0
      BY <2>1, <2>2, NoChain DEF Sized
    <2>3. CASE At(d, x).cluster # 0
      <3>1. At(d, x).cluster \in Heads(d, X)
        BY DEF Heads
      <3>2. At(d, x).cluster # T[q]
        <4>1. CASE q = <<>>
          BY <2>3, <4>1 DEF Owners, Tree
        <4>2. CASE q # <<>>
          <5>1. PICK y \in Holds(f, d, T[Parent(q)]) \ X : At(d, y).dir /\ At(d, y).cluster = T[q]
            BY <4>2 DEF Tree
          <5>2. y \in EntrySlots(d) \ X /\ x # y
            BY <1>9, <5>1 DEF Holds
          <5> QED BY <2>3, <5>1, <5>2 DEF Owners
        <4> QED BY <4>1, <4>2
      <3>3. ChainIn(g, At(d, x).cluster) = ChainIn(f, At(d, x).cluster)
        BY <1>5, <2>3, <3>1, <3>2
      <3> QED BY <2>1, <3>3 DEF Sized
    <2> QED BY <2>2, <2>3
  <1>10. Root \in Heads(d, X) /\ Root # 0
    BY Numbers DEF Heads
  <1>11. \A x \in EntrySlots(d) \ X : At(d, x).cluster # 0 =>
           At(d, x).cluster # Root /\ Owner(g, At(d, x).cluster)
    <2>1. \A x \in EntrySlots(d) \ X : At(d, x).cluster \in Heads(d, X)
      BY DEF Heads
    <2> QED BY <1>5, <2>1 DEF Owners
  <1>12. Owners(g, d, X)
    BY <1>5, <1>9, <1>10, <1>11 DEF Owners
  <1> QED BY <1>4, <1>5, <1>8, <1>12

\* The new cluster is linked to the chain under construction or, of a directory
\* that grows, to that of the directory.
LEMMA LinkTree ==
    ASSUME DiskInv, TreeInv, LinkWrite
    PROVE  TreeInv' /\ Stays
  <1>1. PICK T, X : StructInv(T, X)
    BY DEF TreeInv
  <1>2. PICK f, g, d, c, h, t, par : /\ f = fat[1] /\ g = fat'[1] /\ d = data /\ c = cl
                                     /\ h = head /\ t = tail /\ par = op.parent
    OBVIOUS
  <1>3. /\ f \in Fats /\ d \in DataAreas /\ FatOK(f) /\ Acyclic(f) /\ h \in {0} \cup DataClusters
        /\ op.need \in Nat /\ growing \in BOOLEAN /\ reused \in BOOLEAN
        /\ growing => op.need = 0 \/ h \in DataClusters
        /\ t \in DataClusters /\ pc = "link" /\ c \in DataClusters /\ c \in Clusters /\ t \in Clusters
        /\ copy \in 1..NumFats /\ DataClusters \subseteq Clusters /\ EOC # Free
    <2>1. growing => op.need = 0 \/ h \in DataClusters
      BY <1>2, At1 DEF DiskInv, PhaseInv
    <2>2. t \in DataClusters /\ pc = "link" /\ c \in DataClusters
      BY <1>2, LinkEffect
    <2>3. growing \in BOOLEAN /\ reused \in BOOLEAN
      BY DEF DiskInv, TypeInv
    <2> QED BY <1>2, <2>1, <2>2, <2>3, At1, Numbers DEF TreeInv, FatOK
  <1>4. g \in Fats /\ FirstCopy(f, copy, t, c, g)
    <2>1. fat' \in [1..NumFats -> Fats] /\ 1 \in 1..NumFats
      BY LinkEffect, Numbers
    <2> QED BY <1>2, <2>1, LinkEffect
  <1>5. /\ UNCHANGED <<data, op, cl, head, growing, bad, reused>>
        /\ \/ pc' = "link" /\ tail' = tail /\ copy' = copy + 1
           \/ pc' \in {"mark", "allocinfo"} /\ copy' = 1 /\ (growing => pc' = "allocinfo")
    BY <1>3, LinkEffect DEF LinkWrite, Linked, histVars
  <1>6. /\ ~Clearing /\ ~Clearing' /\ Active /\ Active' /\ Fresh /\ Suspects' = Suspects
        /\ pc' # "done"
    BY <1>3, <1>5 DEF Clearing, Active, Fresh, Suspects
  <1>7. /\ Tree(f, d, T, X) /\ Owners(f, d, X) /\ Damage(f, d, T, X, Suspects) /\ DamageInv(X)
        /\ Parent(op.path) \in DOMAIN T /\ T[Parent(op.path)] = par /\ MakeInv(X)
    BY <1>1, <1>2, <1>6 DEF StructInv
  <1>8. /\ NotThere /\ (h # 0 => Loose(f, d, X, h) /\ f[h] # Free)
        /\ copy = 1 => Loose(f, d, X, c) /\ c # h
        /\ f[c] = EOC /\ d[c] = Zeros
        /\ growing => t \in In(f, par) /\ f[t] = IF copy > 1 THEN c ELSE EOC
        /\ op.need > 0 /\ growing => Filled(op.need)
    BY <1>2, <1>3, <1>6, <1>7 DEF MakeInv
  <1>9. ~growing => /\ h \in DataClusters /\ t \in In(f, h) /\ t # c
                    /\ copy = 1 => f[t] = EOC
    <2> SUFFICES ASSUME ~growing
                 PROVE  /\ h \in DataClusters /\ t \in In(f, h) /\ t # c
                        /\ copy = 1 => f[t] = EOC
      OBVIOUS
    <2>1. PICK s \in Seq(DataClusters) : Building(s)
      BY <1>3 DEF DiskInv, BuildInv
    <2>2. /\ \A i \in 1..(Len(s) - 1) : f[s[i]] = s[i + 1]
          /\ Len(s) = cnt /\ cnt > 0 /\ t = s[cnt] /\ h = s[1]
          /\ \A i \in 1..Len(s) : s[i] # c
          /\ copy = 1 => f[s[Len(s)]] = EOC
      BY <1>2, <1>3, <2>1, Numbers DEF Building
    <2>3. Len(s) \in Nat /\ Len(s) >= 1 /\ Len(s) \in 1..Len(s)
      BY <2>2
    <2>4. Run(f, h, s)
      BY <2>2, <2>3 DEF Run
    <2> QED BY <1>3, <2>2, <2>3, <2>4, RunIn
  <1>10. /\ FatOK(g) /\ Alike(f, d, g, d, T) /\ Owners(g, d, X) /\ g[c] = EOC
         /\ h # 0 => Loose(g, d, X, h) /\ g[h] # Free
         /\ growing => t \in In(g, par) /\ g[t] = c
         /\ growing /\ h # 0 => \A b \in In(f, h) : g[b] = f[b]
    <2>1. CASE copy # 1
      <3>1. g = f /\ copy > 1
        BY <1>3, <1>4, <2>1 DEF FirstCopy
      <3>2. SameTree(f, d, g, d, T)
        BY <3>1 DEF SameTree
      <3>3. Alike(f, d, g, d, T)
        BY <1>7, <3>2, TreeSame
      <3> QED BY <1>3, <1>7, <1>8, <3>1, <3>3
    <2>2. CASE copy = 1
      <3>1. Except(f, t, c, g) /\ Loose(f, d, X, c) /\ c # h /\ NoPred(f, c)
        BY <1>4, <1>8, <2>2 DEF FirstCopy, Except, Loose
      <3>2. f[t] = EOC /\ t # c
        <4>1. CASE growing
          <5>1. c \notin In(f, par)
            BY <1>3, <1>7, <3>1, LooseHeads
          <5> QED BY <1>8, <2>2, <4>1, <5>1
        <4>2. CASE ~growing
          BY <1>9, <2>2, <4>2
        <4> QED BY <4>1, <4>2
      <3>3. FatOK(g) /\ \A b \in Clusters : b # c /\ NoPred(f, b) => NoPred(g, b)
        BY <1>3, <1>4, <1>8, <3>1, <3>2, FatLinked
      <3>4. g[t] = c /\ \A b \in Clusters : b # t => g[b] = f[b]
        BY <3>1 DEF Except
      <3>5. g[c] = EOC
        BY <1>3, <1>8, <3>2, <3>4
      <3>6. h # 0 => Loose(g, d, X, h) /\ g[h] # Free
        <4> SUFFICES ASSUME h # 0 PROVE Loose(g, d, X, h) /\ g[h] # Free
          OBVIOUS
        <4>1. h \in Clusters /\ NoPred(f, h) /\ h \notin Heads(d, X) /\ f[h] # Free
          BY <1>3, <1>8 DEF Loose
        <4>2. g[h] # Free
          BY <1>3, <3>4, <4>1, Numbers
        <4> QED BY <3>1, <3>3, <4>1, <4>2 DEF Loose
      <3>7. CASE growing
        <4>1. t \in In(f, par) /\ par = T[Parent(op.path)]
          BY <1>7, <1>8, <3>7
        <4>2. PICK q : q = Parent(op.path)
          OBVIOUS
        <4>3. /\ Alike(f, d, g, d, T) /\ Owners(g, d, X) /\ In(g, T[q]) = In(f, T[q]) \cup {c}
          BY <1>3, <1>4, <1>7, <1>8, <3>1, <3>2, <3>3, <4>1, <4>2, DirGrows
        <4>4. ASSUME h # 0 PROVE \A b \in In(f, h) : g[b] = f[b]
          <5>1. h \in DataClusters /\ Loose(f, d, X, h)
            BY <1>3, <1>8, <4>4
          <5>2. In(f, h) \subseteq Clusters /\ In(f, h) \cap In(f, T[q]) = {}
            BY <1>3, <1>7, <4>2, <5>1, LooseApart, InFacts
          <5>3. t \notin In(f, h)
            BY <4>1, <4>2, <5>2
          <5> QED BY <3>4, <5>2, <5>3
        <4> QED BY <3>3, <3>4, <3>5, <3>6, <4>1, <4>2, <4>3, <4>4
      <3>8. CASE ~growing
        <4>1. h \in DataClusters /\ t \in In(f, h) /\ Loose(f, d, X, h)
          BY <1>8, <1>9, <3>8, Numbers
        <4>2. \A k \in Heads(d, X) : k # 0 => t \notin In(f, k)
          BY <1>3, <1>7, <4>1, LooseApart
        <4>3. \A k \in Heads(d, X) : k # 0 => NoPred(g, k)
          <5>1. \A k \in Heads(d, X) : k # 0 => k \in Clusters /\ NoPred(f, k) /\ k # c
            BY <1>3, <1>7, <3>1, Structure, Numbers DEF Owner, Loose
          <5> QED BY <3>3, <5>1
        <4>4. SameTree(f, d, g, d, T) /\ Owners(g, d, X)
          BY <1>3, <1>4, <1>7, <3>3, <3>4, <4>2, <4>3, FatOutside
        <4>5. Alike(f, d, g, d, T)
          BY <1>7, <4>4, TreeSame
        <4> QED BY <3>3, <3>5, <3>6, <3>8, <4>4, <4>5
      <3> QED BY <1>3, <3>7, <3>8
    <2> QED BY <2>1, <2>2
  <1>11. /\ Tree(g, d, T, X) /\ Damage(g, d, T, X, Suspects)
    BY <1>7, <1>10, TreeAlike
  <1>12. Holds(g, d, par) = Holds(f, d, par)
    BY <1>7, <1>10 DEF Alike
  <1>13. DamageInv(X)'
    <2>1. ~reused => X = {}
      BY <1>6, <1>7 DEF DamageInv
    <2>2. CASE reused
      BY <1>5, <2>2 DEF DamageInv
    <2>3. CASE ~reused
      BY <2>1, <2>3 DEF DamageInv
    <2> QED BY <2>2, <2>3
  <1>14. MakeInv(X)'
    <2>1. NotThere'
      BY <1>2, <1>5, <1>8, <1>12 DEF NotThere
    <2>2. op.need > 0 /\ growing => Filled(op.need)'
      <3> SUFFICES ASSUME op.need > 0, growing PROVE Filled(op.need)'
        OBVIOUS
      <3>1. h \in DataClusters /\ Filled(op.need) /\ op.need <= op.need
        BY <1>3, <1>8
      <3>2. \A b \in In(f, h) : g[b] = f[b] /\ d[b] = d[b]
        BY <1>10, <3>1, Numbers
      <3>3. Acyclic(g) /\ d = data' /\ head' = head /\ op' = op
        BY <1>2, <1>5, <1>10 DEF FatOK
      <3>4. PICK m : m = op.need
        OBVIOUS
      <3>5. LET ch == ChainIn(fat'[1], head')
            IN  Len(ch) = op'.need /\ \A i \in 1..m : data'[ch[i]] = ChunkOf(op', i - 1)
        BY <1>2, <1>3, <1>4, <3>1, <3>2, <3>3, <3>4, FilledKept
      <3> QED BY <3>3, <3>4, <3>5 DEF Filled
    <2>3. g = fat'[1] /\ d = data' /\ c = cl' /\ h = head' /\ op' = op /\ growing' = growing
          /\ par = op'.parent
      BY <1>2, <1>5
    <2>4. CASE pc' = "link" /\ tail' = tail /\ copy' = copy + 1
      <3>1. copy' > 1 /\ t = tail'
        BY <1>2, <1>3, <2>4
      <3> QED BY <1>8, <1>10, <2>1, <2>2, <2>3, <2>4, <3>1 DEF MakeInv
    <2>5. CASE pc' \in {"mark", "allocinfo"} /\ copy' = 1 /\ (growing => pc' = "allocinfo")
      <3>1. ~Fresh'
        BY <2>5 DEF Fresh
      <3> QED BY <1>10, <2>1, <2>2, <2>3, <2>5, <3>1 DEF MakeInv
    <2> QED BY <1>5, <2>4, <2>5
  <1>15. StructInv(T, X)'
    <2>1. ClearInv(X)' /\ DoneInv(X)'
      BY <1>6 DEF ClearInv, DoneInv
    <2>2. g = fat'[1] /\ d = data' /\ op' = op
      BY <1>2, <1>5
    <2> QED BY <1>2, <1>6, <1>7, <1>10, <1>11, <1>13, <1>14, <2>1, <2>2 DEF StructInv
  <1>16. Stays
    <2>1. \A b \in Clusters : b # t => g[b] = f[b]
      BY <1>3, <1>4, Numbers DEF FirstCopy
    <2>2. \/ \A k \in Heads(d, X) : k # 0 => t \notin In(f, k)
          \/ \E p \in DOMAIN T : t \in In(f, T[p])
      <3>1. CASE growing
        BY <1>7, <1>8, <3>1
      <3>2. CASE ~growing
        <4>1. h \in DataClusters /\ t \in In(f, h) /\ Loose(f, d, X, h)
          BY <1>8, <1>9, <3>2, Numbers
        <4>2. \A k \in Heads(d, X) : k # 0 => In(f, h) \cap In(f, k) = {}
          BY <1>3, <1>7, <4>1, LooseApart
        <4> QED BY <4>1, <4>2
      <3> QED BY <3>1, <3>2
    <2>3. FilesKept(f, d, g, d, X)
      BY <1>3, <1>7, <2>1, <2>2, FileFrame
    <2>4. Stay(f, d, g, d, T, X, Suspects, op.path)
      BY <1>3, <1>4, <1>7, <1>10, <2>3, AlikeStays
    <2> QED BY <1>2, <1>5, <2>4 DEF Stays
  <1> QED BY <1>2, <1>10, <1>15, <1>16 DEF TreeInv

\* The contents of a cluster of a file are no entries.
LEMMA ChunkPlain ==
    ASSUME op \in Ops, cnt \in Nat
    PROVE  Chunk = ChunkOf(op, cnt) /\ \A u \in 1..ClusterUnits : Chunk[u].k # "entry"
  <1>1. Chunk = ChunkOf(op, cnt)
    BY DEF Chunk, ChunkOf
  <1>2. \A b : Byte(b).k = "byte"
    BY DEF Byte
  <1>3. ASSUME NEW u \in 1..ClusterUnits PROVE Chunk[u].k # "entry"
    <2>1. Chunk[u] \in {Skip, End} \/ \E b : Chunk[u] = Byte(b)
      BY DEF Chunk
    <2> QED BY <1>2, <2>1, EntryUnits
  <1> QED BY <1>1, <1>3

\* write_chain fills the chain.
LEMMA WriteTree ==
    ASSUME DiskInv, TreeInv, WriteCluster
    PROVE  TreeInv' /\ Stays
  <1>1. PICK T, X : StructInv(T, X)
    BY DEF TreeInv
  <1>2. PICK f, d, e, c, h, z : /\ f = fat[1] /\ d = data /\ e = data' /\ c = cl /\ h = head
                                /\ z = Chunk
    OBVIOUS
  <1>3. /\ f \in Fats /\ d \in DataAreas /\ FatOK(f) /\ Acyclic(f)
        /\ op.need \in Nat /\ op \in Ops /\ cnt \in Nat /\ Sound(op)
        /\ ~growing /\ copy = 1 /\ pc = "data"
    <2>1. pc = "data"
      BY DEF WriteCluster
    <2>2. ~growing /\ copy = 1 /\ Sound(op)
      BY <2>1, Numbers DEF DiskInv, PhaseInv, TypeInv, OpInv
    <2> QED BY <1>2, <2>1, <2>2, At1 DEF TreeInv, FatOK
  <1>4. PICK s \in Seq(DataClusters) : Building(s) /\ op.need > 0
    BY <1>3 DEF DiskInv, BuildInv
  <1>5. /\ Len(s) = op.need /\ h = s[1] /\ f[s[Len(s)]] = EOC
        /\ \A i \in 1..(Len(s) - 1) : f[s[i]] = s[i + 1]
        /\ cnt < op.need /\ c = s[cnt + 1]
    BY <1>2, <1>3, <1>4 DEF Building
  <1>6. ChainIn(f, h) = s /\ h \in DataClusters /\ c \in In(f, h) /\ c \in DataClusters
        /\ \A i, j \in 1..Len(s) : s[i] = s[j] => i = j
    <2>1. Len(s) \in Nat /\ Len(s) >= 1 /\ cnt + 1 \in 1..Len(s) /\ EOC \notin DataClusters
      BY <1>3, <1>4, <1>5, Numbers
    <2>2. Run(f, h, s) /\ Ends(f, s)
      BY <1>5, <2>1 DEF Run, Ends
    <2> QED BY <1>3, <1>5, <2>1, <2>2, ChainIs, RunIn, RunDistinct
  <1>7. e \in DataAreas /\ e[c] = z /\ \A b \in DataClusters : b # c => e[b] = d[b]
    <2>1. WroteCluster(d, c, z, e)
      BY <1>2 DEF WriteCluster, WroteCluster
    <2>2. z \in [1..ClusterUnits -> Units]
      BY <1>2, <1>3, ChunkType
    <2> QED BY <1>3, <1>6, <2>1, <2>2 DEF WroteCluster, DataAreas
  <1>8. /\ UNCHANGED <<fat, op, copy, head, growing, bad, reused>>
        /\ \/ /\ pc' = "add" /\ (cnt + 1) * ClusterUnits >= Len(op.payload)
           \/ pc' = "data" /\ cnt' = cnt + 1
    BY <1>3 DEF WriteCluster, histVars
  <1>9. /\ ~Clearing /\ ~Clearing' /\ Active /\ Active' /\ ~Fresh /\ ~Fresh' /\ Suspects' = Suspects
        /\ pc' # "done"
    BY <1>3, <1>8 DEF Clearing, Active, Fresh, Suspects
  <1>10. /\ Tree(f, d, T, X) /\ Owners(f, d, X) /\ Damage(f, d, T, X, Suspects) /\ DamageInv(X)
         /\ Parent(op.path) \in DOMAIN T /\ T[Parent(op.path)] = op.parent /\ MakeInv(X)
    BY <1>1, <1>2, <1>9 DEF StructInv
  <1>11. NotThere /\ Loose(f, d, X, h) /\ f[h] # Free /\ Filled(cnt)
    BY <1>2, <1>3, <1>4, <1>6, <1>9, <1>10, Numbers DEF MakeInv
  <1>12. SameTree(f, d, f, e, T) /\ Owners(f, e, X)
    <2>1. \A p \in DOMAIN T : c \notin In(f, T[p])
      BY <1>3, <1>6, <1>10, <1>11, LooseApart
    <2>2. \A u \in 1..ClusterUnits : e[c][u].k # "entry"
      BY <1>2, <1>3, <1>7, ChunkPlain
    <2> QED BY <1>3, <1>6, <1>7, <1>10, <2>1, <2>2, DataOutside
  <1>13. X \subseteq EntrySlots(d)
    BY <1>10 DEF Damage
  <1>14. Tree(f, e, T, X) /\ Damage(f, e, T, X, Suspects) /\ Heads(e, X) = Heads(d, X)
    BY <1>10, <1>12, <1>13, TreeSame
  <1>15. /\ Holds(f, e, op.parent) = Holds(f, d, op.parent)
         /\ \A x \in EntrySlots(d) : At(e, x) = At(d, x)
    BY <1>10, <1>12 DEF SameTree
  <1>16. \A b : Loose(f, d, X, b) => Loose(f, e, X, b)
    BY <1>14 DEF Loose
  <1>17. DamageInv(X)'
    <2>1. ~reused => X = {}
      <3>1. head # 0
        BY <1>2, <1>6, Numbers
      <3> QED BY <1>9, <1>10, <3>1 DEF DamageInv
    <2>2. CASE reused
      BY <1>8, <2>2 DEF DamageInv
    <2>3. CASE ~reused
      BY <2>1, <2>3 DEF DamageInv
    <2> QED BY <2>2, <2>3
  <1>18. \A i \in 1..(cnt + 1) : e[s[i]] = ChunkOf(op, i - 1)
    <2>1. ASSUME NEW i \in 1..(cnt + 1) PROVE e[s[i]] = ChunkOf(op, i - 1)
      <3>1. i \in 1..Len(s) /\ cnt + 1 \in 1..Len(s) /\ s[i] \in DataClusters
        BY <1>3, <1>5
      <3>2. CASE i = cnt + 1
        <4>1. i - 1 = cnt
          BY <1>3, <3>2
        <4> QED BY <1>2, <1>3, <1>5, <1>7, <3>2, <4>1, ChunkPlain
      <3>3. CASE i # cnt + 1
        <4>1. i \in 1..cnt /\ s[i] # c
          BY <1>3, <1>5, <1>6, <3>1, <3>3
        <4>2. d[s[i]] = ChunkOf(op, i - 1)
          BY <1>2, <1>6, <1>11, <4>1 DEF Filled
        <4> QED BY <1>7, <3>1, <4>1, <4>2
      <3> QED BY <3>2, <3>3
    <2> QED BY <2>1
  <1>19. (cnt + 1) * ClusterUnits >= Len(op.payload) => cnt + 1 = op.need
    <2> DEFINE n == Len(op.payload)
               q == cnt + 1
    <2> SUFFICES ASSUME q * ClusterUnits >= n PROVE q = op.need
      OBVIOUS
    <2>1. n \in Nat /\ q \in Nat /\ ClusterUnits \in Nat /\ q <= op.need
      BY <1>3, <1>5, Numbers DEF Ops
    <2>2. CASE op.mkdir
      <3>1. op.need = 1
        BY <1>3, <2>2 DEF Sound
      <3> QED BY <1>3, <2>1, <3>1
    <2>3. CASE ~op.mkdir
      <3>1. op.need = ClustersFor(n) /\ (ClustersFor(n) - 1) * ClusterUnits < n
        BY <1>3, <2>1, <2>3, ClustersForFacts DEF Sound
      <3>2. PICK m : m = op.need
        OBVIOUS
      <3>3. m \in Nat /\ (m - 1) * ClusterUnits < n /\ q <= m
        BY <1>3, <2>1, <3>1, <3>2
      <3> HIDE DEF q, n
      <3>4. ASSUME q # m PROVE FALSE
        <4>1. q <= m - 1
          BY <2>1, <3>3, <3>4
        <4>2. q * ClusterUnits <= (m - 1) * ClusterUnits
          BY <2>1, <3>3, <4>1
        <4>3. q * ClusterUnits \in Int /\ (m - 1) * ClusterUnits \in Int
          BY <2>1, <3>3
        <4> QED BY <2>1, <3>3, <4>2, <4>3
      <3> QED BY <3>2, <3>4
    <2> QED BY <2>2, <2>3
  <1>20. MakeInv(X)'
    <2>1. NotThere'
      <3>1. \A x \in Holds(f, d, op.parent) : x \in EntrySlots(d)
        BY DEF Holds
      <3> QED BY <1>2, <1>8, <1>11, <1>15, <3>1 DEF NotThere
    <2>2. f = fat'[1] /\ e = data' /\ h = head' /\ op' = op /\ ~growing'
      BY <1>2, <1>3, <1>8
    <2>3. pc' = "data" => Filled(cnt)'
      BY <1>5, <1>6, <1>8, <1>18, <2>2 DEF Filled
    <2>4. pc' = "add" => Filled(op.need)'
      BY <1>5, <1>6, <1>8, <1>18, <1>19, <2>2 DEF Filled
    <2>5. Loose(f, e, X, h)
      BY <1>11, <1>16
    <2> QED BY <1>8, <1>9, <1>11, <2>1, <2>2, <2>3, <2>4, <2>5 DEF MakeInv
  <1>21. StructInv(T, X)'
    <2>1. ClearInv(X)' /\ DoneInv(X)'
      BY <1>9 DEF ClearInv, DoneInv
    <2>2. f = fat'[1] /\ e = data' /\ op' = op
      BY <1>2, <1>8
    <2> QED BY <1>9, <1>10, <1>12, <1>14, <1>17, <1>20, <2>1, <2>2 DEF StructInv
  <1>22. Stays
    <2>1. \A k \in Heads(d, X) : k # 0 => In(f, h) \cap In(f, k) = {}
      BY <1>3, <1>6, <1>10, <1>11, LooseApart
    <2>2. \A k \in Heads(d, X) : k # 0 => c \notin In(f, k)
      BY <1>6, <2>1
    <2>3. FilesKept(f, d, f, e, X)
      BY <1>3, <1>7, <1>10, <2>2, FileFrame
    <2>4. Alike(f, d, f, e, T)
      BY <1>10, <1>12, TreeSame
    <2>5. Stay(f, d, f, e, T, X, Suspects, op.path)
      BY <1>3, <1>7, <1>10, <2>3, <2>4, AlikeStays
    <2> QED BY <1>2, <1>8, <2>5 DEF Stays
  <1> QED BY <1>2, <1>3, <1>8, <1>21, <1>22 DEF TreeInv

\* e is d but for the slot x.
Changed(d, x, u, e) == At(e, x) = u /\ \A y \in Slots : y # x => At(e, y) = At(d, y)

\* The write of one slot, as SetSlot makes it.
LEMMA SlotChanged ==
    ASSUME NEW d \in DataAreas, NEW x \in Slots, NEW u \in Units, NEW e,
           WroteUnit(d, x[1], x[2], u, e)
    PROVE  /\ e \in DataAreas /\ Changed(d, x, u, e)
           /\ \A c \in DataClusters : c # x[1] => e[c] = d[c]
  <1>1. x[1] \in DataClusters /\ x[2] \in 1..ClusterUnits /\ x = <<x[1], x[2]>>
    BY DEF Slots
  <1>2. PICK c, i : c = x[1] /\ i = x[2]
    OBVIOUS
  <1>3. /\ e \in DataAreas
        /\ \A y \in DataClusters, j \in 1..ClusterUnits :
              e[y][j] = IF y = c /\ j = i THEN u ELSE d[y][j]
        /\ \A y \in DataClusters : y # c => e[y] = d[y]
    BY <1>1, <1>2 DEF WroteUnit, DataAreas
  <1>4. At(e, x) = u
    BY <1>1, <1>2, <1>3 DEF At
  <1>5. ASSUME NEW y \in Slots, y # x PROVE At(e, y) = At(d, y)
    <2>1. y[1] \in DataClusters /\ y[2] \in 1..ClusterUnits /\ y = <<y[1], y[2]>>
      BY DEF Slots
    <2>2. ~(y[1] = c /\ y[2] = i)
      BY <1>1, <1>2, <1>5, <2>1
    <2> QED BY <1>3, <2>1, <2>2 DEF At
  <1> QED BY <1>2, <1>3, <1>4, <1>5 DEF Changed

\* It is one unit of what read_chain returns of the directory.
LEMMA SlotUnits ==
    ASSUME NEW f \in Fats, Acyclic(f), NEW d \in DataAreas, NEW e \in DataAreas,
           NEW x \in Slots, NEW u, Changed(d, x, u, e), NEW h \in DataClusters
    PROVE  LET s == UnitsIn(f, d, h)
               t == UnitsIn(f, e, h)
               ch == ChainIn(f, h)
           IN  /\ Len(t) = Len(s) /\ Len(s) \in Nat
               /\ \A j \in 1..Len(s) : t[j] = IF Place(ch, j) = x THEN u ELSE s[j]
  <1> DEFINE s == UnitsIn(f, d, h)
             t == UnitsIn(f, e, h)
             ch == ChainIn(f, h)
  <1>1. /\ Len(s) \in Nat
        /\ \A j \in 1..Len(s) : Place(ch, j) \in Slots /\ s[j] = At(d, Place(ch, j))
    BY SlotPlaces
  <1>2. \A j \in 1..Len(t) : t[j] = At(e, Place(ch, j))
    BY SlotPlaces
  <1>3. Len(t) = Len(s)
    BY UnitsFacts
  <1> HIDE DEF s, t, ch
  <1>4. \A j \in 1..Len(s) : t[j] = IF Place(ch, j) = x THEN u ELSE s[j]
    BY <1>1, <1>2, <1>3 DEF Changed
  <1> QED BY <1>1, <1>3, <1>4 DEF s, t, ch

\* A damaged entry is deleted.
LEMMA EntryDeleted ==
    ASSUME NEW f \in Fats, FatOK(f), NEW d \in DataAreas, NEW e \in DataAreas,
           NEW T, NEW X, Tree(f, d, T, X), Owners(f, d, X), X \subseteq EntrySlots(d),
           NEW x \in X, Changed(d, x, Del, e), NEW Y, Y = X \ {x}
    PROVE  /\ Tree(f, e, T, Y) /\ Owners(f, e, Y) /\ Heads(e, Y) = Heads(d, X)
           /\ EntrySlots(e) = EntrySlots(d) \ {x}
           /\ \A h : Holds(f, e, h) = Holds(f, d, h) \ {x}
           /\ \A y \in EntrySlots(e) : At(e, y) = At(d, y)
  <1>0. Acyclic(f) /\ x \in Slots /\ At(d, x).k = "entry"
    BY EntryAt DEF FatOK
  <1>1. EntrySlots(e) = EntrySlots(d) \ {x} /\ \A y \in EntrySlots(e) : At(e, y) = At(d, y)
    BY EntryUnits DEF Changed, EntrySlots
  <1>2. \A h : Holds(f, e, h) = Holds(f, d, h) \ {x}
    BY <1>1 DEF Holds
  <1>3. EntrySlots(e) \ Y = EntrySlots(d) \ X
    BY <1>1
  <1>4. \A y \in EntrySlots(d) \ X : At(e, y) = At(d, y)
    BY <1>1
  <1>5. Heads(e, Y) = Heads(d, X)
    BY <1>3, <1>4 DEF Heads
  <1>6. Owners(f, e, Y)
    BY <1>3, <1>4 DEF Owners
  <1>7. \A h : Holds(f, e, h) \ Y = Holds(f, d, h) \ X
    BY <1>2
  <1>8. ASSUME NEW p \in DOMAIN T PROVE DirOK(f, e, T[p])
    <2> DEFINE h == T[p]
               s == UnitsIn(f, d, h)
               t == UnitsIn(f, e, h)
               ch == ChainIn(f, h)
    <2>1. h \in DataClusters /\ DirOK(f, d, h)
      BY DEF Tree
    <2>2. /\ Len(t) = Len(s) /\ Len(s) \in Nat
          /\ \A j \in 1..Len(s) : t[j] = IF Place(ch, j) = x THEN Del ELSE s[j]
      BY <1>0, <2>1, SlotUnits
    <2>3. \A j \in 1..Len(s) : s[j] = At(d, Place(ch, j))
      BY <1>0, <2>1, SlotPlaces
    <2>4. Tidy(s) /\ \A y, z \in Holds(f, d, h) : At(d, y).name = At(d, z).name => y = z
      BY <2>1 DEF DirOK
    <2> HIDE DEF s, t, ch
    <2>5. Del.k # "byte" /\ Del # End /\ At(d, x) # End
      BY <1>0, EntryUnits DEF Del, End
    <2>6. \A j \in 1..Len(s) : /\ s[j] = End <=> t[j] = End
                               /\ t[j].k # "byte"
      BY <2>2, <2>3, <2>4, <2>5 DEF Tidy
    <2>7. Tidy(t)
      BY <2>2, <2>4, <2>6 DEF Tidy
    <2>8. \A y, z \in Holds(f, e, h) : At(e, y).name = At(e, z).name => y = z
      <3>1. \A y \in Holds(f, e, h) : y \in Holds(f, d, h) /\ At(e, y) = At(d, y)
        BY <1>1, <1>2 DEF Holds
      <3> QED BY <2>4, <3>1
    <2> QED BY <2>7, <2>8 DEF DirOK, t
  <1>9. \A p \in DOMAIN T : p # <<>> =>
          /\ Parent(p) \in DOMAIN T
          /\ \E y \in Holds(f, e, T[Parent(p)]) \ Y :
                At(e, y).dir /\ At(e, y).name = Last(p) /\ At(e, y).cluster = T[p]
    <2>1. ASSUME NEW p \in DOMAIN T, p # <<>>
          PROVE  /\ Parent(p) \in DOMAIN T
                 /\ \E y \in Holds(f, e, T[Parent(p)]) \ Y :
                       At(e, y).dir /\ At(e, y).name = Last(p) /\ At(e, y).cluster = T[p]
      <3>1. /\ Parent(p) \in DOMAIN T
            /\ \E y \in Holds(f, d, T[Parent(p)]) \ X :
                  At(d, y).dir /\ At(d, y).name = Last(p) /\ At(d, y).cluster = T[p]
        BY <2>1 DEF Tree
      <3>2. \A y \in Holds(f, d, T[Parent(p)]) \ X : At(e, y) = At(d, y)
        BY <1>4 DEF Holds
      <3> QED BY <1>7, <3>1, <3>2
    <2> QED BY <2>1
  <1>10. \A p \in DOMAIN T : \A y \in Holds(f, e, T[p]) \ Y : At(e, y).dir =>
          /\ Append(p, At(e, y).name) \in DOMAIN T
          /\ T[Append(p, At(e, y).name)] = At(e, y).cluster
    <2>1. ASSUME NEW p \in DOMAIN T, NEW y \in Holds(f, e, T[p]) \ Y, At(e, y).dir
          PROVE  /\ Append(p, At(e, y).name) \in DOMAIN T
                 /\ T[Append(p, At(e, y).name)] = At(e, y).cluster
      <3>1. y \in Holds(f, d, T[p]) \ X /\ At(e, y) = At(d, y)
        BY <1>4, <1>7 DEF Holds
      <3> QED BY <2>1, <3>1 DEF Tree
    <2> QED BY <2>1
  <1>11. \A y \in EntrySlots(e) : \E p \in DOMAIN T : y \in Holds(f, e, T[p])
    BY <1>1, <1>2 DEF Tree
  <1>12. Tree(f, e, T, Y)
    BY <1>8, <1>9, <1>10, <1>11 DEF Tree
  <1> QED BY <1>1, <1>2, <1>5, <1>6, <1>12

\* delete_dir_entry deletes the entry that the operation found.
LEMMA DeleteHits ==
    ASSUME NEW f \in Fats, Acyclic(f), NEW d \in DataAreas, NEW h \in DataClusters,
           DirOK(f, d, h), NEW x \in Holds(f, d, h), NEW j \in 1..Len(UnitsIn(f, d, h)),
           NEW n, At(d, x).name = n,
           \A i \in 1..(j - 1) : LET u == UnitsIn(f, d, h)[i]
                                 IN  u # End /\ ~(u.k = "entry" /\ u.name = n)
    PROVE  /\ UnitsIn(f, d, h)[j] # End
           /\ UnitsIn(f, d, h)[j].k = "entry" /\ UnitsIn(f, d, h)[j].name = n =>
                 Place(ChainIn(f, h), j) = x
  <1> DEFINE s == UnitsIn(f, d, h)
             ch == ChainIn(f, h)
  <1>1. /\ Len(s) \in Nat
        /\ \A i \in 1..Len(s) : /\ Place(ch, i) \in Slots /\ Place(ch, i)[1] \in In(f, h)
                                /\ s[i] = At(d, Place(ch, i))
        /\ \A y \in Slots : y[1] \in In(f, h) => \E i \in 1..Len(s) : Place(ch, i) = y
    BY SlotPlaces
  <1>2. x \in Slots /\ x[1] \in In(f, h) /\ At(d, x).k = "entry"
    BY DEF Holds, EntrySlots
  <1>3. /\ \A i, k \in 1..Len(s) : i < k /\ s[i] = End => s[k] = End
        /\ \A y, z \in Holds(f, d, h) : At(d, y).name = At(d, z).name => y = z
    BY DEF DirOK, Tidy
  <1> HIDE DEF s, ch
  <1>4. PICK k : k \in 1..Len(s) /\ Place(ch, k) = x
    BY <1>1, <1>2
  <1>5. s[k] # End /\ s[k].k = "entry" /\ s[k].name = n
    BY <1>1, <1>2, <1>4, EntryUnits
  <1>6. j \in 1..Len(s) /\ \A i \in 1..(j - 1) : ~(s[i].k = "entry" /\ s[i].name = n)
    BY DEF s
  <1>7. ~(k < j)
    BY <1>1, <1>4, <1>5, <1>6
  <1>8. s[j] # End
    <2>1. j = k \/ j < k
      BY <1>1, <1>4, <1>6, <1>7
    <2> QED BY <1>3, <1>4, <1>5, <1>6, <2>1
  <1>9. ASSUME s[j].k = "entry", s[j].name = n PROVE Place(ch, j) = x
    <2>1. Place(ch, j) \in Holds(f, d, h)
      BY <1>1, <1>6, <1>9 DEF Holds, EntrySlots
    <2>2. At(d, Place(ch, j)).name = n
      BY <1>1, <1>6, <1>9
    <2> QED BY <1>3, <2>1, <2>2
  <1> QED BY <1>8, <1>9 DEF s, ch

\* The entry that the operation found is still there to be deleted.
LEMMA EntryIsFound ==
    ASSUME DiskInv, TreeInv
    PROVE  ~NotFound
  <1> SUFFICES ASSUME NotFound PROVE FALSE
    OBVIOUS
  <1>1. PICK T, X : StructInv(T, X)
    BY DEF TreeInv
  <1>2. PICK f, d, par, n : f = fat[1] /\ d = data /\ par = op.parent /\ n = Last(op.path)
    OBVIOUS
  <1>3. /\ f \in Fats /\ d \in DataAreas /\ Acyclic(f) /\ pc = "delete"
        /\ par \in DataClusters
    <2>1. pc = "delete"
      BY DEF NotFound
    <2>2. Sound(op)
      BY <2>1 DEF DiskInv, OpInv
    <2> QED BY <1>2, <2>1, <2>2, At1, Numbers DEF TreeInv, FatOK, Sound
  <1>4. Clearing
    BY <1>3 DEF Clearing, Active
  <1>5. PICK x : x \in X /\ x \in Holds(f, d, par) /\ At(d, x).name = n
    BY <1>1, <1>2, <1>4 DEF StructInv, ClearInv
  <1>6. x \in Slots /\ x[1] \in In(f, par) /\ At(d, x).k = "entry"
    BY <1>5 DEF Holds, EntrySlots
  <1> DEFINE s == UnitsIn(f, d, par)
             ch == ChainIn(f, par)
  <1>7. PICK i \in 1..Len(s) : Place(ch, i) = x /\ s[i] = At(d, Place(ch, i))
    BY <1>3, <1>6, SlotPlaces
  <1>8. s = ReadChain(op.parent)
    BY <1>2, UnitsNow
  <1> HIDE DEF s, ch
  <1> QED BY <1>2, <1>5, <1>6, <1>7, <1>8 DEF NotFound, IsEntry

\* delete_dir_entry keeps the tree: the damaged entry goes.
LEMMA DeleteTree ==
    ASSUME DiskInv, TreeInv, Deletes
    PROVE  TreeInv' /\ Stays
  <1>1. PICK T, X : StructInv(T, X)
    BY DEF TreeInv
  <1>2. PICK f, d, e, par, n, p0 : /\ f = fat[1] /\ d = data /\ e = data' /\ par = op.parent
                                   /\ n = Last(op.path) /\ p0 = op.path
    OBVIOUS
  <1>3. /\ f \in Fats /\ d \in DataAreas /\ FatOK(f) /\ Acyclic(f) /\ op \in Ops /\ Sound(op)
        /\ pc = "delete" /\ head = 0 /\ copy = 1 /\ ~growing /\ op.need \in Nat
        /\ par \in DataClusters /\ p0 \in Seq(Names) /\ p0 # <<>>
    <2>1. pc = "delete"
      BY DEF Deletes
    <2>2. Sound(op) /\ head = 0 /\ ~growing /\ copy = 1
      BY <2>1, At1, Numbers DEF DiskInv, OpInv, PhaseInv
    <2> QED BY <1>2, <2>1, <2>2, At1 DEF TreeInv, FatOK, Sound
  <1>4. /\ UNCHANGED <<fat, op, cl, nxt, copy, head, tail, cnt, growing, bad, reused>>
        /\ pc' = AfterDelete(op) /\ pc' \in {"mark", "add", "done"}
        /\ (pc' \in {"add", "done"} => op.need = 0) /\ (pc' = "done" => ~op.add)
    <2>1. pc' = AfterDelete(op)
      BY DEF Deletes
    <2> QED BY <1>3, <2>1, AfterFacts DEF Deletes, regVars, histVars
  <1>5. /\ Clearing /\ ~Clearing' /\ Active /\ Active' /\ ~Fresh'
        /\ Suspects = bad \cup {p0} /\ Suspects' = bad \ {p0}
    BY <1>2, <1>3, <1>4 DEF Clearing, Active, Fresh, Suspects
  <1>6. /\ Tree(f, d, T, X) /\ Owners(f, d, X) /\ Damage(f, d, T, X, bad \cup {p0}) /\ DamageInv(X)
        /\ Parent(p0) \in DOMAIN T /\ T[Parent(p0)] = par /\ ClearInv(X)
    BY <1>1, <1>2, <1>5 DEF StructInv
  <1>7. PICK x : x \in X /\ x \in Holds(f, d, par) /\ At(d, x).name = n
    BY <1>2, <1>5, <1>6 DEF ClearInv
  <1>8. DirOK(f, d, par) /\ X \subseteq EntrySlots(d)
    BY <1>6 DEF Tree, Damage
  <1>9. /\ e \in DataAreas /\ Changed(d, x, Del, e)
        /\ \A b \in DataClusters : b # x[1] => e[b] = d[b]
    <2> DEFINE ch == ChainIn(f, par)
               s  == UnitsIn(f, d, par)
               Named(u) == u.k = "entry" /\ u.name = n
    <2>1. \E j \in 1..Len(s) :
             /\ \A i \in 1..(j - 1) : s[i] # End /\ ~Named(s[i])
             /\ \/ s[j] = End /\ e = d
                \/ /\ Named(s[j])
                   /\ WroteUnit(d, Place(ch, j)[1], Place(ch, j)[2], Del, e)
      BY <1>2, <1>3, DeleteEffect
    <2>2. PICK j : /\ j \in 1..Len(s)
                   /\ \A i \in 1..(j - 1) : s[i] # End /\ ~Named(s[i])
                   /\ \/ s[j] = End /\ e = d
                      \/ /\ Named(s[j])
                         /\ WroteUnit(d, Place(ch, j)[1], Place(ch, j)[2], Del, e)
      BY <2>1
    <2>3. s[j] # End /\ (Named(s[j]) => Place(ch, j) = x)
      BY <1>3, <1>7, <1>8, <2>2, DeleteHits
    <2>4. WroteUnit(d, x[1], x[2], Del, e)
      BY <2>2, <2>3
    <2>5. x \in Slots /\ Del \in Units
      BY <1>3, <1>7, <1>8, EntryAt, EntryUnits
    <2> QED BY <1>3, <2>4, <2>5, SlotChanged
  <1>20. PICK Y : Y = X \ {x}
    OBVIOUS
  <1>21. e \in DataAreas /\ Changed(d, x, Del, e)
    BY <1>9
  <1>10. /\ Tree(f, e, T, Y) /\ Owners(f, e, Y) /\ Heads(e, Y) = Heads(d, X)
         /\ EntrySlots(e) = EntrySlots(d) \ {x}
         /\ \A h : Holds(f, e, h) = Holds(f, d, h) \ {x}
         /\ \A y \in EntrySlots(e) : At(e, y) = At(d, y)
    BY <1>3, <1>6, <1>7, <1>8, <1>20, <1>21, EntryDeleted
  <1>11. \A y \in Holds(f, d, par) : At(d, y).name = n => y = x
    BY <1>7, <1>8 DEF DirOK
  <1>12. Damage(f, e, T, Y, bad \ {p0})
    <2>1. Y \subseteq EntrySlots(e)
      BY <1>8, <1>10, <1>20
    <2>2. ASSUME NEW y \in Y
          PROVE  \E p \in DOMAIN T : y \in Holds(f, e, T[p]) /\ Append(p, At(e, y).name) \in bad \ {p0}
      <3>1. PICK p \in DOMAIN T :
               y \in Holds(f, d, T[p]) /\ Append(p, At(d, y).name) \in bad \cup {p0}
        BY <1>6, <1>20 DEF Damage
      <3>2. y \in Holds(f, e, T[p]) /\ At(e, y) = At(d, y)
        BY <1>10, <2>1, <3>1
      <3>3. Append(p, At(d, y).name) # p0
        <4> SUFFICES ASSUME Append(p, At(d, y).name) = p0 PROVE FALSE
          OBVIOUS
        <4>1. p \in Seq(Names) /\ At(d, y).name \in Names
          BY <1>3, <1>6, <1>8, <1>20, EntryAt DEF Tree
        <4>2. PICK m : m = At(d, y).name
          OBVIOUS
        <4>3. Parent(Append(p, m)) = p /\ Last(Append(p, m)) = m
          BY <4>1, <4>2, PathSplit
        <4>4. p = Parent(p0) /\ At(d, y).name = n
          BY <1>2, <4>2, <4>3
        <4> QED BY <1>6, <1>11, <1>20, <3>1, <4>4
      <3> QED BY <3>1, <3>2, <3>3
    <2> QED BY <2>1, <2>2 DEF Damage
  <1>13. NotThere'
    <2>1. ASSUME NEW y \in Holds(f, e, par) PROVE At(e, y).name # n
      <3>1. y \in EntrySlots(e) /\ y \in Holds(f, d, par) /\ y # x
        BY <1>10 DEF Holds
      <3> QED BY <1>10, <1>11, <3>1
    <2> QED BY <1>2, <1>4, <2>1 DEF NotThere
  <1>14. f = fat'[1] /\ e = data' /\ op' = op /\ head' = 0 /\ ~growing' /\ reused' = reused
    BY <1>2, <1>3, <1>4
  <1>15. DamageInv(Y)'
    <2>1. ASSUME ~reused, NEW y \in Y, At(e, y).cluster # 0
          PROVE  Loose(f, e, Y, At(e, y).cluster)
      <3>1. At(e, y) = At(d, y)
        BY <1>8, <1>10, <1>20
      <3>2. Loose(f, d, X, At(d, y).cluster)
        BY <1>2, <1>6, <1>20, <2>1, <3>1 DEF DamageInv
      <3> QED BY <1>10, <3>1, <3>2 DEF Loose
    <2> QED BY <1>5, <1>14, <2>1 DEF DamageInv
  <1>16. MakeInv(Y)' /\ DoneInv(Y)' /\ ClearInv(Y)'
    <2>1. MakeInv(Y)'
      BY <1>4, <1>5, <1>13, <1>14 DEF MakeInv
    <2>2. DoneInv(Y)'
      BY <1>4, <1>13, <1>14 DEF DoneInv
    <2> QED BY <1>5, <2>1, <2>2 DEF ClearInv
  <1>17. StructInv(T, Y)'
    BY <1>2, <1>5, <1>6, <1>10, <1>12, <1>14, <1>15, <1>16 DEF StructInv
  <1>18. Stays
    <2>1. Append(Parent(p0), n) = p0 /\ x[1] \in In(f, T[Parent(p0)])
      BY <1>2, <1>3, <1>6, <1>7, PathSplit DEF Holds
    <2>2. FilesKept(f, d, f, e, X)
      BY <1>3, <1>6, <1>9, <2>1, FileFrame
    <2>3. \A p \in DOMAIN T : DirOK(f, e, T[p])
      BY <1>10 DEF Tree
    <2>4. ASSUME NEW p \in DOMAIN T, NEW y \in Holds(f, d, T[p]), Append(p, At(d, y).name) # p0
          PROVE  y \in Holds(f, e, T[p]) /\ At(e, y) = At(d, y)
      <3>1. y # x
        <4> SUFFICES ASSUME y = x PROVE FALSE
          OBVIOUS
        <4>1. p = Parent(p0)
          BY <1>3, <1>6, <1>7, <2>4, Structure
        <4> QED BY <1>7, <2>1, <2>4, <4>1
      <3>2. y \in Holds(f, e, T[p]) /\ y \in EntrySlots(e)
        BY <1>10, <3>1 DEF Holds
      <3> QED BY <1>10, <3>2
    <2>5. \A p \in DOMAIN T : \A y \in Holds(f, e, T[p]) :
             y \in Holds(f, d, T[p]) /\ At(e, y) = At(d, y)
      BY <1>10 DEF Holds
    <2>6. Keeps(f, d, f, e, T, X, p0)
      BY <2>2, <2>3, <2>4, <2>5 DEF Keeps
    <2>7. Damage(f, d, T, X, Suspects)
      BY <1>5, <1>6
    <2>8. Stay(f, d, f, e, T, X, Suspects, p0)
      BY <1>3, <1>6, <1>9, <2>6, <2>7 DEF Stay
    <2> QED BY <1>2, <1>14, <2>8 DEF Stays
  <1> QED BY <1>3, <1>14, <1>17, <1>18 DEF TreeInv

\* The entry u with a complete chain is put into the first free slot x of the
\* directory q, which has no entry of its name.
Puts(f, d, e, T, X, q, x, u) ==
    /\ Tree(f, d, T, X) /\ Owners(f, d, X) /\ X \subseteq EntrySlots(d) /\ q \in DOMAIN T
    /\ x \in Slots /\ x[1] \in In(f, T[q]) /\ At(d, x) \in FreeSlots
    /\ u \in Entries /\ Changed(d, x, u, e)
    /\ \E j \in 1..Len(UnitsIn(f, d, T[q])) :
          /\ Place(ChainIn(f, T[q]), j) = x
          /\ \A i \in 1..(j - 1) : UnitsIn(f, d, T[q])[i] # End
    /\ \A y \in Holds(f, d, T[q]) : At(d, y).name # u.name
    /\ u.cluster # 0 => Loose(f, d, X, u.cluster) /\ f[u.cluster] # Free
    /\ ~u.dir => Sized(f, u)
    /\ u.dir => Tidy(UnitsIn(f, d, u.cluster))

\* A directory with one more entry in a free slot is still well formed.
LEMMA EntryPut ==
    ASSUME NEW f \in Fats, FatOK(f), NEW d \in DataAreas, NEW e \in DataAreas,
           NEW T, NEW X, NEW q, NEW x, NEW u, Puts(f, d, e, T, X, q, x, u)
    PROVE  /\ EntrySlots(e) = EntrySlots(d) \cup {x} /\ x \notin EntrySlots(d)
           /\ At(e, x) = u /\ \A y \in EntrySlots(d) : At(e, y) = At(d, y)
           /\ Holds(f, e, T[q]) = Holds(f, d, T[q]) \cup {x}
           /\ \A p \in DOMAIN T : p # q => Holds(f, e, T[p]) = Holds(f, d, T[p])
           /\ \A p \in DOMAIN T : DirOK(f, e, T[p])
           /\ Heads(e, X) = Heads(d, X) \cup {u.cluster}
           /\ Owners(f, e, X)
  <1>0. /\ Tree(f, d, T, X) /\ Owners(f, d, X) /\ X \subseteq EntrySlots(d) /\ q \in DOMAIN T
        /\ x \in Slots /\ x[1] \in In(f, T[q]) /\ At(d, x) \in FreeSlots
        /\ u \in Entries /\ Changed(d, x, u, e)
        /\ \A y \in Holds(f, d, T[q]) : At(d, y).name # u.name
        /\ Acyclic(f)
    BY DEF Puts, FatOK
  <1>1. u.k = "entry" /\ u # End /\ u.k # "byte" /\ At(d, x).k # "entry"
    BY <1>0, EntryUnits DEF FreeSlots
  <1>2. /\ EntrySlots(e) = EntrySlots(d) \cup {x} /\ x \notin EntrySlots(d)
        /\ At(e, x) = u /\ \A y \in EntrySlots(d) : At(e, y) = At(d, y)
    BY <1>0, <1>1 DEF Changed, EntrySlots
  <1>3. Holds(f, e, T[q]) = Holds(f, d, T[q]) \cup {x}
    BY <1>0, <1>2 DEF Holds
  <1>4. ASSUME NEW p \in DOMAIN T, p # q
        PROVE  Holds(f, e, T[p]) = Holds(f, d, T[p]) /\ x[1] \notin In(f, T[p])
    <2>1. T[p] # T[q]
      BY <1>0, <1>4 DEF Tree
    <2>2. x[1] \notin In(f, T[p])
      BY <1>0, <2>1, Structure
    <2> QED BY <1>2, <2>2 DEF Holds
  <1>5. ASSUME NEW p \in DOMAIN T PROVE DirOK(f, e, T[p])
    <2> DEFINE h == T[p]
               s == UnitsIn(f, d, h)
               t == UnitsIn(f, e, h)
               ch == ChainIn(f, h)
    <2>1. h \in DataClusters /\ DirOK(f, d, h)
      BY <1>0 DEF Tree
    <2>2. /\ Len(t) = Len(s) /\ Len(s) \in Nat
          /\ \A j \in 1..Len(s) : t[j] = IF Place(ch, j) = x THEN u ELSE s[j]
      BY <1>0, <2>1, SlotUnits
    <2>3. /\ \A j \in 1..Len(s) : Place(ch, j)[1] \in In(f, h)
          /\ \A i, j \in 1..Len(s) : Place(ch, i) = Place(ch, j) => i = j
      BY <1>0, <2>1, SlotPlaces
    <2>4. Tidy(s) /\ \A y, z \in Holds(f, d, h) : At(d, y).name = At(d, z).name => y = z
      BY <2>1 DEF DirOK
    <2>5. p = q => \E j \in 1..Len(s) : Place(ch, j) = x /\ \A i \in 1..(j - 1) : s[i] # End
      BY DEF Puts
    <2>6. \A y \in Holds(f, d, h) : y \in EntrySlots(d) /\ At(e, y) = At(d, y)
      BY <1>2 DEF Holds
    <2>7. CASE p # q
      <3>1. \A j \in 1..Len(s) : t[j] = s[j]
        BY <1>4, <2>2, <2>3, <2>7
      <3>2. Tidy(t)
        <4> HIDE DEF s, t
        <4> QED BY <2>2, <2>4, <3>1 DEF Tidy
      <3>3. Holds(f, e, h) = Holds(f, d, h)
        BY <1>4, <2>7
      <3> QED BY <2>4, <2>6, <3>2, <3>3 DEF DirOK
    <2>8. CASE p = q
      <3> HIDE DEF s, t, ch
      <3>1. PICK j : j \in 1..Len(s) /\ Place(ch, j) = x /\ \A i \in 1..(j - 1) : s[i] # End
        BY <2>5, <2>8
      <3>2. t[j] = u /\ \A i \in 1..Len(s) : i # j => t[i] = s[i]
        BY <2>2, <2>3, <3>1
      <3>3. \A i \in 1..Len(t) : t[i].k # "byte"
        BY <1>1, <2>2, <2>4, <3>2 DEF Tidy
      <3>4. ASSUME NEW i \in 1..Len(t), NEW k \in 1..Len(t), i < k, t[i] = End PROVE t[k] = End
        <4>1. i # j /\ s[i] = End /\ i \in 1..Len(s) /\ k \in 1..Len(s)
          BY <1>1, <2>2, <3>2, <3>4
        <4>2. j < i
          BY <2>2, <3>1, <4>1
        <4>3. k # j
          BY <2>2, <3>1, <3>4, <4>1, <4>2
        <4>4. s[k] = End
          BY <2>4, <3>4, <4>1 DEF Tidy
        <4> QED BY <3>2, <4>1, <4>3, <4>4
      <3>5. Tidy(t)
        BY <3>3, <3>4 DEF Tidy
      <3>6. \A y, z \in Holds(f, e, h) : At(e, y).name = At(e, z).name => y = z
        <4>1. \A y \in Holds(f, d, h) : At(e, y).name # u.name
          BY <1>0, <2>6, <2>8
        <4> QED BY <1>2, <1>3, <2>4, <2>6, <2>8, <4>1
      <3> QED BY <3>5, <3>6 DEF DirOK, t
    <2> QED BY <2>7, <2>8
  <1>6. EntrySlots(e) \ X = (EntrySlots(d) \ X) \cup {x}
    BY <1>0, <1>2
  <1>7. Heads(e, X) = Heads(d, X) \cup {u.cluster}
    BY <1>2, <1>6 DEF Heads
  <1>8. /\ u.cluster # 0 => u.cluster \notin Heads(d, X) /\ u.cluster # Root /\ Owner(f, u.cluster)
        /\ ~u.dir => Sized(f, u)
    BY DEF Puts, Loose, Owner, Heads
  <1>9. \A y \in EntrySlots(d) \ X : At(d, y).cluster \in Heads(d, X) /\ y # x
    BY <1>2 DEF Heads
  <1>10. \A y \in EntrySlots(d) \ X : At(e, y) = At(d, y)
    BY <1>2
  <1>11. Owners(f, e, X)
    <2>1. Owner(f, Root)
      BY <1>0 DEF Owners
    <2>2. \A y \in EntrySlots(e) \ X :
             At(e, y).cluster # 0 => At(e, y).cluster # Root /\ Owner(f, At(e, y).cluster)
      BY <1>0, <1>2, <1>6, <1>8, <1>10 DEF Owners
    <2>3. \A y \in EntrySlots(e) \ X : ~At(e, y).dir => Sized(f, At(e, y))
      BY <1>0, <1>2, <1>6, <1>8, <1>10 DEF Owners
    <2>4. \A y, z \in EntrySlots(e) \ X :
             At(e, y).cluster # 0 /\ At(e, y).cluster = At(e, z).cluster => y = z
      <3>1. ASSUME NEW y \in EntrySlots(e) \ X, NEW z \in EntrySlots(e) \ X,
                   At(e, y).cluster # 0, At(e, y).cluster = At(e, z).cluster
            PROVE  y = z
        <4>1. CASE y # x /\ z # x
          <5>1. y \in EntrySlots(d) \ X /\ z \in EntrySlots(d) \ X
            BY <1>6, <4>1
          <5>2. At(e, y) = At(d, y) /\ At(e, z) = At(d, z)
            BY <1>10, <5>1
          <5> QED BY <1>0, <3>1, <5>1, <5>2 DEF Owners
        <4>2. CASE y = x /\ z # x
          <5>1. z \in EntrySlots(d) \ X /\ At(e, z) = At(d, z)
            BY <1>6, <1>10, <4>2
          <5> QED BY <1>2, <1>8, <1>9, <3>1, <4>2, <5>1
        <4>3. CASE y # x /\ z = x
          <5>1. y \in EntrySlots(d) \ X /\ At(e, y) = At(d, y)
            BY <1>6, <1>10, <4>3
          <5> QED BY <1>2, <1>8, <1>9, <3>1, <4>3, <5>1
        <4> QED BY <4>1, <4>2, <4>3
      <3> QED BY <3>1
    <2> QED BY <2>1, <2>2, <2>3, <2>4 DEF Owners
  <1> QED BY <1>2, <1>3, <1>4, <1>5, <1>7, <1>11

\* The table of the directories with the new entry: a directory that is added
\* is one more.
Joins(T, q, u, V) ==
    IF u.dir
    THEN /\ DOMAIN V = DOMAIN T \cup {Append(q, u.name)} /\ V = [p \in DOMAIN V |-> V[p]]
         /\ V[Append(q, u.name)] = u.cluster /\ \A p \in DOMAIN T : p # Append(q, u.name) => V[p] = T[p]
    ELSE V = T

\* A new directory has a path of its own and no entries.
LEMMA DirNew ==
    ASSUME NEW f \in Fats, FatOK(f), NEW d \in DataAreas, NEW e \in DataAreas,
           NEW T, NEW X, NEW q, NEW x, NEW u, Puts(f, d, e, T, X, q, x, u), u.dir
    PROVE  /\ u.cluster \in DataClusters /\ u.name \in Names /\ q \in Seq(Names)
           /\ Append(q, u.name) \notin DOMAIN T
           /\ Holds(f, e, u.cluster) = {} /\ DirOK(f, e, u.cluster)
           /\ \A p \in DOMAIN T : T[p] # u.cluster
  <1>0. /\ Tree(f, d, T, X) /\ Owners(f, d, X) /\ X \subseteq EntrySlots(d) /\ q \in DOMAIN T
        /\ x \in Slots /\ x[1] \in In(f, T[q])
        /\ u \in Entries /\ Changed(d, x, u, e)
        /\ \A y \in Holds(f, d, T[q]) : At(d, y).name # u.name
        /\ Acyclic(f)
    BY DEF Puts, FatOK
  <1>1. u.cluster \in DataClusters /\ u.name \in Names /\ u.cluster # 0
    BY <1>0, Numbers DEF Entries
  <1>2. q \in Seq(Names)
    BY <1>0 DEF Tree
  <1>3. Append(q, u.name) \notin DOMAIN T
    <2> SUFFICES ASSUME Append(q, u.name) \in DOMAIN T PROVE FALSE
      OBVIOUS
    <2>1. PICK w : w = Append(q, u.name)
      OBVIOUS
    <2>2. w # <<>> /\ Parent(w) = q /\ Last(w) = u.name
      BY <1>1, <1>2, <2>1, PathSplit
    <2>3. \A p \in DOMAIN T : p # <<>> =>
             \E y \in Holds(f, d, T[Parent(p)]) \ X :
                At(d, y).dir /\ At(d, y).name = Last(p) /\ At(d, y).cluster = T[p]
      BY <1>0 DEF Tree
    <2>4. \E y \in Holds(f, d, T[q]) \ X : At(d, y).name = u.name
      BY <2>1, <2>2, <2>3
    <2> QED BY <1>0, <2>4
  <1>4. Loose(f, d, X, u.cluster) /\ Tidy(UnitsIn(f, d, u.cluster))
    BY <1>1 DEF Puts
  <1>5. In(f, u.cluster) \cap In(f, T[q]) = {} /\ Holds(f, d, u.cluster) = {}
    BY <1>0, <1>1, <1>4, LooseApart
  <1>6. x[1] \notin In(f, u.cluster)
    BY <1>0, <1>5
  <1>7. Holds(f, e, u.cluster) = {}
    <2>1. EntrySlots(e) = EntrySlots(d) \cup {x}
      BY EntryPut
    <2>2. \A y \in EntrySlots(d) : At(e, y) = At(d, y)
      BY EntryPut
    <2> QED BY <1>5, <1>6, <2>1, <2>2 DEF Holds
  <1>8. Tidy(UnitsIn(f, e, u.cluster))
    <2> DEFINE h == u.cluster
               s == UnitsIn(f, d, h)
               t == UnitsIn(f, e, h)
               ch == ChainIn(f, h)
    <2>1. /\ Len(t) = Len(s) /\ Len(s) \in Nat
          /\ \A j \in 1..Len(s) : t[j] = IF Place(ch, j) = x THEN u ELSE s[j]
      BY <1>0, <1>1, SlotUnits
    <2>2. \A j \in 1..Len(s) : Place(ch, j)[1] \in In(f, h)
      BY <1>0, <1>1, SlotPlaces
    <2>3. Tidy(s)
      BY <1>4
    <2> HIDE DEF s, t, ch, h
    <2>4. \A j \in 1..Len(s) : t[j] = s[j]
      BY <1>6, <2>1, <2>2 DEF h
    <2>5. Tidy(t)
      BY <2>1, <2>3, <2>4 DEF Tidy
    <2> QED BY <2>5 DEF t, h
  <1>9. \A p \in DOMAIN T : T[p] # u.cluster
    <2>1. \A p \in DOMAIN T : T[p] \in Heads(d, X)
      BY <1>0, Structure
    <2> QED BY <1>4, <2>1 DEF Loose
  <1> QED BY <1>1, <1>2, <1>3, <1>7, <1>8, <1>9 DEF DirOK

\* The tree with the new entry.
LEMMA EntryJoins ==
    ASSUME NEW f \in Fats, FatOK(f), NEW d \in DataAreas, NEW e \in DataAreas,
           NEW T, NEW X, NEW q, NEW x, NEW u, Puts(f, d, e, T, X, q, x, u),
           NEW V, Joins(T, q, u, V)
    PROVE  Tree(f, e, V, X)
  <1>0. /\ Tree(f, d, T, X) /\ X \subseteq EntrySlots(d) /\ q \in DOMAIN T /\ x \in Slots
    BY DEF Puts
  <1>1. /\ EntrySlots(e) = EntrySlots(d) \cup {x} /\ x \notin EntrySlots(d)
        /\ At(e, x) = u /\ \A y \in EntrySlots(d) : At(e, y) = At(d, y)
        /\ Holds(f, e, T[q]) = Holds(f, d, T[q]) \cup {x}
        /\ \A p \in DOMAIN T : p # q => Holds(f, e, T[p]) = Holds(f, d, T[p])
        /\ \A p \in DOMAIN T : DirOK(f, e, T[p])
    BY EntryPut
  <1>2. PICK w : w = Append(q, u.name)
    OBVIOUS
  <1>3. /\ DOMAIN T \subseteq DOMAIN V /\ \A p \in DOMAIN T : V[p] = T[p]
        /\ \A p \in DOMAIN V : p \notin DOMAIN T => u.dir /\ p = w
        /\ u.dir => w \in DOMAIN V /\ V[w] = u.cluster
    <2>1. CASE u.dir
      <3>1. w \notin DOMAIN T
        BY <1>2, <2>1, DirNew
      <3> QED BY <1>2, <2>1, <3>1 DEF Joins
    <2>2. CASE ~u.dir
      BY <2>2 DEF Joins
    <2> QED BY <2>1, <2>2
  <1>4. u.dir => /\ u.cluster \in DataClusters /\ w \notin DOMAIN T /\ w \in Seq(Names)
                 /\ w # <<>> /\ Parent(w) = q /\ Last(w) = u.name
                 /\ Holds(f, e, u.cluster) = {} /\ DirOK(f, e, u.cluster)
                 /\ \A p \in DOMAIN T : T[p] # u.cluster
    <2> SUFFICES ASSUME u.dir
                 PROVE  /\ u.cluster \in DataClusters /\ w \notin DOMAIN T /\ w \in Seq(Names)
                        /\ w # <<>> /\ Parent(w) = q /\ Last(w) = u.name
                        /\ Holds(f, e, u.cluster) = {} /\ DirOK(f, e, u.cluster)
                        /\ \A p \in DOMAIN T : T[p] # u.cluster
      OBVIOUS
    <2>1. /\ u.cluster \in DataClusters /\ u.name \in Names /\ q \in Seq(Names)
          /\ Append(q, u.name) \notin DOMAIN T
          /\ Holds(f, e, u.cluster) = {} /\ DirOK(f, e, u.cluster)
          /\ \A p \in DOMAIN T : T[p] # u.cluster
      BY DirNew
    <2> QED BY <1>2, <2>1, PathSplit
  <1>5. /\ T \in [DOMAIN T -> DataClusters] /\ DOMAIN T \subseteq Seq(Names)
        /\ <<>> \in DOMAIN T /\ T[<<>>] = Root
        /\ \A p1, p2 \in DOMAIN T : T[p1] = T[p2] => p1 = p2
    BY <1>0 DEF Tree
  <1>6. V \in [DOMAIN V -> DataClusters] /\ DOMAIN V \subseteq Seq(Names)
    <2>1. V = [p \in DOMAIN V |-> V[p]]
      BY <1>5 DEF Joins
    <2>2. \A p \in DOMAIN V : V[p] \in DataClusters /\ p \in Seq(Names)
      BY <1>3, <1>4, <1>5
    <2> QED BY <2>1, <2>2
  <1>7. <<>> \in DOMAIN V /\ V[<<>>] = Root
    BY <1>3, <1>5
  <1>8. \A p1, p2 \in DOMAIN V : V[p1] = V[p2] => p1 = p2
    BY <1>3, <1>4, <1>5
  <1>9. ASSUME NEW p \in DOMAIN V, p # <<>>
        PROVE  /\ Parent(p) \in DOMAIN V
               /\ \E y \in Holds(f, e, V[Parent(p)]) \ X :
                     At(e, y).dir /\ At(e, y).name = Last(p) /\ At(e, y).cluster = V[p]
    <2>1. CASE p \in DOMAIN T
      <3>1. Parent(p) \in DOMAIN T
        BY <1>0, <1>9, <2>1 DEF Tree
      <3>2. PICK y : /\ y \in Holds(f, d, T[Parent(p)]) \ X
                     /\ At(d, y).dir /\ At(d, y).name = Last(p) /\ At(d, y).cluster = T[p]
        BY <1>0, <1>9, <2>1 DEF Tree
      <3>3. y \in EntrySlots(d) /\ y \in Holds(f, e, T[Parent(p)])
        BY <1>1, <3>1, <3>2 DEF Holds
      <3>4. At(e, y) = At(d, y)
        BY <1>1, <3>3
      <3> QED BY <1>3, <2>1, <3>1, <3>2, <3>3, <3>4
    <2>2. CASE p \notin DOMAIN T
      <3>1. p = w /\ u.dir /\ Parent(p) = q /\ Last(p) = u.name /\ V[p] = u.cluster /\ V[q] = T[q]
        BY <1>0, <1>3, <1>4, <2>2
      <3>2. x \in Holds(f, e, T[q]) \ X
        BY <1>0, <1>1
      <3> QED BY <1>0, <1>1, <1>3, <3>1, <3>2
    <2> QED BY <2>1, <2>2
  <1>10. ASSUME NEW p \in DOMAIN V, NEW y \in Holds(f, e, V[p]) \ X, At(e, y).dir
         PROVE  /\ Append(p, At(e, y).name) \in DOMAIN V
                /\ V[Append(p, At(e, y).name)] = At(e, y).cluster
    <2>1. p \in DOMAIN T
      BY <1>3, <1>4
    <2>2. CASE y = x
      <3>1. p = q
        <4>1. p # q => x \in Holds(f, d, T[p])
          BY <1>1, <1>3, <1>10, <2>1, <2>2
        <4> QED BY <1>1, <4>1 DEF Holds
      <3> QED BY <1>1, <1>2, <1>3, <1>10, <2>2, <3>1
    <2>3. CASE y # x
      <3>1. y \in Holds(f, d, T[p]) \ X
        BY <1>1, <1>3, <2>1, <2>3
      <3>2. At(e, y) = At(d, y)
        BY <1>1, <3>1 DEF Holds
      <3>3. /\ Append(p, At(d, y).name) \in DOMAIN T
            /\ T[Append(p, At(d, y).name)] = At(d, y).cluster
        BY <1>0, <1>10, <2>1, <3>1, <3>2 DEF Tree
      <3> QED BY <1>3, <3>2, <3>3
    <2> QED BY <2>2, <2>3
  <1>11. \A p \in DOMAIN V : DirOK(f, e, V[p])
    BY <1>1, <1>3, <1>4
  <1>12. ASSUME NEW y \in EntrySlots(e) PROVE \E p \in DOMAIN V : y \in Holds(f, e, V[p])
    <2>1. CASE y = x
      BY <1>0, <1>1, <1>3, <2>1
    <2>2. CASE y # x
      <3>1. PICK p \in DOMAIN T : y \in Holds(f, d, T[p])
        BY <1>0, <1>1, <2>2 DEF Tree
      <3> QED BY <1>1, <1>3, <3>1
    <2> QED BY <2>1, <2>2
  <1> QED BY <1>6, <1>7, <1>8, <1>9, <1>10, <1>11, <1>12 DEF Tree

\* The chain of a new directory.
LEMMA NewDirTidy ==
    ASSUME NEW f \in Fats, Acyclic(f), NEW d \in DataAreas, NEW h \in DataClusters,
           Len(ChainIn(f, h)) = 1, NEW o, o.mkdir, d[h] = ChunkOf(o, 0)
    PROVE  Tidy(UnitsIn(f, d, h))
  <1> DEFINE s == UnitsIn(f, d, h)
  <1>1. ChainIn(f, h) = <<h>>
    <2>1. ChainIn(f, h) \in Seq(DataClusters) /\ ChainIn(f, h)[1] = h
      BY ChainRun DEF Run
    <2>2. PICK ch : ch = ChainIn(f, h)
      OBVIOUS
    <2>3. ch = <<h>>
      BY <2>1, <2>2
    <2> QED BY <2>2, <2>3
  <1>2. Len(s) = ClusterUnits /\ \A j \in 1..ClusterUnits : s[j] = d[h][j]
    BY <1>1, FirstUnits
  <1> HIDE DEF s
  <1>3. \A j \in 1..ClusterUnits : s[j] = IF j <= 2 THEN Skip ELSE End
    BY <1>2 DEF ChunkOf
  <1>4. Skip.k # "byte" /\ End.k # "byte" /\ Skip # End
    BY DEF Skip, End
  <1>5. \A i, j \in 1..Len(s) : i < j /\ s[i] = End => s[j] = End
    BY <1>2, <1>3, <1>4, Numbers
  <1>6. Tidy(s)
    BY <1>2, <1>3, <1>4, <1>5 DEF Tidy
  <1> QED BY <1>6 DEF s

\* add_dir_entry keeps the tree: the new entry and its chain join it.
LEMMA AddTree ==
    ASSUME DiskInv, TreeInv, NamesFit, AddDirEntry
    PROVE  TreeInv' /\ Stays
  <1>1. PICK T, X : StructInv(T, X)
    BY DEF TreeInv
  <1>2. PICK f, d, e, par, p0, q, h, u :
           /\ f = fat[1] /\ d = data /\ e = data' /\ par = op.parent /\ p0 = op.path
           /\ q = Parent(op.path) /\ h = head
           /\ u = Entry(Last(op.path), op.mkdir, head, Len(op.payload))
    OBVIOUS
  <1>3. /\ f \in Fats /\ d \in DataAreas /\ FatOK(f) /\ Acyclic(f) /\ op \in Ops /\ Sound(op)
        /\ pc = "add" /\ copy = 1 /\ ~growing /\ op.need \in Nat /\ h \in {0} \cup DataClusters
        /\ par \in DataClusters /\ p0 \in Seq(Names) /\ p0 # <<>> /\ op.add
        /\ (op.need > 0 => h \in DataClusters) /\ (op.need = 0 => h = 0)
    <2>1. pc = "add"
      BY DEF AddDirEntry
    <2>2. Sound(op) /\ ~growing /\ copy = 1 /\ op.add /\ op.need \in Nat
      BY <2>1, At1, Numbers DEF DiskInv, OpInv, PhaseInv
    <2>3. (op.need > 0 => h \in DataClusters) /\ (op.need = 0 => h = 0)
      BY <1>2, <2>1, <2>2 DEF DiskInv, PhaseInv
    <2> QED BY <1>2, <2>1, <2>2, <2>3, At1 DEF TreeInv, FatOK, Sound
  <1>4. /\ UNCHANGED <<fat, op, cl, nxt, copy, head, tail, cnt, growing, bad, reused>>
        /\ pc' = "done"
    BY DEF AddDirEntry, regVars, histVars
  <1>5. /\ ~Clearing /\ ~Clearing' /\ Active /\ Active' /\ ~Fresh'
        /\ Suspects = bad \ {p0} /\ Suspects' = bad \ {p0}
    BY <1>2, <1>3, <1>4 DEF Clearing, Active, Fresh, Suspects
  <1>6. /\ Tree(f, d, T, X) /\ Owners(f, d, X) /\ Damage(f, d, T, X, bad \ {p0}) /\ DamageInv(X)
        /\ q \in DOMAIN T /\ T[q] = par /\ MakeInv(X) /\ X \subseteq EntrySlots(d)
    BY <1>1, <1>2, <1>5 DEF StructInv, Damage
  <1>7. /\ NotThere /\ (h # 0 => Loose(f, d, X, h) /\ f[h] # Free)
        /\ (op.need > 0 => Filled(op.need))
    BY <1>2, <1>3, <1>5, <1>6 DEF MakeInv
  <1>8. /\ u \in Entries /\ u.name = Last(p0) /\ u.dir = op.mkdir /\ u.cluster = h
        /\ u.size = Len(op.payload) /\ u \in Units
        /\ u = Entry(Short[Last(op.path)], op.mkdir, head, Len(op.payload))
    <2>1. u = Entry(Short[Last(op.path)], op.mkdir, head, Len(op.payload))
      BY <1>2, <1>3, AddedEntry DEF NamesFit
    <2>2. u \in Entries
      BY <1>3, <2>1, AddedEntry
    <2> QED BY <1>2, <2>1, <2>2 DEF Entry, Units
  <1>9. PICK x : /\ x \in Slots /\ x[1] \in In(f, par) /\ At(d, x) \in FreeSlots
                 /\ e \in DataAreas /\ Changed(d, x, u, e)
                 /\ \A c \in DataClusters : c # x[1] => e[c] = d[c]
                 /\ \E j \in 1..Len(UnitsIn(f, d, par)) :
                       /\ Place(ChainIn(f, par), j) = x
                       /\ \A i \in 1..(j - 1) : UnitsIn(f, d, par)[i] # End
    <2> DEFINE ch == ChainIn(f, par)
               s  == UnitsIn(f, d, par)
    <2>1. \E j \in 1..Len(s) :
             /\ s[j] \in FreeSlots
             /\ \A i \in 1..(j - 1) : s[i] \notin FreeSlots
             /\ WroteUnit(d, Place(ch, j)[1], Place(ch, j)[2], u, e)
      BY <1>2, <1>3, <1>8, AddEffect
    <2>2. PICK j : /\ j \in 1..Len(s) /\ s[j] \in FreeSlots
                   /\ \A i \in 1..(j - 1) : s[i] \notin FreeSlots
                   /\ WroteUnit(d, Place(ch, j)[1], Place(ch, j)[2], u, e)
      BY <2>1
    <2>3. PICK x : x = Place(ch, j)
      OBVIOUS
    <2>4. x \in Slots /\ x[1] \in In(f, par) /\ s[j] = At(d, x)
      BY <1>3, <2>2, <2>3, SlotPlaces
    <2>5. WroteUnit(d, x[1], x[2], u, e)
      BY <2>2, <2>3
    <2>6. /\ e \in DataAreas /\ Changed(d, x, u, e)
          /\ \A c \in DataClusters : c # x[1] => e[c] = d[c]
      BY <1>3, <1>8, <2>4, <2>5, SlotChanged
    <2>7. \A i \in 1..(j - 1) : s[i] # End
      BY <2>2 DEF FreeSlots
    <2> HIDE DEF s, ch
    <2>8. At(d, x) \in FreeSlots
      BY <2>2, <2>4
    <2>9. \E i \in 1..Len(s) : Place(ch, i) = x /\ \A k \in 1..(i - 1) : s[k] # End
      BY <2>2, <2>3, <2>7
    <2> QED BY <2>4, <2>6, <2>8, <2>9 DEF s, ch
  <1>10. ~u.dir => Sized(f, u)
    <2>1. ASSUME ~op.mkdir PROVE Len(ChainIn(f, h)) = ClustersFor(Len(op.payload))
      <3>1. op.need = ClustersFor(Len(op.payload))
        BY <1>3, <2>1 DEF Sound
      <3>2. CASE op.need > 0
        BY <1>2, <1>7, <3>1, <3>2 DEF Filled
      <3>3. CASE op.need = 0
        <4>1. Len(ChainIn(f, h)) = 0
          BY <1>3, <3>3, NoChain
        <4> QED BY <3>1, <3>3, <4>1
      <3> QED BY <1>3, <3>2, <3>3
    <2> QED BY <1>8, <2>1 DEF Sized
  <1>11. u.dir => Tidy(UnitsIn(f, d, u.cluster)) /\ h \in DataClusters
    <2> SUFFICES ASSUME op.mkdir PROVE Tidy(UnitsIn(f, d, h)) /\ h \in DataClusters
      BY <1>8
    <2>1. op.need = 1 /\ h \in DataClusters
      BY <1>3 DEF Sound
    <2>2. Len(ChainIn(f, h)) = 1 /\ d[ChainIn(f, h)[1]] = ChunkOf(op, 0)
      BY <1>2, <1>7, <2>1 DEF Filled
    <2>3. ChainIn(f, h)[1] = h
      BY <1>3, <2>1, ChainRun DEF Run
    <2>4. d[h] = ChunkOf(op, 0)
      BY <2>2, <2>3
    <2>5. Tidy(UnitsIn(f, d, h))
      BY <1>3, <2>1, <2>2, <2>4, NewDirTidy
    <2> QED BY <2>1, <2>5
  <1>12. Puts(f, d, e, T, X, q, x, u)
    <2>1. \A y \in Holds(f, d, T[q]) : At(d, y).name # u.name
      BY <1>2, <1>6, <1>7, <1>8 DEF NotThere
    <2> QED BY <1>6, <1>7, <1>8, <1>9, <1>10, <1>11, <2>1 DEF Puts
  <1>13. PICK V : Joins(T, q, u, V)
    <2>1. CASE u.dir
      <3>1. PICK w : w = Append(q, u.name)
        OBVIOUS
      <3> DEFINE W == [p \in DOMAIN T \cup {w} |-> IF p = w THEN u.cluster ELSE T[p]]
      <3>2. /\ DOMAIN W = DOMAIN T \cup {w} /\ W = [p \in DOMAIN W |-> W[p]]
            /\ W[w] = u.cluster /\ \A p \in DOMAIN T : p # w => W[p] = T[p]
        OBVIOUS
      <3> HIDE DEF W
      <3> QED BY <2>1, <3>1, <3>2 DEF Joins
    <2>2. CASE ~u.dir
      BY <2>2 DEF Joins
    <2> QED BY <2>1, <2>2
  <1>14. Tree(f, e, V, X)
    BY <1>3, <1>9, <1>12, <1>13, EntryJoins
  <1>15. /\ EntrySlots(e) = EntrySlots(d) \cup {x} /\ x \notin EntrySlots(d)
         /\ At(e, x) = u /\ \A y \in EntrySlots(d) : At(e, y) = At(d, y)
         /\ Holds(f, e, T[q]) = Holds(f, d, T[q]) \cup {x}
         /\ \A p \in DOMAIN T : p # q => Holds(f, e, T[p]) = Holds(f, d, T[p])
         /\ Heads(e, X) = Heads(d, X) \cup {u.cluster}
         /\ Owners(f, e, X)
    BY <1>3, <1>9, <1>12, EntryPut
  <1>16. /\ DOMAIN T \subseteq DOMAIN V /\ \A p \in DOMAIN T : V[p] = T[p]
         /\ op.mkdir => Holds(f, e, h) = {}
    <2>1. CASE u.dir
      <3>1. Append(q, u.name) \notin DOMAIN T /\ Holds(f, e, u.cluster) = {}
        BY <1>3, <1>9, <1>12, <2>1, DirNew
      <3> QED BY <1>8, <1>13, <2>1, <3>1 DEF Joins
    <2>2. CASE ~u.dir
      BY <1>8, <1>13, <2>2 DEF Joins
    <2> QED BY <2>1, <2>2
  <1>17. Damage(f, e, V, X, bad \ {p0})
    <2>1. ASSUME NEW y \in X
          PROVE  \E p \in DOMAIN V : y \in Holds(f, e, V[p]) /\ Append(p, At(e, y).name) \in bad \ {p0}
      <3>1. PICK p \in DOMAIN T : y \in Holds(f, d, T[p]) /\ Append(p, At(d, y).name) \in bad \ {p0}
        BY <1>6 DEF Damage
      <3>2. At(e, y) = At(d, y) /\ y \in Holds(f, e, T[p])
        BY <1>6, <1>15, <3>1
      <3> QED BY <1>16, <3>1, <3>2
    <2> QED BY <1>6, <1>15, <2>1 DEF Damage
  <1>18. f = fat'[1] /\ e = data' /\ op' = op /\ head' = h /\ ~growing' /\ reused' = reused
    BY <1>2, <1>3, <1>4
  <1>19. DamageInv(X)'
    <2>1. ~reused /\ h # 0 => X = {}
      BY <1>2, <1>5, <1>6 DEF DamageInv
    <2>2. ASSUME ~reused, NEW y \in X, At(e, y).cluster # 0
          PROVE  Loose(f, e, X, At(e, y).cluster)
      <3>1. At(e, y) = At(d, y) /\ h = 0
        BY <1>6, <1>15, <2>1, <2>2
      <3>2. Loose(f, d, X, At(d, y).cluster)
        BY <1>2, <1>6, <2>2, <3>1 DEF DamageInv
      <3> QED BY <1>8, <1>15, <2>2, <3>1, <3>2 DEF Loose
    <2> QED BY <1>5, <1>18, <2>1, <2>2 DEF DamageInv
  <1>20. op.need > 0 => Filled(op.need)'
    <2> SUFFICES ASSUME op.need > 0 PROVE Filled(op.need)'
      OBVIOUS
    <2>1. h \in DataClusters /\ h # 0
      BY <1>3, Numbers
    <2>2. In(f, h) \cap In(f, par) = {}
      BY <1>3, <1>6, <1>7, <2>1, LooseApart
    <2>3. In(f, h) \subseteq DataClusters
      BY <1>3, <2>1, InFacts
    <2>4. \A c \in In(f, h) : e[c] = d[c]
      BY <1>9, <2>2, <2>3
    <2>5. LET ch == ChainIn(fat'[1], head')
          IN  Len(ch) = op'.need /\ \A i \in 1..op.need : data'[ch[i]] = ChunkOf(op', i - 1)
      BY <1>2, <1>3, <1>4, <1>7, <1>18, <2>1, <2>4, FilledKept
    <2> QED BY <1>4, <2>5 DEF Filled
  <1>21. MakeInv(X)' /\ DoneInv(X)' /\ ClearInv(X)'
    <2>1. MakeInv(X)'
      BY <1>4, <1>5, <1>18, <1>20 DEF MakeInv
    <2>2. x \in Holds(f, e, par) /\ x \notin X
      BY <1>6, <1>15
    <2>3. /\ At(e, x) = Entry(Last(op'.path), op'.mkdir, head', Len(op'.payload))
          /\ op'.add /\ op'.parent = par
      BY <1>2, <1>3, <1>15, <1>18
    <2>4. DoneInv(X)'
      BY <1>16, <1>18, <2>2, <2>3 DEF DoneInv
    <2> QED BY <1>5, <2>1, <2>4 DEF ClearInv
  <1>22. Parent(op'.path) \in DOMAIN V /\ V[Parent(op'.path)] = op'.parent
    BY <1>2, <1>6, <1>16, <1>18
  <1>23. StructInv(V, X)'
    BY <1>5, <1>14, <1>15, <1>17, <1>18, <1>19, <1>21, <1>22 DEF StructInv
  <1>24. Stays
    <2>1. Append(q, u.name) = p0 /\ x[1] \in In(f, T[q])
      BY <1>2, <1>3, <1>6, <1>8, <1>9, PathSplit
    <2>2. FilesKept(f, d, f, e, X)
      BY <1>3, <1>6, <1>9, <2>1, FileFrame
    <2>3. \A p \in DOMAIN T : DirOK(f, e, T[p])
      BY <1>3, <1>9, <1>12, EntryPut
    <2>4. \A p \in DOMAIN T : \A y \in Holds(f, d, T[p]) : y \in Holds(f, e, T[p]) /\ At(e, y) = At(d, y)
      BY <1>15 DEF Holds
    <2>5. ASSUME NEW p \in DOMAIN T, NEW y \in Holds(f, e, T[p]), Append(p, At(e, y).name) # p0
          PROVE  y \in Holds(f, d, T[p]) /\ At(e, y) = At(d, y)
      <3>1. CASE p = q
        <4>1. y # x
          BY <1>15, <2>1, <2>5, <3>1
        <4>2. y \in Holds(f, d, T[p])
          BY <1>15, <3>1, <4>1
        <4> QED BY <2>4, <4>2
      <3>2. CASE p # q
        <4>1. y \in Holds(f, d, T[p])
          BY <1>15, <3>2
        <4> QED BY <2>4, <4>1
      <3> QED BY <3>1, <3>2
    <2>6. Keeps(f, d, f, e, T, X, p0)
      BY <2>2, <2>3, <2>4, <2>5 DEF Keeps
    <2>7. Damage(f, d, T, X, Suspects)
      BY <1>5, <1>6
    <2>8. Stay(f, d, f, e, T, X, Suspects, p0)
      BY <1>3, <1>6, <1>9, <2>6, <2>7 DEF Stay
    <2> QED BY <1>2, <1>18, <2>8 DEF Stays
  <1> QED BY <1>3, <1>18, <1>23, <1>24 DEF TreeInv

\* A directory in which read_dir finds nothing has no entries.
LEMMA EmptyDir ==
    ASSUME NEW f \in Fats, Acyclic(f), NEW d \in DataAreas, NEW h \in DataClusters,
           Tidy(UnitsIn(f, d, h)), DOMAIN DirIn(f, d, h) = {}
    PROVE  Holds(f, d, h) = {}
  <1> DEFINE s == UnitsIn(f, d, h)
             ch == ChainIn(f, h)
             k == FirstIndex(s, {End})
  <1>1. /\ Len(s) \in Nat
        /\ \A j \in 1..Len(s) : s[j] = At(d, Place(ch, j))
        /\ \A x \in Slots : x[1] \in In(f, h) => \E j \in 1..Len(s) : Place(ch, j) = x
    BY SlotPlaces
  <1>2. k \in 1..(Len(s) + 1) /\ (k <= Len(s) => s[k] = End)
    BY <1>1, FirstFacts
  <1>3. ~\E j \in 1..(k - 1) : s[j].k = "entry"
    BY DEF DirIn, IsEntry
  <1>4. \A i, j \in 1..Len(s) : i < j /\ s[i] = End => s[j] = End
    BY DEF Tidy
  <1> HIDE DEF s, ch, k
  <1>5. ASSUME NEW x \in Holds(f, d, h) PROVE FALSE
    <2>1. x \in Slots /\ x[1] \in In(f, h) /\ At(d, x).k = "entry"
      BY DEF Holds, EntrySlots
    <2>2. PICK j : j \in 1..Len(s) /\ Place(ch, j) = x
      BY <1>1, <2>1
    <2>3. s[j].k = "entry" /\ s[j] # End
      BY <1>1, <2>1, <2>2, EntryUnits
    <2>4. ~(j < k)
      BY <1>1, <1>2, <1>3, <2>2, <2>3
    <2>5. s[j] = End
      BY <1>1, <1>2, <1>4, <2>2, <2>4
    <2> QED BY <2>3, <2>5
  <1> QED BY <1>5

\* The table without the directory p0.
Drops(T, p0, u, V) ==
    IF u.dir THEN /\ DOMAIN V = DOMAIN T \ {p0} /\ V = [p \in DOMAIN V |-> V[p]]
                  /\ \A p \in DOMAIN V : V[p] = T[p]
             ELSE V = T

\* V and Y are the tree and the damaged entries when the entry x of the
\* directory q is given up.
Goes(f, d, T, X, q, x, V, Y) ==
    /\ Tree(f, d, V, Y) /\ Owners(f, d, Y) /\ Heads(d, Y) \subseteq Heads(d, X)
    /\ At(d, x).cluster # 0 => Loose(f, d, Y, At(d, x).cluster)
    /\ q \in DOMAIN V /\ V[q] = T[q]
    /\ \A y \in EntrySlots(d) : \E p \in DOMAIN V : y \in Holds(f, d, T[p]) /\ V[p] = T[p]

\* The entry x, of a file or of an empty directory, is given up.
LEMMA EntryGoes ==
    ASSUME NEW f \in Fats, FatOK(f), NEW d \in DataAreas,
           NEW T, NEW X, Tree(f, d, T, X), Owners(f, d, X), X \subseteq EntrySlots(d),
           NEW q \in DOMAIN T, NEW x \in Holds(f, d, T[q]), x \notin X,
           At(d, x).dir => Holds(f, d, At(d, x).cluster) = {},
           NEW Y, Y = X \cup {x}, NEW p0, p0 = Append(q, At(d, x).name),
           NEW V, Drops(T, p0, At(d, x), V)
    PROVE  Goes(f, d, T, X, q, x, V, Y)
  <1> DEFINE c == At(d, x).cluster
  <1>1. x \in EntrySlots(d) \ X
    BY DEF Holds
  <1>2. Owners(f, d, Y) /\ Heads(d, Y) \subseteq Heads(d, X)
    BY DEF Owners, Heads
  <1>3. c # 0 => Loose(f, d, Y, c)
    <2> SUFFICES ASSUME c # 0 PROVE Loose(f, d, Y, c)
      OBVIOUS
    <2>1. c # Root /\ NoPred(f, c)
      BY <1>1 DEF Owners, Owner
    <2>2. \A y \in EntrySlots(d) \ Y : At(d, y).cluster # c
      BY <1>1 DEF Owners
    <2> QED BY <2>1, <2>2 DEF Loose, Heads
  <1>4. /\ q \in Seq(Names) /\ At(d, x).name \in Names /\ At(d, x).dir \in BOOLEAN
        /\ p0 # <<>> /\ Parent(p0) = q /\ Last(p0) = At(d, x).name
    <2>1. q \in Seq(Names) /\ At(d, x).name \in Names /\ At(d, x).dir \in BOOLEAN
      BY <1>1, EntryAt DEF Tree
    <2>2. PICK m : m = At(d, x).name
      OBVIOUS
    <2>3. Append(q, m) # <<>> /\ Parent(Append(q, m)) = q /\ Last(Append(q, m)) = m
      BY <2>1, <2>2, PathSplit
    <2> QED BY <2>1, <2>2, <2>3
  <1>5. /\ T \in [DOMAIN T -> DataClusters] /\ DOMAIN T \subseteq Seq(Names)
        /\ <<>> \in DOMAIN T /\ T[<<>>] = Root
        /\ \A p1, p2 \in DOMAIN T : T[p1] = T[p2] => p1 = p2
    BY DEF Tree
  <1>6. \A p \in DOMAIN T : p # <<>> =>
          /\ Parent(p) \in DOMAIN T
          /\ \E y \in Holds(f, d, T[Parent(p)]) \ X :
                At(d, y).dir /\ At(d, y).name = Last(p) /\ At(d, y).cluster = T[p]
    BY DEF Tree
  <1>7. \A p \in DOMAIN T : \A y \in Holds(f, d, T[p]) \ X : At(d, y).dir =>
          /\ Append(p, At(d, y).name) \in DOMAIN T
          /\ T[Append(p, At(d, y).name)] = At(d, y).cluster
    BY DEF Tree
  <1>8. /\ \A p \in DOMAIN T : DirOK(f, d, T[p])
        /\ \A y \in EntrySlots(d) : \E p \in DOMAIN T : y \in Holds(f, d, T[p])
    BY DEF Tree
  <1>9. CASE ~At(d, x).dir
    <2>1. V = T
      BY <1>9 DEF Drops
    <2>2. \A p \in DOMAIN T : p # <<>> =>
             /\ Parent(p) \in DOMAIN T
             /\ \E y \in Holds(f, d, T[Parent(p)]) \ Y :
                   At(d, y).dir /\ At(d, y).name = Last(p) /\ At(d, y).cluster = T[p]
      BY <1>6, <1>9
    <2>3. \A p \in DOMAIN T : \A y \in Holds(f, d, T[p]) \ Y : At(d, y).dir =>
             /\ Append(p, At(d, y).name) \in DOMAIN T
             /\ T[Append(p, At(d, y).name)] = At(d, y).cluster
      BY <1>7
    <2>4. Tree(f, d, T, Y)
      BY <1>5, <1>8, <2>2, <2>3 DEF Tree
    <2> QED BY <1>2, <1>3, <1>8, <2>1, <2>4 DEF Goes
  <1>10. CASE At(d, x).dir
    <2>1. p0 \in DOMAIN T /\ T[p0] = c /\ Holds(f, d, T[p0]) = {}
      BY <1>7, <1>10
    <2>2. /\ DOMAIN V = DOMAIN T \ {p0} /\ V = [p \in DOMAIN V |-> V[p]]
          /\ \A p \in DOMAIN V : V[p] = T[p] /\ p \in DOMAIN T
      BY <1>10 DEF Drops
    <2>3. q # p0
      BY <2>1
    <2>4. V \in [DOMAIN V -> DataClusters] /\ DOMAIN V \subseteq Seq(Names)
      <3>1. \A p \in DOMAIN V : V[p] \in DataClusters
        BY <1>5, <2>2
      <3> QED BY <1>5, <2>2, <3>1
    <2>5. <<>> \in DOMAIN V /\ V[<<>>] = Root /\ \A p1, p2 \in DOMAIN V : V[p1] = V[p2] => p1 = p2
      BY <1>4, <1>5, <2>2
    <2>6. ASSUME NEW p \in DOMAIN V, p # <<>>
          PROVE  /\ Parent(p) \in DOMAIN V
                 /\ \E y \in Holds(f, d, V[Parent(p)]) \ Y :
                       At(d, y).dir /\ At(d, y).name = Last(p) /\ At(d, y).cluster = V[p]
      <3>1. p \in DOMAIN T /\ p # p0 /\ V[p] = T[p]
        BY <2>2
      <3>2. PICK y : /\ y \in Holds(f, d, T[Parent(p)]) \ X
                     /\ At(d, y).dir /\ At(d, y).name = Last(p) /\ At(d, y).cluster = T[p]
        BY <1>6, <2>6, <3>1
      <3>3. Parent(p) \in DOMAIN T /\ Parent(p) # p0
        BY <1>6, <2>1, <2>6, <3>1, <3>2
      <3>4. y # x
        BY <1>5, <2>1, <3>1, <3>2
      <3>5. Parent(p) \in DOMAIN V /\ V[Parent(p)] = T[Parent(p)]
        BY <2>2, <3>3
      <3> QED BY <3>1, <3>2, <3>4, <3>5
    <2>7. ASSUME NEW p \in DOMAIN V, NEW y \in Holds(f, d, V[p]) \ Y, At(d, y).dir
          PROVE  /\ Append(p, At(d, y).name) \in DOMAIN V
                 /\ V[Append(p, At(d, y).name)] = At(d, y).cluster
      <3>1. p \in DOMAIN T /\ y \in Holds(f, d, T[p]) \ X /\ y # x
        BY <2>2
      <3>2. PICK m, w : m = At(d, y).name /\ w = Append(p, m)
        OBVIOUS
      <3>3. w \in DOMAIN T /\ T[w] = At(d, y).cluster
        BY <1>7, <2>7, <3>1, <3>2
      <3>4. w # p0
        <4> SUFFICES ASSUME w = p0 PROVE FALSE
          OBVIOUS
        <4>1. T[w] = c
          BY <2>1
        <4>2. y \in EntrySlots(d) \ X /\ c # 0
          BY <1>1, <1>10, <3>1, EntryAt, Numbers DEF Holds
        <4>3. At(d, x).cluster # 0 /\ At(d, x).cluster = At(d, y).cluster
          BY <3>3, <4>1, <4>2
        <4> QED BY <1>1, <3>1, <4>2, <4>3 DEF Owners
      <3>5. w \in DOMAIN V /\ V[w] = T[w]
        BY <2>2, <3>3, <3>4
      <3> QED BY <3>2, <3>3, <3>5
    <2>8. \A p \in DOMAIN V : DirOK(f, d, V[p])
      BY <1>8, <2>2
    <2>9. ASSUME NEW y \in EntrySlots(d)
          PROVE  \E p \in DOMAIN V : y \in Holds(f, d, T[p]) /\ V[p] = T[p]
      <3>1. PICK p \in DOMAIN T : y \in Holds(f, d, T[p])
        BY <1>8
      <3>2. p # p0
        BY <2>1, <3>1
      <3> QED BY <2>2, <3>1, <3>2
    <2>10. \A y \in EntrySlots(d) : \E p \in DOMAIN V : y \in Holds(f, d, V[p])
      <3>1. ASSUME NEW y \in EntrySlots(d) PROVE \E p \in DOMAIN V : y \in Holds(f, d, V[p])
        <4>1. PICK p \in DOMAIN V : y \in Holds(f, d, T[p]) /\ V[p] = T[p]
          BY <2>9
        <4> QED BY <4>1
      <3> QED BY <3>1
    <2>11. Tree(f, d, V, Y)
      BY <2>4, <2>5, <2>6, <2>7, <2>8, <2>10 DEF Tree
    <2> QED BY <1>2, <1>3, <2>2, <2>3, <2>9, <2>11 DEF Goes
  <1> QED BY <1>4, <1>9, <1>10

\* What an operation that begins knows of the tree: its directory is in it,
\* and so is the entry that it replaces or removes.
Ready(o, T, X, f, d, q, n) ==
    /\ q \in DOMAIN T /\ T[q] = o.parent /\ q \in Seq(Names) /\ n \in Names
    /\ o.path = Append(q, n) /\ o.path # <<>> /\ Parent(o.path) = q /\ Last(o.path) = n
    /\ ~o.del => \A x \in Holds(f, d, o.parent) : At(d, x).name # n
    /\ o.del => \E x \in Holds(f, d, o.parent) :
          /\ At(d, x).name = n /\ At(d, x).cluster = o.free
          /\ At(d, x).dir => DOMAIN DirIn(f, d, o.free) = {}

\* What an operation has decided when it starts, in terms of the tree.
LEMMA BeginReady ==
    ASSUME NEW f \in Fats, FatOK(f), NEW d \in DataAreas, NEW T, NEW X,
           Tree(f, d, T, X), Owners(f, d, X), bad \subseteq Seq(Names),
           Damage(f, d, T, X, bad), NEW o \in Ops, Sound(o), ~Tainted(o.path), Chosen(f, d, o)
    PROVE  Ready(o, T, X, f, d, Parent(o.path), Last(o.path))
  <1>1. o.path \in Seq(Names) /\ o.path # <<>> /\ o.parent \in DataClusters /\ o.del \in BOOLEAN
    BY PathFacts DEF Ops, Sound
  <1>2. PICK q, n, p0 : q = Parent(o.path) /\ n = Last(o.path) /\ p0 = o.path
    OBVIOUS
  <1>3. q \in Seq(Names) /\ n \in Names /\ p0 = Append(q, n)
    BY <1>1, <1>2, PathFacts, PathSplit
  <1>4. Clear(bad, q)
    <2>1. \A b \in bad : ~Below(b, p0)
      BY <1>2 DEF Tainted
    <2>2. \A b \in bad : b # q /\ ~Below(b, q)
      BY <1>1, <1>2, <2>1, BelowParent
    <2> QED BY <2>2 DEF Clear
  <1>5. Sees(f, d, T, X, q)
    BY <1>3, <1>4, Leaves
  <1>6. LookIn(f, d, q).k # "error" /\ LookIn(f, d, q).dir /\ LookIn(f, d, q).cluster = o.parent
    BY <1>2 DEF Chosen
  <1>7. q \in DOMAIN T /\ T[q] = o.parent
    BY <1>5, <1>6 DEF Sees
  <1>8. DirOK(f, d, o.parent) /\ Acyclic(f)
    BY <1>7 DEF Tree, FatOK
  <1>9. PICK old : old = FindIn(f, d, o.parent, n)
    OBVIOUS
  <1>10. /\ o.del <=> old.k # "error"
         /\ o.del => o.free = old.cluster
         /\ o.del /\ old.dir => DOMAIN DirIn(f, d, old.cluster) = {}
    BY <1>2, <1>9 DEF Chosen
  <1>11. /\ \A x \in Holds(f, d, o.parent) : At(d, x).name = n => old = At(d, x)
         /\ old # Error("NotFound") =>
               \E x \in Holds(f, d, o.parent) : At(d, x).name = n /\ old = At(d, x)
    BY <1>1, <1>8, <1>9, FindBy
  <1>12. ASSUME ~o.del, NEW x \in Holds(f, d, o.parent) PROVE At(d, x).name # n
    <2>1. At(d, x).k = "entry"
      BY DEF Holds, EntrySlots
    <2> QED BY <1>10, <1>11, <1>12, <2>1
  <1>13. ASSUME o.del
         PROVE  \E x \in Holds(f, d, o.parent) :
                   /\ At(d, x).name = n /\ At(d, x).cluster = o.free
                   /\ At(d, x).dir => DOMAIN DirIn(f, d, o.free) = {}
    <2>1. old # Error("NotFound")
      BY <1>10, <1>13, EntryUnits
    <2>2. PICK x : x \in Holds(f, d, o.parent) /\ At(d, x).name = n /\ old = At(d, x)
      BY <1>11, <2>1
    <2>3. o.free = old.cluster /\ (old.dir => DOMAIN DirIn(f, d, old.cluster) = {})
      BY <1>10, <1>13
    <2> QED BY <2>2, <2>3
  <1>14. Ready(o, T, X, f, d, q, n)
    BY <1>1, <1>2, <1>3, <1>7, <1>12, <1>13 DEF Ready
  <1> QED BY <1>2, <1>14

\* What holds when an operation has begun and has found nothing to replace.
LEMMA BeginNew ==
    ASSUME DiskInv, NEW o \in Ops, Start(o), Sound(o), ~o.del, pc = "idle",
           NEW T, NEW X, StructInv(T, X), FatOK(fat[1]),
           Ready(o, T, X, fat[1], data, Parent(o.path), Last(o.path))
    PROVE  TreeInv'
  <1>1. PICK f, d, par, p0, q, n, B : /\ f = fat[1] /\ d = data /\ par = o.parent /\ p0 = o.path
                                      /\ q = Parent(o.path) /\ n = Last(o.path) /\ B = bad
    OBVIOUS
  <1>2. /\ op' = o /\ pc' = FirstPhase(o) /\ copy' = 1 /\ head' = 0 /\ growing' = FALSE
        /\ UNCHANGED <<fat, data, bad, reused>>
    BY DEF Start, diskVars, histVars
  <1>3. o.free = 0 /\ o.add
    BY DEF Sound
  <1>4. pc' \in {"mark", "add"} /\ (pc' = "add" => o.need = 0) /\ o.need \in Nat
    <2>1. pc' = AfterDelete(o)
      BY <1>2, <1>3, Numbers DEF FirstPhase, AfterFree, IsCluster
    <2> QED BY <1>3, <2>1, AfterFacts
  <1>5. /\ ~Clearing' /\ Active' /\ ~Fresh' /\ Suspects = B /\ Suspects' = B \ {p0}
    BY <1>1, <1>2, <1>4 DEF Clearing, Active, Fresh, Suspects
  <1>6. Tree(f, d, T, X) /\ Owners(f, d, X) /\ Damage(f, d, T, X, B) /\ DamageInv(X)
    BY <1>1, <1>5 DEF StructInv
  <1>7. /\ q \in DOMAIN T /\ T[q] = par /\ q \in Seq(Names) /\ n \in Names /\ p0 = Append(q, n)
        /\ \A x \in Holds(f, d, par) : At(d, x).name # n
    BY <1>1 DEF Ready
  <1>8. Damage(f, d, T, X, B \ {p0})
    <2>0. d \in DataAreas /\ X \subseteq EntrySlots(d)
      BY <1>1, <1>6, At1 DEF Damage
    <2>1. ASSUME NEW y \in X
          PROVE  \E p \in DOMAIN T : y \in Holds(f, d, T[p]) /\ Append(p, At(d, y).name) \in B \ {p0}
      <3>1. PICK p \in DOMAIN T : y \in Holds(f, d, T[p]) /\ Append(p, At(d, y).name) \in B
        BY <1>6 DEF Damage
      <3>2. Append(p, At(d, y).name) # p0
        <4> SUFFICES ASSUME Append(p, At(d, y).name) = p0 PROVE FALSE
          OBVIOUS
        <4>1. p \in Seq(Names) /\ At(d, y).name \in Names
          BY <1>6, <2>0, EntryAt DEF Tree
        <4>2. PICK m : m = At(d, y).name
          OBVIOUS
        <4>3. Parent(Append(p, m)) = p /\ Last(Append(p, m)) = m
          BY <4>1, <4>2, PathSplit
        <4>4. Parent(Append(q, n)) = q /\ Last(Append(q, n)) = n
          BY <1>7, PathSplit
        <4>5. p = q /\ At(d, y).name = n
          BY <1>7, <4>2, <4>3, <4>4
        <4> QED BY <1>7, <3>1, <4>5
      <3> QED BY <3>1, <3>2
    <2> QED BY <2>0, <2>1 DEF Damage
  <1>9. f = fat'[1] /\ d = data' /\ op'.parent = par /\ op'.path = p0
    BY <1>1, <1>2
  <1>10. NotThere'
    BY <1>1, <1>7, <1>9 DEF NotThere
  <1>11. DamageInv(X)'
    <2>1. ~reused => \A x \in X : At(d, x).cluster # 0 => Loose(f, d, X, At(d, x).cluster)
      BY <1>1, <1>6 DEF DamageInv
    <2> QED BY <1>2, <1>5, <1>9, <2>1 DEF DamageInv
  <1>12. MakeInv(X)' /\ ClearInv(X)' /\ DoneInv(X)'
    <2>1. MakeInv(X)'
      BY <1>2, <1>4, <1>5, <1>10 DEF MakeInv
    <2> QED BY <1>4, <1>5, <2>1 DEF ClearInv, DoneInv
  <1>13. Parent(op'.path) \in DOMAIN T /\ T[Parent(op'.path)] = op'.parent
    BY <1>1, <1>7, <1>9
  <1>14. StructInv(T, X)'
    BY <1>5, <1>6, <1>8, <1>9, <1>11, <1>12, <1>13 DEF StructInv
  <1> QED BY <1>1, <1>9, <1>14 DEF TreeInv

\* And when it has found an entry: that one is now among the damaged.
LEMMA BeginOld ==
    ASSUME DiskInv, NEW o \in Ops, Start(o), Sound(o), o.del, pc = "idle", ~Tainted(o.path),
           NEW T, NEW X, StructInv(T, X), FatOK(fat[1]),
           Ready(o, T, X, fat[1], data, Parent(o.path), Last(o.path))
    PROVE  TreeInv'
  <1>1. PICK f, d, par, p0, q, n, B, c :
           /\ f = fat[1] /\ d = data /\ par = o.parent /\ p0 = o.path /\ q = Parent(o.path)
           /\ n = Last(o.path) /\ B = bad /\ c = o.free
    OBVIOUS
  <1>2. /\ op' = o /\ pc' = FirstPhase(o) /\ copy' = 1 /\ head' = 0 /\ growing' = FALSE
        /\ cl' = o.free /\ UNCHANGED <<fat, data, bad, reused>>
    BY DEF Start, diskVars, histVars
  <1>3. f \in Fats /\ d \in DataAreas /\ FatOK(f) /\ Acyclic(f) /\ c \in {0} \cup DataClusters
    BY <1>1, At1 DEF FatOK, Ops
  <1>4. (c # 0 /\ pc' = "free") \/ (c = 0 /\ pc' = "delete")
    BY <1>1, <1>2, <1>3, Numbers DEF FirstPhase, AfterFree, IsCluster
  <1>5. /\ Clearing' /\ Active' /\ ~Fresh' /\ Suspects = B /\ Suspects' = B \cup {p0}
    BY <1>1, <1>2, <1>4 DEF Clearing, Active, Fresh, Suspects
  <1>6. /\ Tree(f, d, T, X) /\ Owners(f, d, X) /\ Damage(f, d, T, X, B) /\ DamageInv(X)
        /\ X \subseteq EntrySlots(d)
    BY <1>1, <1>5 DEF StructInv, Damage
  <1>7. /\ q \in DOMAIN T /\ T[q] = par /\ q \in Seq(Names) /\ n \in Names /\ p0 = Append(q, n)
    BY <1>1 DEF Ready
  <1>8. PICK x : /\ x \in Holds(f, d, par) /\ At(d, x).name = n /\ At(d, x).cluster = c
                 /\ At(d, x).dir => DOMAIN DirIn(f, d, c) = {}
    BY <1>1 DEF Ready
  <1>9. /\ x \in EntrySlots(d) /\ (At(d, x).dir => c \in DataClusters)
    BY <1>3, <1>8, EntryAt DEF Holds
  <1>10. /\ ~reused => \A y \in X : At(d, y).cluster # 0 => Loose(f, d, X, At(d, y).cluster)
    BY <1>1, <1>6 DEF DamageInv
  <1>11. PICK Y, V : /\ Tree(f, d, V, Y) /\ Owners(f, d, Y) /\ Heads(d, Y) \subseteq Heads(d, X)
                     /\ c # 0 => Loose(f, d, Y, c)
                     /\ q \in DOMAIN V /\ V[q] = par /\ x \in Y /\ Y \subseteq X \cup {x}
                     /\ Damage(f, d, V, Y, B \cup {p0})
                     /\ At(d, x).dir /\ p0 \notin B => Tidy(UnitsIn(f, d, c))
    <2>1. CASE x \in X
      <3>1. p0 \in B
        <4>1. PICK p \in DOMAIN T : x \in Holds(f, d, T[p]) /\ Append(p, At(d, x).name) \in B
          BY <1>6, <2>1 DEF Damage
        <4>2. p = q
          BY <1>3, <1>6, <1>7, <1>8, <4>1, Structure
        <4> QED BY <1>7, <1>8, <4>1, <4>2
      <3>2. ~reused
        BY <1>1, <3>1 DEF Tainted
      <3>3. c # 0 => Loose(f, d, X, c)
        BY <1>8, <1>10, <2>1, <3>2
      <3>4. Damage(f, d, T, X, B \cup {p0})
        <4>1. PICK C : C = B \cup {p0}
          OBVIOUS
        <4>2. B \subseteq C
          BY <4>1
        <4>3. Damage(f, d, T, X, C)
          BY <1>6, <4>2, DamageMore
        <4> QED BY <4>1, <4>3
      <3> QED BY <1>6, <1>7, <2>1, <3>1, <3>3, <3>4
    <2>2. CASE x \notin X
      <3>1. At(d, x).dir => Tidy(UnitsIn(f, d, c)) /\ Holds(f, d, c) = {}
        <4> SUFFICES ASSUME At(d, x).dir PROVE Tidy(UnitsIn(f, d, c)) /\ Holds(f, d, c) = {}
          OBVIOUS
        <4>1. Append(q, n) \in DOMAIN T /\ T[Append(q, n)] = c
          BY <1>6, <1>7, <1>8, <2>2 DEF Tree
        <4>2. Tidy(UnitsIn(f, d, c))
          BY <1>6, <4>1 DEF Tree, DirOK
        <4> QED BY <1>3, <1>8, <1>9, <4>2, EmptyDir
      <3>2. PICK V : Drops(T, p0, At(d, x), V)
        <4>1. CASE At(d, x).dir
          <5> DEFINE W == [p \in DOMAIN T \ {p0} |-> T[p]]
          <5>1. /\ DOMAIN W = DOMAIN T \ {p0} /\ W = [p \in DOMAIN W |-> W[p]]
                /\ \A p \in DOMAIN W : W[p] = T[p]
            OBVIOUS
          <5> HIDE DEF W
          <5> QED BY <4>1, <5>1 DEF Drops
        <4>2. CASE ~At(d, x).dir
          BY <4>2 DEF Drops
        <4> QED BY <4>1, <4>2
      <3>3. PICK Y : Y = X \cup {x}
        OBVIOUS
      <3>4. x \in Holds(f, d, T[q]) /\ p0 = Append(q, At(d, x).name)
        BY <1>7, <1>8
      <3>5. At(d, x).dir => Holds(f, d, At(d, x).cluster) = {}
        BY <1>8, <3>1
      <3>8. Goes(f, d, T, X, q, x, V, Y)
        BY <1>3, <1>6, <1>7, <2>2, <3>2, <3>3, <3>4, <3>5, EntryGoes
      <3>6. /\ Tree(f, d, V, Y) /\ Owners(f, d, Y) /\ Heads(d, Y) \subseteq Heads(d, X)
            /\ At(d, x).cluster # 0 => Loose(f, d, Y, At(d, x).cluster)
            /\ q \in DOMAIN V /\ V[q] = T[q]
            /\ \A y \in EntrySlots(d) : \E p \in DOMAIN V : y \in Holds(f, d, T[p]) /\ V[p] = T[p]
        BY <3>8 DEF Goes
      <3>7. Damage(f, d, V, Y, B \cup {p0})
        <4>1. ASSUME NEW y \in Y
              PROVE  \E p \in DOMAIN V : y \in Holds(f, d, V[p]) /\ Append(p, At(d, y).name) \in B \cup {p0}
          <5>1. CASE y = x
            BY <3>4, <3>6, <5>1
          <5>2. CASE y # x
            <6>1. PICK p \in DOMAIN T : y \in Holds(f, d, T[p]) /\ Append(p, At(d, y).name) \in B
              BY <1>6, <3>3, <5>2 DEF Damage
            <6>2. y \in EntrySlots(d)
              BY <1>6, <3>3, <5>2
            <6>3. PICK r \in DOMAIN V : y \in Holds(f, d, T[r]) /\ V[r] = T[r]
              BY <3>6, <6>2
            <6>4. r \in DOMAIN T
              BY <3>2, <6>3 DEF Drops
            <6>5. r = p
              BY <1>3, <1>6, <6>1, <6>3, <6>4, Structure
            <6> QED BY <6>1, <6>3, <6>5
          <5> QED BY <5>1, <5>2
        <4> QED BY <1>6, <1>9, <3>3, <4>1 DEF Damage
      <3> QED BY <1>7, <1>8, <3>1, <3>3, <3>6, <3>7
    <2> QED BY <2>1, <2>2
  <1>12. f = fat'[1] /\ d = data' /\ op'.parent = par /\ op'.path = p0 /\ op'.free = c /\ bad' = B
    BY <1>1, <1>2
  <1>13. DamageInv(Y)'
    <2>1. ASSUME ~reused, NEW y \in Y, At(d, y).cluster # 0
          PROVE  Loose(f, d, Y, At(d, y).cluster)
      <3>1. CASE y = x
        BY <1>8, <1>11, <2>1, <3>1
      <3>2. CASE y # x
        BY <1>10, <1>11, <2>1, <3>2 DEF Loose
      <3> QED BY <3>1, <3>2
    <2> QED BY <1>2, <1>5, <1>12, <2>1 DEF DamageInv
  <1>14. ClearInv(Y)'
    <2>1. x \in Y \cap Holds(f, d, par) /\ At(d, x).name = Last(op'.path)
      BY <1>1, <1>8, <1>11, <1>12
    <2>2. c # 0 => Loose(f, d, Y, c) /\ pc' = "free" /\ copy' = 1 /\ cl' = c
      BY <1>1, <1>2, <1>4, <1>11
    <2>3. pc' = "free" => c # 0 /\ cl' = c
      BY <1>1, <1>2, <1>4
    <2>4. ~(copy' > 1)
      BY <1>2
    <2> QED BY <1>8, <1>11, <1>12, <2>1, <2>2, <2>3, <2>4 DEF ClearInv
  <1>15. MakeInv(Y)' /\ DoneInv(Y)'
    BY <1>4, <1>5 DEF MakeInv, DoneInv
  <1>16. Parent(op'.path) \in DOMAIN V /\ V[Parent(op'.path)] = op'.parent
    BY <1>1, <1>11, <1>12
  <1>17. StructInv(V, Y)'
    BY <1>5, <1>11, <1>12, <1>13, <1>14, <1>15, <1>16 DEF StructInv
  <1> QED BY <1>3, <1>12, <1>17 DEF TreeInv

\* The calls.
LEMMA CallTree ==
    ASSUME DiskInv, TreeInv, Call
    PROVE  TreeInv'
  <1>1. fat[1] \in Fats /\ data \in DataAreas /\ bad \subseteq Seq(Names) /\ FatOK(fat[1])
    BY At1 DEF TreeInv
  <1>2. PICK T, X : StructInv(T, X)
    BY DEF TreeInv
  <1>3. CASE Reject
    <2>1. UNCHANGED <<fat, data, pc, op, cl, nxt, copy, head, tail, cnt, growing, bad, reused>>
      BY <1>3 DEF Reject, diskVars, regVars, histVars
    <2> QED BY <1>1, <1>2, <2>1
            DEF TreeInv, StructInv, DamageInv, ClearInv, MakeInv, DoneInv, Suspects, Active,
                Clearing, Fresh, NotThere, Filled
  <1>4. CASE \E p \in Paths : Beyond(p)
    <2>1. /\ pc \in {"idle", "beyond"} /\ pc' = "beyond"
          /\ UNCHANGED <<fat, data, op, bad, reused>>
      BY <1>4 DEF Beyond, diskVars, regVars, histVars
    <2>2. ~Active' /\ ~Clearing' /\ Suspects' = bad /\ Suspects = bad
      BY <2>1 DEF Active, Clearing, Suspects
    <2>3. DamageInv(X)'
      BY <1>2, <2>1, <2>2 DEF StructInv, DamageInv
    <2>4. StructInv(T, X)'
      BY <1>2, <2>1, <2>2, <2>3 DEF StructInv, ClearInv, MakeInv, DoneInv
    <2> QED BY <1>1, <2>1, <2>4 DEF TreeInv
  <1>5. CASE Begins
    <2>1. PICK o \in Ops : /\ pc = "idle" /\ Start(o) /\ Sound(o)
                           /\ ~Tainted(o.path) /\ Chosen(fat[1], data, o)
      BY <1>5 DEF Begins
    <2>2. Suspects = bad
      BY <2>1 DEF Suspects, Clearing, Active
    <2>3. Tree(fat[1], data, T, X) /\ Owners(fat[1], data, X) /\ Damage(fat[1], data, T, X, bad)
      BY <1>2, <2>2 DEF StructInv
    <2>4. Ready(o, T, X, fat[1], data, Parent(o.path), Last(o.path))
      BY <1>1, <2>1, <2>3, BeginReady
    <2>5. CASE o.del
      BY <1>1, <1>2, <2>1, <2>4, <2>5, BeginOld
    <2>6. CASE ~o.del
      BY <1>1, <1>2, <2>1, <2>4, <2>6, BeginNew
    <2> QED BY <2>5, <2>6
  <1> QED BY <1>1, <1>3, <1>4, <1>5, CallFound

\* Every step keeps the tree.
LEMMA NextTree == NamesFit /\ DiskInv /\ TreeInv /\ [Next]_vars => TreeInv'
  <1>1. SUFFICES ASSUME NamesFit, DiskInv, TreeInv, [Next]_vars PROVE TreeInv'
    OBVIOUS
  <1>2. CASE Next
    <2>1. CASE \E ok \in BOOLEAN : (ok \/ faults < MaxFaults) /\ (FreeInfo(ok) \/ AllocInfo(ok))
      <3>1. PICK ok \in BOOLEAN : FreeInfo(ok) \/ AllocInfo(ok)
        BY <2>1
      <3> QED BY <1>1, <3>1, FreeInfoTree, AllocInfoTree
    <2>2. CASE \E r : Returns(r)
      BY <1>1, <2>2, ReturnTree
    <2>3. ~NotFound
      BY <1>1, EntryIsFound
    <2> QED BY <1>1, <1>2, <2>1, <2>2, <2>3, Steps, CallTree, FreeTree, DeleteTree, MarkTree,
               ZeroTree, LinkTree, WriteTree, AddTree, GrowTree, FaultTree
  <1>3. CASE UNCHANGED vars
    <2>1. UNCHANGED <<fat, data, pc, op, cl, nxt, copy, head, tail, cnt, growing, bad, reused>>
      BY <1>3 DEF vars, diskVars, regVars, histVars
    <2>2. PICK T, X : StructInv(T, X)
      BY <1>1 DEF TreeInv
    <2> QED BY <1>1, <2>1, <2>2
            DEF TreeInv, StructInv, DamageInv, ClearInv, MakeInv, DoneInv, Suspects, Active,
                Clearing, Fresh, NotThere, Filled
  <1> QED BY <1>1, <1>2, <1>3

\* The disk is a tree of directories at every point of every operation, after
\* any faults, but for entries on the paths of the operations that were cut off.
THEOREM TreeInvariant ==
    ASSUME NamesFit
    PROVE  Spec => []TreeInv
  <1>1. DiskInv /\ TreeInv /\ [Next]_vars => TreeInv'
    BY NextTree
  <1> QED BY <1>1, InitTree, DiskInvariant, PTL DEF Spec
=============================================================================

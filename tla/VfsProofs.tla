----------------------------- MODULE VfsProofs ------------------------------
(***************************************************************************)
(* For every set of names, depth, mount table and kind of file systems:    *)
(* resolution is longest-prefix-match, the trees stay trees, a listing is  *)
(* what can be found, and an operation is seen at one path at most. For    *)
(* the shell's commands: the TmpFs keeps the promise of FileStore, and the *)
(* working directory is lost only by its own removal.                      *)
(*                                                                         *)
(* The loops (walk, resolve) are recursive functions, reasoned about with  *)
(* the lemmas of Induction. The theorems on Vfs cite VfsAssumption alone.  *)
(***************************************************************************)
EXTENDS Shell, Induction, SequenceTheorems, FiniteSetTheorems

-----------------------------------------------------------------------------
(* Paths.                                                                  *)

\* A path is a sequence of names, up to MaxDepth of them.
LEMMA PathFacts ==
    ASSUME NEW p \in Paths
    PROVE  /\ p \in Seq(Names) /\ Len(p) \in Nat /\ Len(p) <= MaxDepth
           /\ DOMAIN p = 1..Len(p)
  <1>1. PICK n \in 0..MaxDepth : p \in [1..n -> Names]
    BY DEF Paths
  <1>2. MaxDepth \in Nat
    BY VfsAssumption
  <1>3. n \in Nat /\ p \in Seq(Names)
    BY <1>1, <1>2, SeqDef
  <1>4. Len(p) = n
    BY <1>1, <1>3
  <1> QED BY <1>1, <1>2, <1>3, <1>4

\* Conversely.
LEMMA IsPath ==
    ASSUME NEW p \in Seq(Names), Len(p) <= MaxDepth
    PROVE  p \in Paths
  <1>1. MaxDepth \in Nat /\ Len(p) \in Nat
    BY VfsAssumption
  <1>2. p \in [1..Len(p) -> Names] /\ Len(p) \in 0..MaxDepth
    BY <1>1
  <1> QED BY <1>2 DEF Paths

\* What a path begins with, and what it ends with, is a path.
LEMMA SubPath ==
    ASSUME NEW p \in Paths, NEW i \in Nat, i <= Len(p)
    PROVE  /\ SubSeq(p, 1, i) \in Paths /\ Len(SubSeq(p, 1, i)) = i
           /\ \A k \in 1..i : SubSeq(p, 1, i)[k] = p[k]
           /\ SubSeq(p, i + 1, Len(p)) \in Paths
           /\ Len(SubSeq(p, i + 1, Len(p))) = Len(p) - i
           /\ \A k \in 1..(Len(p) - i) : SubSeq(p, i + 1, Len(p))[k] = p[i + k]
  <1>1. p \in Seq(Names) /\ Len(p) \in Nat /\ Len(p) <= MaxDepth /\ MaxDepth \in Nat
    BY PathFacts, VfsAssumption
  <1>2. /\ SubSeq(p, 1, i) \in Seq(Names) /\ Len(SubSeq(p, 1, i)) = i
        /\ \A k \in 1..i : SubSeq(p, 1, i)[k] = p[k]
    BY <1>1
  <1>3. /\ SubSeq(p, i + 1, Len(p)) \in Seq(Names)
        /\ Len(SubSeq(p, i + 1, Len(p))) = Len(p) - i
        /\ \A k \in 1..(Len(p) - i) : SubSeq(p, i + 1, Len(p))[k] = p[i + k]
    BY <1>1
  <1>4. SubSeq(p, 1, i) \in Paths
    <2>1. Len(SubSeq(p, 1, i)) <= MaxDepth
      BY <1>1, <1>2
    <2> QED BY <1>2, <2>1, IsPath
  <1>5. SubSeq(p, i + 1, Len(p)) \in Paths
    <2>1. Len(SubSeq(p, i + 1, Len(p))) <= MaxDepth
      BY <1>1, <1>3
    <2> QED BY <1>3, <2>1, IsPath
  <1> QED BY <1>2, <1>3, <1>4, <1>5

\* Paths are equal when they have the same names.
LEMMA SamePath ==
    ASSUME NEW p \in Paths, NEW q \in Paths, Len(p) = Len(q),
           \A k \in 1..Len(p) : p[k] = q[k]
    PROVE  p = q
  BY PathFacts, SeqEqual

\* "/" is a path, the only one without a name.
LEMMA RootPath ==
    /\ <<>> \in Paths
    /\ \A p \in Paths : p = <<>> <=> Len(p) = 0
  <1>1. <<>> \in Paths
    <2>1. <<>> \in Seq(Names) /\ Len(<<>>) <= MaxDepth
      BY VfsAssumption
    <2> QED BY <2>1, IsPath
  <1> QED BY <1>1, PathFacts

\* The parent and the name of a path below "/", and the children of a path.
LEMMA ParentFacts ==
    ASSUME NEW p \in Paths, p # <<>>
    PROVE  /\ Front(p) \in Paths /\ Len(Front(p)) = Len(p) - 1 /\ Len(p) >= 1
           /\ Front(p) # p /\ Last(p) \in Names
           /\ Child(Front(p), Last(p)) = p
  <1>1. p \in Seq(Names) /\ Len(p) \in Nat /\ Len(p) >= 1 /\ DOMAIN p = 1..Len(p)
    BY PathFacts, RootPath
  <1>2. /\ Front(p) \in Paths /\ Len(Front(p)) = Len(p) - 1
        /\ \A k \in 1..(Len(p) - 1) : Front(p)[k] = p[k]
    BY <1>1, SubPath DEF Front
  <1>3. Last(p) \in Names
    BY <1>1 DEF Last
  <1>4. Front(p) \in Seq(Names)
    BY <1>2, PathFacts
  <1>5. /\ Child(Front(p), Last(p)) \in Seq(Names)
        /\ Len(Child(Front(p), Last(p))) = Len(p)
        /\ \A k \in 1..(Len(p) - 1) : Child(Front(p), Last(p))[k] = p[k]
        /\ Child(Front(p), Last(p))[Len(p)] = p[Len(p)]
    <2> DEFINE f == Front(p)
               x == Last(p)
    <2>1. f \in Seq(Names) /\ x \in Names /\ Len(f) = Len(p) - 1
          /\ \A k \in 1..(Len(p) - 1) : f[k] = p[k]
      BY <1>2, <1>3, <1>4
    <2>2. x = p[Len(p)]
      BY DEF Last
    <2> HIDE DEF f, x
    <2>3. /\ Append(f, x) \in Seq(Names) /\ Len(Append(f, x)) = Len(f) + 1
          /\ \A k \in 1..Len(f) : Append(f, x)[k] = f[k]
          /\ Append(f, x)[Len(f) + 1] = x
      BY <2>1
    <2>4. Len(f) + 1 = Len(p)
      BY <1>1, <2>1
    <2> QED BY <2>1, <2>2, <2>3, <2>4 DEF Child, f, x
  <1>6. Child(Front(p), Last(p)) = p
    BY <1>1, <1>5, SeqEqual
  <1> QED BY <1>1, <1>2, <1>3, <1>6

\* A child of a path that is not too deep is a path.
LEMMA ChildFacts ==
    ASSUME NEW p \in Paths, NEW n \in Names, Len(p) < MaxDepth
    PROVE  /\ Child(p, n) \in Paths /\ Child(p, n) # <<>>
           /\ Front(Child(p, n)) = p /\ Last(Child(p, n)) = n
           /\ Len(Child(p, n)) = Len(p) + 1
           /\ \A k \in 1..Len(p) : Child(p, n)[k] = p[k]
  <1>1. p \in Seq(Names) /\ Len(p) \in Nat /\ MaxDepth \in Nat
    BY PathFacts, VfsAssumption
  <1>2. /\ Child(p, n) \in Seq(Names) /\ Len(Child(p, n)) = Len(p) + 1
        /\ \A k \in 1..Len(p) : Child(p, n)[k] = p[k]
        /\ Child(p, n)[Len(p) + 1] = n
    BY <1>1 DEF Child
  <1>3. Child(p, n) \in Paths /\ Child(p, n) # <<>>
    BY <1>1, <1>2, IsPath, RootPath
  <1> HIDE DEF Child
  <1>4. /\ Front(Child(p, n)) \in Paths /\ Len(Front(Child(p, n))) = Len(p)
        /\ \A k \in 1..Len(p) : Front(Child(p, n))[k] = Child(p, n)[k]
    <2>1. Len(Child(p, n)) - 1 = Len(p) /\ Len(p) <= Len(Child(p, n))
      BY <1>1, <1>2
    <2> QED BY <1>1, <1>3, <2>1, SubPath DEF Front
  <1>5. Front(Child(p, n)) = p
    BY <1>2, <1>4, SamePath
  <1> QED BY <1>2, <1>3, <1>5 DEF Last
-----------------------------------------------------------------------------
(* Looking up.                                                             *)

\* A tree of a file system.
IsTree(t) ==
    /\ DOMAIN t = Paths /\ t[<<>>] = DirNode
    /\ \A p \in Paths : IsNode(t[p])

\* What a lookup can come across.
Found(t) ==
    {x \in {t[p] : p \in Paths} \cup {DirNode, Err("NotADir"), Err("NotFound")} :
        x.k \in {"error", "file", "dir"}}

\* One round of the loop over the names of p.
WalkStep(t, p, d, i) ==
    LET x == t[SubSeq(p, 1, i)]
    IN  CASE d.k = "error" -> d
          [] d.k = "file"  -> Err("NotADir")
          [] d.k = "dir"   -> IF x = Absent THEN Err("NotFound") ELSE x

\* The kinds of nodes are told apart by their first field.
LEMMA NodeKinds ==
    ASSUME NEW t, IsTree(t), NEW p \in Paths
    PROVE  /\ t[p].k \in {"absent", "dir", "file"}
           /\ t[p].k = "absent" <=> t[p] = Absent
           /\ t[p].k = "dir" <=> t[p] = DirNode
           /\ t[p].k = "file" => t[p].d \in Seq(Nat) /\ Len(t[p].d) <= MaxLen
  <1>1. Absent.k = "absent" /\ DirNode.k = "dir"
    BY DEF Absent, DirNode
  <1>2. IsNode(t[p])
    BY DEF IsTree
  <1> QED BY <1>1, <1>2 DEF IsNode

\* A round ends with something that can be come across.
LEMMA WalkStepFound ==
    ASSUME NEW t, IsTree(t), NEW p \in Paths, NEW d \in Found(t), NEW i \in 1..Len(p)
    PROVE  WalkStep(t, p, d, i) \in Found(t)
  <1> DEFINE q == SubSeq(p, 1, i)
  <1>1. q \in Paths
    BY PathFacts, SubPath
  <1>2. d.k \in {"error", "file", "dir"}
    BY DEF Found
  <1>3. Err("NotADir") \in Found(t) /\ Err("NotFound") \in Found(t)
    BY DEF Found, Err
  <1>4. t[q] # Absent => t[q] \in Found(t)
    BY <1>1, NodeKinds DEF Found
  <1> HIDE DEF q
  <1>5. WalkStep(t, p, d, i) =
          CASE d.k = "error" -> d
            [] d.k = "file"  -> Err("NotADir")
            [] d.k = "dir"   -> IF t[q] = Absent THEN Err("NotFound") ELSE t[q]
    BY DEF WalkStep, q
  <1> QED BY <1>2, <1>3, <1>4, <1>5

\* Walk is the last value of the loop.
LEMMA WalkLoop ==
    ASSUME NEW t, IsTree(t), NEW p \in Paths
    PROVE  \E at \in [0..Len(p) -> Found(t)] :
              /\ at[0] = DirNode
              /\ \A i \in 1..Len(p) : at[i] = WalkStep(t, p, at[i - 1], i)
              /\ Walk(t, p) = at[Len(p)]
  <1> DEFINE n    == Len(p)
             step == [di \in Found(t) \X (1..n) |-> WalkStep(t, p, di[1], di[2])]
             Body(f, i) == IF i = 0 THEN DirNode ELSE WalkStep(t, p, f[i - 1], i)
             w == CHOOSE f : f = [i \in 0..n |-> Body(f, i)]
  <1>1. n \in Nat
    BY PathFacts
  <1>2. DirNode \in Found(t)
    BY DEF Found, DirNode
  <1>3. step \in [Found(t) \X (1..n) -> Found(t)]
    BY WalkStepFound
  <1>4. PICK g \in [0..n -> Found(t)] :
            g[0] = DirNode /\ \A i \in 1..n : g[i] = step[<<g[i - 1], i>>]
    <2> HIDE DEF n, step
    <2>1. IsLoop(n, Found(t), DirNode, step)
      BY <1>1, <1>2, <1>3 DEF IsLoop
    <2>2. PICK g : Iterates(g, n, Found(t), DirNode, step)
      BY <2>1, Iteration
    <2> QED BY <2>2 DEF Iterates
  <1>5. \A i \in 1..n : g[i] = WalkStep(t, p, g[i - 1], i)
    <2>1. \A i \in 1..n : i - 1 \in 0..n
      BY <1>1
    <2> QED BY <1>4, <2>1
  <1> HIDE DEF n
  <1>6. g = [i \in 0..n |-> Body(g, i)]
    <2>1. ASSUME NEW i \in 0..n PROVE g[i] = Body(g, i)
      <3>1. CASE i = 0
        BY <1>4, <3>1
      <3>2. CASE i # 0
        <4>1. i \in 1..n
          BY <1>1, <3>2
        <4> QED BY <1>5, <3>2, <4>1
      <3> QED BY <3>1, <3>2
    <2> HIDE DEF Body
    <2> QED BY <1>4, <2>1
  <1>7. w = [i \in 0..n |-> Body(w, i)]
    <2> HIDE DEF Body
    <2> QED BY <1>6
  <1>8. Walk(t, p) = w[n]
    BY DEF Walk, WalkStep, n
  <1> HIDE DEF w
  <1>9. \A i \in 0..n : w[i] = g[i]
    <2>1. w[0] = g[0]
      BY <1>1, <1>4, <1>7
    <2>2. ASSUME NEW i \in 1..n, w[i - 1] = g[i - 1] PROVE w[i] = g[i]
      <3>1. i \in 0..n /\ i # 0
        BY <1>1
      <3>2. w[i] = WalkStep(t, p, w[i - 1], i)
        BY <1>7, <3>1
      <3> QED BY <1>5, <2>2, <3>2
    <2>3. SameRounds(w, g, n)
      BY <1>1, <2>1, <2>2 DEF SameRounds
    <2>4. PICK f, h : f = w /\ h = g
      OBVIOUS
    <2>5. SameRounds(f, h, n)
      BY <2>3, <2>4
    <2>6. \A i \in 0..n : f[i] = h[i]
      BY <2>5, SameIteration
    <2> QED BY <2>4, <2>6
  <1>10. n \in 0..n
    BY <1>1
  <1> QED BY <1>4, <1>5, <1>8, <1>9, <1>10 DEF n

\* "/" is a directory, and a path is looked up in what its parent leads to.
LEMMA WalkChild ==
    ASSUME NEW t, IsTree(t)
    PROVE  /\ Walk(t, <<>>) = DirNode
           /\ \A p \in Paths : Walk(t, p) \in Found(t)
           /\ \A p \in Paths :
                p # <<>> =>
                  Walk(t, p) =
                    LET d == Walk(t, Front(p))
                    IN  CASE d.k = "error" -> d
                          [] d.k = "file"  -> Err("NotADir")
                          [] d.k = "dir"   -> IF t[p] = Absent THEN Err("NotFound")
                                                               ELSE t[p]
  <1>1. Walk(t, <<>>) = DirNode
    <2>1. PICK at \in [0..Len(<<>>) -> Found(t)] :
              at[0] = DirNode /\ Walk(t, <<>>) = at[Len(<<>>)]
      BY RootPath, WalkLoop
    <2> QED BY <2>1
  <1>2. ASSUME NEW p \in Paths
        PROVE  Walk(t, p) \in Found(t)
    <2>1. PICK at \in [0..Len(p) -> Found(t)] : Walk(t, p) = at[Len(p)]
      BY WalkLoop
    <2>2. Len(p) \in 0..Len(p)
      BY PathFacts
    <2> QED BY <2>1, <2>2
  <1>3. ASSUME NEW p \in Paths, p # <<>>
        PROVE  Walk(t, p) = WalkStep(t, p, Walk(t, Front(p)), Len(p))
    <2> DEFINE q == Front(p)
               m == Len(p) - 1
    <2>1. /\ p \in Seq(Names) /\ Len(p) \in Nat /\ Len(p) >= 1
          /\ q \in Paths /\ Len(q) = m /\ m \in Nat
      BY <1>3, PathFacts, ParentFacts
    <2>2. PICK f \in [0..Len(p) -> Found(t)] :
            /\ f[0] = DirNode /\ Walk(t, p) = f[Len(p)]
            /\ \A i \in 1..Len(p) : f[i] = WalkStep(t, p, f[i - 1], i)
      BY WalkLoop
    <2>3. PICK g \in [0..Len(q) -> Found(t)] :
            /\ g[0] = DirNode /\ Walk(t, q) = g[Len(q)]
            /\ \A i \in 1..Len(q) : g[i] = WalkStep(t, q, g[i - 1], i)
      BY <2>1, WalkLoop
    <2>4. ASSUME NEW i \in 1..m PROVE SubSeq(p, 1, i) = SubSeq(q, 1, i)
      <3>1. i \in Nat /\ i <= Len(p) /\ i <= Len(q)
        BY <2>1
      <3>2. /\ SubSeq(p, 1, i) \in Paths /\ Len(SubSeq(p, 1, i)) = i
            /\ \A k \in 1..i : SubSeq(p, 1, i)[k] = p[k]
        BY <3>1, SubPath
      <3>3. /\ SubSeq(q, 1, i) \in Paths /\ Len(SubSeq(q, 1, i)) = i
            /\ \A k \in 1..i : SubSeq(q, 1, i)[k] = q[k]
        BY <2>1, <3>1, SubPath
      <3>4. \A k \in 1..m : q[k] = p[k]
        BY <2>1, SubPath DEF Front
      <3>5. \A k \in 1..i : SubSeq(p, 1, i)[k] = SubSeq(q, 1, i)[k]
        BY <2>1, <3>2, <3>3, <3>4
      <3> QED BY <3>2, <3>3, <3>5, SamePath
    <2> HIDE DEF q, m
    <2>5. ASSUME NEW i \in 1..m, f[i - 1] = g[i - 1] PROVE f[i] = g[i]
      <3>1. i \in 1..Len(p) /\ i \in 1..Len(q)
        BY <2>1 DEF m
      <3>2. f[i] = WalkStep(t, p, f[i - 1], i) /\ g[i] = WalkStep(t, q, g[i - 1], i)
        BY <2>2, <2>3, <3>1
      <3> QED BY <2>4, <2>5, <3>2 DEF WalkStep
    <2>6. \A i \in 0..m : f[i] = g[i]
      <3>1. SameRounds(f, g, m)
        BY <2>1, <2>2, <2>3, <2>5 DEF SameRounds
      <3>2. PICK a, b : a = f /\ b = g
        OBVIOUS
      <3>3. SameRounds(a, b, m)
        BY <3>1, <3>2
      <3>4. \A i \in 0..m : a[i] = b[i]
        BY <3>3, SameIteration
      <3> QED BY <3>2, <3>4
    <2>7. f[m] = Walk(t, q) /\ m = Len(p) - 1 /\ Len(p) \in 1..Len(p)
      <3>1. m \in 0..m
        BY <2>1
      <3> QED BY <2>1, <2>3, <2>6, <3>1 DEF m
    <2> QED BY <2>2, <2>7 DEF q
  <1>4. ASSUME NEW p \in Paths, p # <<>>
        PROVE  SubSeq(p, 1, Len(p)) = p
    <2>1. /\ Len(p) \in Nat /\ SubSeq(p, 1, Len(p)) \in Paths
          /\ Len(SubSeq(p, 1, Len(p))) = Len(p)
          /\ \A k \in 1..Len(p) : SubSeq(p, 1, Len(p))[k] = p[k]
      BY PathFacts, SubPath
    <2> QED BY <2>1, SamePath
  <1> QED BY <1>1, <1>2, <1>3, <1>4 DEF WalkStep

\* Where no node is stranded, walking the names of a path ends at what the
\* tree has there, or in an error when it has nothing.
LEMMA WalkIsLookup ==
    ASSUME NEW t, IsTree(t), Rooted(t), NEW p \in Paths
    PROVE  /\ t[p] # Absent => Walk(t, p) = t[p]
           /\ t[p] = Absent => Walk(t, p).k = "error"
  <1> DEFINE Good(q) == /\ t[q] # Absent => Walk(t, q) = t[q]
                        /\ t[q] = Absent => Walk(t, q).k = "error"
             P == {i \in Nat : \A q \in Paths : Len(q) = i => Good(q)}
  <1>1. 0 \in P
    <2>1. Good(<<>>)
      <3>1. Walk(t, <<>>) = DirNode
        BY WalkChild
      <3> QED BY <3>1 DEF IsTree, DirNode, Absent
    <2> HIDE DEF Good
    <2> QED BY <2>1, RootPath
  <1>2. ASSUME NEW i \in 1..MaxDepth, i - 1 \in P PROVE i \in P
    <2> SUFFICES ASSUME NEW q \in Paths, Len(q) = i PROVE Good(q)
      BY VfsAssumption
    <2>0. MaxDepth \in Nat /\ i \in Nat /\ i >= 1
      BY VfsAssumption
    <2>1. q # <<>> /\ Front(q) \in Paths /\ Len(Front(q)) = i - 1
      BY <2>0, RootPath, ParentFacts
    <2>2. Good(Front(q))
      BY <1>2, <2>1
    <2> DEFINE d == Walk(t, Front(q))
    <2>3. Walk(t, q) = CASE d.k = "error" -> d
                         [] d.k = "file"  -> Err("NotADir")
                         [] d.k = "dir"   -> IF t[q] = Absent THEN Err("NotFound")
                                                              ELSE t[q]
      BY <2>1, WalkChild
    <2>4. d \in Found(t)
      BY <2>1, WalkChild
    <2>5. d.k \in {"error", "file", "dir"}
      BY <2>4 DEF Found
    <2>6. Err("NotADir").k = "error" /\ Err("NotFound").k = "error"
      BY DEF Err
    <2>7. t[q] # Absent => d = DirNode
      <3>1. t[q] # Absent => t[Front(q)] = DirNode
        BY <2>1 DEF Rooted
      <3>2. DirNode # Absent
        BY DEF DirNode, Absent
      <3> QED BY <2>2, <3>1, <3>2
    <2>8. DirNode.k = "dir"
      BY DEF DirNode
    <2> HIDE DEF d
    <2>9. CASE t[q] # Absent
      BY <2>3, <2>7, <2>8, <2>9
    <2>10. CASE t[q] = Absent
      BY <2>3, <2>5, <2>6, <2>10
    <2> QED BY <2>9, <2>10
  <1> HIDE DEF P
  <1>3. \A i \in 0..MaxDepth : i \in P
    BY <1>1, <1>2, UpTo, VfsAssumption
  <1>4. Len(p) \in 0..MaxDepth
    BY PathFacts, VfsAssumption
  <1> QED BY <1>3, <1>4 DEF P
-----------------------------------------------------------------------------
(* Resolution.                                                             *)

\* pre is abs or one of its ancestors.
Fits(abs, pre) == Len(pre) <= Len(abs) /\ SubSeq(abs, 1, Len(pre)) = pre

\* The mount table: a prefix and a file system are in one mount at most.
MountsInv ==
    /\ mounts \in Seq([prefix : Paths, fs : FsIds]) /\ Len(mounts) <= MaxMounts
    /\ \A i, j \in DOMAIN mounts :
          (mounts[i].prefix = mounts[j].prefix \/ mounts[i].fs = mounts[j].fs) => i = j

\* An ancestor has the names of its descendant, as far as it goes.
LEMMA FitsNames ==
    ASSUME NEW abs \in Paths, NEW pre \in Paths
    PROVE  Fits(abs, pre) <=>
              Len(pre) <= Len(abs) /\ \A k \in 1..Len(pre) : abs[k] = pre[k]
  <1>1. Len(abs) \in Nat /\ Len(pre) \in Nat
    BY PathFacts
  <1>2. ASSUME Len(pre) <= Len(abs)
        PROVE  SubSeq(abs, 1, Len(pre)) = pre <=> \A k \in 1..Len(pre) : abs[k] = pre[k]
    <2> DEFINE s == SubSeq(abs, 1, Len(pre))
    <2>1. s \in Paths /\ Len(s) = Len(pre) /\ \A k \in 1..Len(pre) : s[k] = abs[k]
      BY <1>1, <1>2, SubPath
    <2> HIDE DEF s
    <2>2. s = pre <=> \A k \in 1..Len(pre) : s[k] = pre[k]
      BY <2>1, SamePath
    <2>3. s = pre <=> \A k \in 1..Len(pre) : abs[k] = pre[k]
      BY <2>1, <2>2
    <2> QED BY <2>3 DEF s
  <1> QED BY <1>2 DEF Fits

\* resolve's test on strings, with its check that the next character is "/",
\* is the test on names: /tx is not below /t.
LEMMA UnderFits ==
    ASSUME NEW abs \in Paths, NEW pre \in Paths, pre # <<>>
    PROVE  Under(abs, pre) <=> Fits(abs, pre)
  <1> DEFINE n == Len(pre)
  <1>1. Len(abs) \in Nat /\ n \in Nat /\ n >= 1
    BY PathFacts, RootPath
  <1>2. ASSUME n <= Len(abs)
        PROVE  SubSeq(abs, 1, n - 1) = Front(pre) <=>
                  \A k \in 1..(n - 1) : abs[k] = pre[k]
    <2> DEFINE s == SubSeq(abs, 1, n - 1)
               f == Front(pre)
    <2>0. n - 1 \in Nat /\ n - 1 <= Len(abs) /\ n - 1 <= Len(pre)
      BY <1>1, <1>2
    <2>1. s \in Paths /\ Len(s) = n - 1 /\ \A k \in 1..(n - 1) : s[k] = abs[k]
      BY <2>0, SubPath
    <2>2. f \in Paths /\ Len(f) = n - 1 /\ \A k \in 1..(n - 1) : f[k] = pre[k]
      BY <2>0, SubPath DEF Front
    <2> HIDE DEF s, f
    <2>3. s = f <=> \A k \in 1..(n - 1) : s[k] = f[k]
      BY <2>1, <2>2, SamePath
    <2>4. s = f <=> \A k \in 1..(n - 1) : abs[k] = pre[k]
      BY <2>1, <2>2, <2>3
    <2> QED BY <2>4 DEF s, f
  <1>3. Under(abs, pre) <=> /\ n <= Len(abs)
                            /\ SubSeq(abs, 1, n - 1) = Front(pre)
                            /\ abs[n] = pre[n]
    BY <1>1 DEF Under, StartsWith, Last
  <1>4. (\A k \in 1..n : abs[k] = pre[k]) <=>
            (\A k \in 1..(n - 1) : abs[k] = pre[k]) /\ abs[n] = pre[n]
    <2>1. \A k \in 1..n : k \in 1..(n - 1) \/ k = n
      BY <1>1
    <2>2. n \in 1..n /\ \A k \in 1..(n - 1) : k \in 1..n
      BY <1>1
    <2> QED BY <2>1, <2>2
  <1>5. Fits(abs, pre) <=> n <= Len(abs) /\ \A k \in 1..n : abs[k] = pre[k]
    BY FitsNames
  <1> HIDE DEF n
  <1> QED BY <1>2, <1>3, <1>4, <1>5

\* One round of the loop over the mount table.
ResolveStep(abs, b, i) ==
    LET pre == mounts[i].prefix
    IN  IF pre = <<>> THEN IF b = 0 THEN i ELSE b
        ELSE IF Under(abs, pre) /\ (b = 0 \/ Len(mounts[b].prefix) < Len(pre))
             THEN i ELSE b

\* Resolve is the last value of the loop.
LEMMA ResolveLoop ==
    ASSUME MountsInv, NEW abs \in Paths
    PROVE  \E best \in [0..Len(mounts) -> 0..Len(mounts)] :
              /\ best[0] = 0
              /\ \A i \in 1..Len(mounts) : best[i] = ResolveStep(abs, best[i - 1], i)
              /\ Resolve(abs) = best[Len(mounts)]
  <1> DEFINE n    == Len(mounts)
             step == [bi \in (0..n) \X (1..n) |-> ResolveStep(abs, bi[1], bi[2])]
             Body(f, i) == IF i = 0 THEN 0 ELSE ResolveStep(abs, f[i - 1], i)
             w == CHOOSE f : f = [i \in 0..n |-> Body(f, i)]
  <1>1. n \in Nat
    BY DEF MountsInv
  <1>2. step \in [(0..n) \X (1..n) -> 0..n]
    <2>1. ASSUME NEW b \in 0..n, NEW i \in 1..n PROVE ResolveStep(abs, b, i) \in 0..n
      <3>1. i \in 0..n
        BY <1>1
      <3> QED BY <3>1 DEF ResolveStep
    <2> QED BY <2>1
  <1>3. PICK g \in [0..n -> 0..n] :
            g[0] = 0 /\ \A i \in 1..n : g[i] = step[<<g[i - 1], i>>]
    <2> HIDE DEF n, step
    <2>1. IsLoop(n, 0..n, 0, step)
      BY <1>1, <1>2 DEF IsLoop
    <2>2. PICK g : Iterates(g, n, 0..n, 0, step)
      BY <2>1, Iteration
    <2> QED BY <2>2 DEF Iterates
  <1>4. \A i \in 1..n : g[i] = ResolveStep(abs, g[i - 1], i)
    <2>1. \A i \in 1..n : i - 1 \in 0..n
      BY <1>1
    <2> QED BY <1>3, <2>1
  <1> HIDE DEF n
  <1>5. g = [i \in 0..n |-> Body(g, i)]
    <2>1. ASSUME NEW i \in 0..n PROVE g[i] = Body(g, i)
      <3>1. CASE i = 0
        BY <1>3, <3>1
      <3>2. CASE i # 0
        <4>1. i \in 1..n
          BY <1>1, <3>2
        <4> QED BY <1>4, <3>2, <4>1
      <3> QED BY <3>1, <3>2
    <2> HIDE DEF Body
    <2> QED BY <1>3, <2>1
  <1>6. w = [i \in 0..n |-> Body(w, i)]
    <2> HIDE DEF Body
    <2> QED BY <1>5
  <1>7. Resolve(abs) = w[n]
    BY DEF Resolve, ResolveStep, n
  <1> HIDE DEF w
  <1>8. \A i \in 0..n : w[i] = g[i]
    <2>1. w[0] = g[0]
      BY <1>1, <1>3, <1>6
    <2>2. ASSUME NEW i \in 1..n, w[i - 1] = g[i - 1] PROVE w[i] = g[i]
      <3>1. i \in 0..n /\ i # 0
        BY <1>1
      <3>2. w[i] = ResolveStep(abs, w[i - 1], i)
        BY <1>6, <3>1
      <3> QED BY <1>4, <2>2, <3>2
    <2>3. SameRounds(w, g, n)
      BY <1>1, <2>1, <2>2 DEF SameRounds
    <2>4. PICK f, h : f = w /\ h = g
      OBVIOUS
    <2>5. SameRounds(f, h, n)
      BY <2>3, <2>4
    <2>6. \A i \in 0..n : f[i] = h[i]
      BY <2>5, SameIteration
    <2> QED BY <2>4, <2>6
  <1>9. n \in 0..n
    BY <1>1
  <1> QED BY <1>3, <1>4, <1>7, <1>8, <1>9 DEF n

\* The mounts of the table, one by one.
LEMMA MountFacts ==
    ASSUME MountsInv
    PROVE  /\ Len(mounts) \in Nat /\ DOMAIN mounts = 1..Len(mounts)
           /\ \A i \in 1..Len(mounts) :
                mounts[i].prefix \in Paths /\ mounts[i].fs \in FsIds
  <1>1. mounts \in Seq([prefix : Paths, fs : FsIds])
    BY DEF MountsInv
  <1>2. ASSUME NEW i \in 1..Len(mounts) PROVE mounts[i] \in [prefix : Paths, fs : FsIds]
    BY <1>1, ElementOfSeq
  <1> QED BY <1>1, <1>2

\* resolve finds the longest prefix, whatever the order of the table.
LEMMA ResolveLongest ==
    ASSUME MountsInv, NEW abs \in Paths
    PROVE  /\ Resolve(abs) \in 0..Len(mounts)
           /\ Resolve(abs) = 0 => \A j \in DOMAIN mounts : ~Fits(abs, mounts[j].prefix)
           /\ Resolve(abs) # 0 =>
                 /\ Fits(abs, mounts[Resolve(abs)].prefix)
                 /\ \A j \in DOMAIN mounts :
                      Fits(abs, mounts[j].prefix) =>
                        Len(mounts[j].prefix) <= Len(mounts[Resolve(abs)].prefix)
  <1> DEFINE n == Len(mounts)
             pre(i) == mounts[i].prefix
             Best(b, i) ==
                /\ b \in 0..n
                /\ b = 0 => \A j \in 1..i : ~Fits(abs, pre(j))
                /\ b # 0 => /\ Fits(abs, pre(b))
                            /\ \A j \in 1..i : Fits(abs, pre(j)) => Len(pre(j)) <= Len(pre(b))
  <1>1. n \in Nat /\ DOMAIN mounts = 1..n /\ \A i \in 1..n : pre(i) \in Paths
    BY MountFacts
  <1>2. PICK best \in [0..n -> 0..n] :
              /\ best[0] = 0
              /\ \A i \in 1..n : best[i] = ResolveStep(abs, best[i - 1], i)
              /\ Resolve(abs) = best[n]
    BY ResolveLoop
  <1> DEFINE P == {i \in 0..n : Best(best[i], i)}
  <1>3. 0 \in P
    BY <1>1, <1>2
  <1>4. ASSUME NEW i \in 1..n, i - 1 \in P PROVE i \in P
    <2> DEFINE b == best[i - 1]
               c == best[i]
               q == pre(i)
    <2>1. /\ i \in Nat /\ i \in 0..n /\ i - 1 \in 0..n /\ b \in 0..n /\ c \in 0..n
          /\ q \in Paths /\ Len(q) \in Nat
      BY <1>1, <1>2, PathFacts
    <2>2. Best(b, i - 1)
      BY <1>4
    <2>3. c = IF q = <<>> THEN IF b = 0 THEN i ELSE b
              ELSE IF Under(abs, q) /\ (b = 0 \/ Len(pre(b)) < Len(q)) THEN i ELSE b
      BY <1>2 DEF ResolveStep
    <2>4. q = <<>> => Fits(abs, q) /\ Len(q) = 0
      <3>1. Len(<<>>) = 0 /\ Len(abs) \in Nat
        BY PathFacts
      <3>2. q = <<>> => Fits(abs, q)
        BY <2>1, <3>1, FitsNames
      <3> QED BY <3>1, <3>2
    <2>5. q # <<>> => (Under(abs, q) <=> Fits(abs, q))
      BY <2>1, UnderFits
    <2>6. b # 0 => pre(b) \in Paths /\ Len(pre(b)) \in Nat
      BY <1>1, <2>1, PathFacts
    <2>7. \A j \in 1..i : j \in 1..(i - 1) \/ j = i
      BY <2>1
    <2>8. \A j \in 1..(i - 1) : Len(pre(j)) \in Nat
      BY <1>1, PathFacts
    <2> HIDE DEF b, c, n, pre
    <2>9. CASE c = b
      <3>1. Fits(abs, q) => b # 0 /\ Len(q) <= Len(pre(b))
        BY <2>1, <2>3, <2>4, <2>5, <2>6, <2>9
      <3>2. Best(b, i)
        BY <2>1, <2>2, <2>7, <3>1 DEF q
      <3> QED BY <2>1, <2>9, <3>2 DEF c
    <2>10. CASE c # b
      <3>1. c = i /\ Fits(abs, q) /\ (b = 0 \/ Len(pre(b)) < Len(q))
        BY <2>3, <2>4, <2>5, <2>10
      <3>2. \A j \in 1..(i - 1) : Fits(abs, pre(j)) => Len(pre(j)) <= Len(q)
        BY <2>1, <2>2, <2>6, <2>8, <3>1
      <3>3. Best(i, i)
        BY <2>1, <2>7, <3>1, <3>2 DEF q
      <3> QED BY <2>1, <3>1, <3>3 DEF c
    <2> QED BY <2>9, <2>10
  <1> HIDE DEF P
  <1>5. n \in P
    <2>1. \A i \in 1..n : i - 1 \in P => i \in P
      BY <1>4
    <2> HIDE DEF n
    <2>2. \A i \in 0..n : i \in P
      BY <1>1, <1>3, <2>1, UpTo
    <2> QED BY <1>1, <2>2
  <1> QED BY <1>1, <1>2, <1>5 DEF P
-----------------------------------------------------------------------------
(* Changing a tree.                                                        *)

Ops == FileOps \cup {"mkdir", "remove"}
Results == {"ok", "NotFound", "NotADir", "IsADir", "Io", "Unsupported"}

\* A lookup that ends in a directory ends at a directory of the tree, and one
\* that fails says why.
LEMMA WalkFacts ==
    ASSUME NEW t, IsTree(t), NEW p \in Paths
    PROVE  /\ Walk(t, p).k \in {"error", "file", "dir"}
           /\ Walk(t, p).k = "dir" => t[p] = DirNode
           /\ Walk(t, p).k = "error" => Walk(t, p).why \in {"NotADir", "NotFound"}
  <1> DEFINE x == Walk(t, p)
  <1>1. x \in Found(t)
    BY WalkChild
  <1>2. /\ Err("NotADir").why = "NotADir" /\ Err("NotFound").why = "NotFound"
        /\ Err("NotADir").k = "error" /\ Err("NotFound").k = "error"
        /\ DirNode.k = "dir"
    BY DEF Err, DirNode
  <1>3. \A q \in Paths : t[q].k # "error"
    BY NodeKinds
  <1>4. CASE p = <<>>
    <2>1. x = DirNode
      BY <1>4, WalkChild
    <2> QED BY <1>2, <1>4, <2>1 DEF IsTree
  <1>5. CASE p # <<>>
    <2> DEFINE d == Walk(t, Front(p))
    <2>1. Front(p) \in Paths
      BY <1>5, ParentFacts
    <2>2. d \in Found(t)
      BY <2>1, WalkChild
    <2>3. d.k \in {"error", "file", "dir"}
      BY <2>2 DEF Found
    <2>4. x = CASE d.k = "error" -> d
                [] d.k = "file"  -> Err("NotADir")
                [] d.k = "dir"   -> IF t[p] = Absent THEN Err("NotFound") ELSE t[p]
      BY <1>5, WalkChild
    <2> HIDE DEF d, x
    <2>5. x.k = "dir" => t[p] = DirNode
      BY <1>2, <2>3, <2>4, NodeKinds
    <2>6. x.k = "error" => x.why \in {"NotADir", "NotFound"}
      BY <1>1, <1>2, <1>3 DEF Found
    <2>7. x.k \in {"error", "file", "dir"}
      BY <1>1 DEF Found
    <2> QED BY <2>5, <2>6, <2>7 DEF x
  <1> QED BY <1>4, <1>5

\* An operation that is not refused has found the parent directory.
LEMMA NotRefused ==
    ASSUME NEW t, IsTree(t), NEW p \in Paths, NEW op \in Ops,
           TmpRefused(t, op, p) = "ok" \/ FatRefused(t, op, p) = "ok"
    PROVE  /\ p # <<>> /\ t[Front(p)] = DirNode /\ RefusedInDir(t, op, p) = "ok"
           /\ Walk(t, Front(p)).k = "dir"
  <1> DEFINE d == Walk(t, Front(p))
  <1>1. p # <<>>
    BY DEF TmpRefused, FatRefused
  <1>2. Front(p) \in Paths
    BY <1>1, ParentFacts
  <1>3. /\ d.k \in {"error", "file", "dir"} /\ (d.k = "dir" => t[Front(p)] = DirNode)
        /\ d.k = "error" => d.why \in {"NotADir", "NotFound"}
    BY <1>2, WalkFacts
  <1>4. d.k # "error" /\ d.k # "file" /\ RefusedInDir(t, op, p) = "ok"
    <2>1. CASE TmpRefused(t, op, p) = "ok"
      BY <1>1, <1>3, <2>1 DEF TmpRefused
    <2>2. CASE FatRefused(t, op, p) = "ok"
      BY <1>1, <1>3, <2>2 DEF FatRefused
    <2> QED BY <2>1, <2>2
  <1> QED BY <1>1, <1>3, <1>4

\* The errors of the operations are those of FsError.
LEMMA RefusedTyped ==
    ASSUME NEW t, IsTree(t), NEW p \in Paths, NEW op \in Ops
    PROVE  TmpRefused(t, op, p) \in Results /\ FatRefused(t, op, p) \in Results
  <1> DEFINE d == Walk(t, Front(p))
  <1>1. p # <<>> => (d.k = "error" => d.why \in {"NotADir", "NotFound"})
    BY ParentFacts, WalkFacts
  <1>2. RefusedInDir(t, op, p) \in Results
    BY DEF RefusedInDir, Results, Ops
  <1>3. TmpRefused(t, op, p) \in Results
    BY <1>1, <1>2 DEF TmpRefused, Results
  <1>4. FatRefused(t, op, p) \in Results
    BY <1>1, <1>2 DEF FatRefused, Results
  <1> QED BY <1>3, <1>4

\* Putting a node x where the parent is a directory keeps a tree a tree, if
\* what is below p, were there anything, stays below a directory.
LEMMA PutTree ==
    ASSUME NEW t, IsTree(t), Rooted(t), NEW p \in Paths, p # <<>>,
           NEW x, IsNode(x), x # Absent => t[Front(p)] = DirNode,
           x = DirNode \/ Kids(t, p) = {}
    PROVE  IsTree([t EXCEPT ![p] = x]) /\ Rooted([t EXCEPT ![p] = x])
  <1> DEFINE u == [t EXCEPT ![p] = x]
  <1>1. /\ DOMAIN u = Paths /\ u[p] = x
        /\ \A q \in Paths : q # p => u[q] = t[q]
    BY DEF IsTree
  <1> HIDE DEF u
  <1>2. IsTree(u)
    BY <1>1, RootPath DEF IsTree
  <1>3. ASSUME NEW q \in Paths, q # <<>>, u[q] # Absent
        PROVE  u[Front(q)] = DirNode
    <2>1. Front(q) \in Paths /\ Front(q) # q
      BY <1>3, ParentFacts
    <2>2. CASE q = p
      BY <1>1, <1>3, <2>1, <2>2
    <2>3. CASE q # p
      <3>1. t[q] # Absent /\ t[Front(q)] = DirNode
        BY <1>1, <1>3, <2>3 DEF Rooted
      <3>2. CASE Front(q) = p
        <4>1. q \in Kids(t, p)
          BY <1>3, <3>1, <3>2 DEF Kids
        <4> QED BY <1>1, <3>2, <4>1
      <3>3. CASE Front(q) # p
        BY <1>1, <2>1, <3>1, <3>3
      <3> QED BY <3>2, <3>3
    <2> QED BY <2>2, <2>3
  <1>4. Rooted(u)
    BY <1>3 DEF Rooted
  <1> QED BY <1>2, <1>4 DEF u

\* Nothing is below what is not a directory.
LEMMA NoKids ==
    ASSUME NEW t, Rooted(t), NEW p \in Paths, t[p] # DirNode
    PROVE  Kids(t, p) = {}
  BY DEF Kids, Rooted

\* What create_file, write_file, append_file, create_dir and remove make of a
\* tree is a tree.
LEMMA AfterTree ==
    ASSUME NEW t, IsTree(t), Rooted(t), NEW p \in Paths, p # <<>>,
           t[Front(p)] = DirNode, NEW op \in Ops, RefusedInDir(t, op, p) = "ok",
           NEW d \in Seq(Nat), Len(d) <= MaxLen,
           op = "append" /\ t[p].k = "file" => Len(t[p].d) + Len(d) <= MaxLen
    PROVE  \E x : /\ After(t, op, p, d) = [t EXCEPT ![p] = x]
                  /\ IsTree(After(t, op, p, d)) /\ Rooted(After(t, op, p, d))
  <1> DEFINE x == CASE op = "create" -> FileNode(<<>>)
                    [] op = "write"  -> FileNode(d)
                    [] op = "append" -> FileNode(IF t[p] = Absent THEN d ELSE t[p].d \o d)
                    [] op = "mkdir"  -> DirNode
                    [] op = "remove" -> Absent
  <1>1. After(t, op, p, d) = [t EXCEPT ![p] = x]
    BY DEF After, IsTree
  <1>2. ASSUME NEW e \in Seq(Nat), Len(e) <= MaxLen PROVE IsNode(FileNode(e))
    BY <1>2 DEF IsNode, FileNode
  <1>3. op \in {"create", "write", "append", "mkdir", "remove"}
    BY DEF Ops, FileOps
  <1>4. IsNode(x) /\ (x = DirNode \/ Kids(t, p) = {})
    <2>1. CASE op \in FileOps
      <3>1. t[p] # DirNode
        BY <2>1 DEF RefusedInDir, FileOps
      <3>2. Kids(t, p) = {}
        BY <3>1, NoKids
      <3>3. CASE op = "create"
        <4>1. <<>> \in Seq(Nat) /\ Len(<<>>) <= MaxLen
          BY VfsAssumption
        <4>2. x = FileNode(<<>>)
          BY <3>3
        <4> QED BY <1>2, <3>2, <4>1, <4>2
      <3>4. CASE op = "write"
        <4>1. x = FileNode(d)
          BY <3>4
        <4> QED BY <1>2, <3>2, <4>1
      <3>5. CASE op = "append" /\ t[p] = Absent
        <4>1. x = FileNode(d)
          BY <3>5
        <4> QED BY <1>2, <3>2, <4>1
      <3>6. CASE op = "append" /\ t[p] # Absent
        <4> DEFINE c == t[p].d
        <4>1. t[p].k = "file" /\ c \in Seq(Nat)
          BY <3>1, <3>6, NodeKinds
        <4>2. Len(c) + Len(d) <= MaxLen
          BY <3>6, <4>1
        <4>3. x = FileNode(c \o d)
          BY <3>6
        <4> HIDE DEF c
        <4>4. c \o d \in Seq(Nat) /\ Len(c \o d) <= MaxLen
          BY <4>1, <4>2
        <4> QED BY <1>2, <3>2, <4>3, <4>4
      <3> QED BY <2>1, <3>3, <3>4, <3>5, <3>6 DEF FileOps
    <2>2. CASE op = "mkdir"
      <3>1. x = DirNode
        BY <2>2
      <3> QED BY <3>1 DEF IsNode
    <2>3. CASE op = "remove"
      <3>1. x = Absent
        BY <2>3
      <3>2. Kids(t, p) = {}
        BY <2>3 DEF RefusedInDir, FileOps
      <3> QED BY <3>1, <3>2 DEF IsNode
    <2> QED BY <2>1, <2>2, <2>3 DEF Ops
  <1> HIDE DEF x
  <1>5. IsTree([t EXCEPT ![p] = x]) /\ Rooted([t EXCEPT ![p] = x])
    BY <1>4, PutTree
  <1> QED BY <1>1, <1>5

\* A disk that is full leaves the tree, or the tree without the file.
LEMMA FullTree ==
    ASSUME NEW t, IsTree(t), Rooted(t), NEW p \in Paths, p # <<>>,
           NEW op \in Ops, NEW u \in DiskFull(t, op, p)
    PROVE  /\ IsTree(u) /\ Rooted(u)
           /\ u = t \/ \E x : u = [t EXCEPT ![p] = x]
  <1>1. CASE u = t
    BY <1>1
  <1>2. CASE u # t
    <2>1. t[p].k = "file" /\ u = [t EXCEPT ![p] = Absent]
      BY <1>2 DEF DiskFull
    <2>2. t[p] # DirNode
      BY <2>1 DEF DirNode
    <2>3. Kids(t, p) = {} /\ IsNode(Absent)
      BY <2>2, NoKids DEF IsNode
    <2>4. IsTree([t EXCEPT ![p] = Absent]) /\ Rooted([t EXCEPT ![p] = Absent])
      BY <2>3, PutTree
    <2> QED BY <2>1, <2>4
  <1> QED BY <1>1, <1>2
-----------------------------------------------------------------------------
(* The inductive invariant.                                                *)

TreesInv == DOMAIN trees = FsIds /\ \A f \in FsIds : IsTree(trees[f]) /\ Rooted(trees[f])

LastInv == last.fs \in FsIds /\ last.res \in Results

IndInv == MountsInv /\ TreesInv /\ LastInv

\* A file of a tree and what is appended to it fit the bound.
RoomFor(t, op, p, d) ==
    op = "append" /\ Walk(t, p).k = "file" => Len(Walk(t, p).d) + Len(d) <= MaxLen

\* A step changes no node but the one at p in f.
OnlyAt(f, p) ==
    \A g \in FsIds, q \in Paths : g # f \/ q # p => trees'[g][q] = trees[g][q]

\* An operation on a file system f changes one node of f at most, and leaves
\* trees.
LEMMA FsOpInd ==
    ASSUME IndInv, NEW f \in FsIds, NEW op \in Ops, NEW p \in Paths,
           NEW d \in Seq(Nat), Len(d) <= MaxLen, RoomFor(trees[f], op, p, d),
           FsOp(f, op, p, d)
    PROVE  /\ TreesInv' /\ LastInv'
           /\ trees' # trees => Kind[f] # "dev" /\ OnlyAt(f, p)
  <1> DEFINE t   == trees[f]
             res == Refused(f, op, p, d)
  <1>1. IsTree(t) /\ Rooted(t) /\ DOMAIN trees = FsIds
    BY DEF IndInv, TreesInv
  <1>2. Kind[f] \in {"tmp", "ram", "dev", "fat"}
    BY VfsAssumption
  <1>3. /\ Kind[f] = "tmp" => res = TmpRefused(t, op, p)
        /\ Kind[f] = "fat" => res = FatRefused(t, op, p)
        /\ Kind[f] = "dev" => res = DevRefused(op, p, d)
        /\ Kind[f] = "ram" => res = "Unsupported"
    BY DEF Refused
  <1>4. res \in Results
    <2>1. DevRefused(op, p, d) \in Results /\ "Unsupported" \in Results
      BY DEF DevRefused, Results
    <2>2. TmpRefused(t, op, p) \in Results /\ FatRefused(t, op, p) \in Results
      BY <1>1, RefusedTyped
    <2> QED BY <1>2, <1>3, <2>1, <2>2
  <1>5. ASSUME NEW u, IsTree(u), Rooted(u), trees' = [trees EXCEPT ![f] = u]
        PROVE  TreesInv'
    <2>1. /\ DOMAIN trees' = FsIds /\ trees'[f] = u
          /\ \A g \in FsIds : g # f => trees'[g] = trees[g]
      BY <1>1, <1>5
    <2>2. \A g \in FsIds : IsTree(trees[g]) /\ Rooted(trees[g])
      BY DEF IndInv, TreesInv
    <2>3. \A g \in FsIds : IsTree(trees'[g]) /\ Rooted(trees'[g])
      BY <1>5, <2>1, <2>2
    <2> QED BY <2>1, <2>3 DEF TreesInv, IsTree, Rooted
  <1>6. ASSUME res = "ok", Kind[f] # "dev"
        PROVE  /\ p # <<>> /\ t[Front(p)] = DirNode /\ RefusedInDir(t, op, p) = "ok"
    <2>1. TmpRefused(t, op, p) = "ok" \/ FatRefused(t, op, p) = "ok"
      BY <1>2, <1>3, <1>6
    <2> HIDE DEF t, res
    <2> QED BY <1>1, <2>1, NotRefused
  <1>7. CASE /\ last' = [fs |-> f, res |-> res]
             /\ trees' = IF res = "ok" /\ Kind[f] # "dev"
                         THEN [trees EXCEPT ![f] = After(@, op, p, d)] ELSE trees
    <2>1. LastInv'
      <3>1. last'.fs = f /\ last'.res = res
        BY <1>7
      <3> QED BY <1>4, <3>1 DEF LastInv
    <2>2. CASE res = "ok" /\ Kind[f] # "dev"
      <3>1. op = "append" /\ t[p].k = "file" => Len(t[p].d) + Len(d) <= MaxLen
        <4>1. t[p].k = "file" => t[p] # Absent
          BY DEF Absent
        <4>2. t[p] # Absent => Walk(t, p) = t[p]
          BY <1>1, WalkIsLookup
        <4> QED BY <4>1, <4>2 DEF RoomFor
      <3>2. PICK x : /\ After(t, op, p, d) = [t EXCEPT ![p] = x]
                     /\ IsTree(After(t, op, p, d)) /\ Rooted(After(t, op, p, d))
        <4>1. /\ p # <<>> /\ t[Front(p)] = DirNode /\ RefusedInDir(t, op, p) = "ok"
          BY <1>6, <2>2
        <4> HIDE DEF t
        <4> QED BY <1>1, <3>1, <4>1, AfterTree
      <3>3. trees' = [trees EXCEPT ![f] = After(t, op, p, d)]
        BY <1>1, <1>7, <2>2
      <3> HIDE DEF t, res
      <3>4. TreesInv'
        BY <1>5, <3>2, <3>3
      <3>5. OnlyAt(f, p)
        <4>1. \A q \in Paths : q # p => After(t, op, p, d)[q] = t[q]
          BY <1>1, <3>2 DEF IsTree
        <4> QED BY <1>1, <3>3, <4>1 DEF OnlyAt, t
      <3> QED BY <2>1, <2>2, <3>4, <3>5
    <2>3. CASE ~(res = "ok" /\ Kind[f] # "dev")
      <3>1. trees' = trees
        BY <1>7, <2>3
      <3> QED BY <2>1, <3>1 DEF IndInv, TreesInv, IsTree, Rooted
    <2> QED BY <2>2, <2>3
  <1>8. CASE /\ Kind[f] = "fat" /\ res = "ok" /\ op # "remove"
             /\ last' = [fs |-> f, res |-> "Io"]
             /\ \E u \in DiskFull(trees[f], op, p) : trees' = [trees EXCEPT ![f] = u]
    <2>1. LastInv'
      <3>1. last'.fs = f /\ last'.res = "Io"
        BY <1>8
      <3> QED BY <3>1 DEF LastInv, Results
    <2>2. PICK u \in DiskFull(t, op, p) : trees' = [trees EXCEPT ![f] = u]
      BY <1>8
    <2>3. p # <<>>
      BY <1>6, <1>8
    <2> HIDE DEF t, res
    <2>4. /\ IsTree(u) /\ Rooted(u)
          /\ u = t \/ \E x : u = [t EXCEPT ![p] = x]
      BY <1>1, <2>2, <2>3, FullTree
    <2>5. TreesInv'
      BY <1>5, <2>2, <2>4
    <2>6. \A q \in Paths : q # p => u[q] = t[q]
      BY <1>1, <2>4 DEF IsTree
    <2>7. OnlyAt(f, p)
      BY <1>1, <2>2, <2>6 DEF OnlyAt, t
    <2> QED BY <1>8, <2>1, <2>5, <2>7
  <1> QED BY <1>7, <1>8 DEF FsOp

\* Where an operation on abs goes: to a file system and a path in it.
LEMMA Target ==
    ASSUME IndInv, NEW abs \in Paths, Resolve(abs) # 0
    PROVE  /\ Resolve(abs) \in 1..Len(mounts)
           /\ mounts[Resolve(abs)].fs \in FsIds
           /\ mounts[Resolve(abs)].prefix \in Paths
           /\ Rel(Resolve(abs), abs) \in Paths
           /\ Len(Rel(Resolve(abs), abs)) = Len(abs) - Len(mounts[Resolve(abs)].prefix)
  <1>0. MountsInv
    BY DEF IndInv
  <1>1. Resolve(abs) \in 0..Len(mounts) /\ Fits(abs, mounts[Resolve(abs)].prefix)
    BY <1>0, ResolveLongest
  <1>2. Resolve(abs) \in 1..Len(mounts)
    BY <1>0, <1>1, MountFacts
  <1>3. mounts[Resolve(abs)].prefix \in Paths /\ mounts[Resolve(abs)].fs \in FsIds
    BY <1>0, <1>2, MountFacts
  <1>4. Len(mounts[Resolve(abs)].prefix) \in Nat
        /\ Len(mounts[Resolve(abs)].prefix) <= Len(abs)
    BY <1>1, <1>3, PathFacts DEF Fits
  <1>5. /\ Rel(Resolve(abs), abs) \in Paths
        /\ Len(Rel(Resolve(abs), abs)) = Len(abs) - Len(mounts[Resolve(abs)].prefix)
    BY <1>4, SubPath DEF Rel
  <1> QED BY <1>2, <1>3, <1>5

\* An operation through the mount table.
LEMMA OpInd ==
    ASSUME IndInv, NEW abs \in Paths, NEW op \in Ops, NEW d \in Seq(Nat),
           Len(d) <= MaxLen, Op(op, abs, d),
           op = "append" /\ NodeAt(abs).k = "file" =>
              Len(NodeAt(abs).d) + Len(d) <= MaxLen
    PROVE  /\ IndInv'
           /\ trees' # trees =>
                \E f \in FsIds, p \in Paths : Kind[f] # "dev" /\ OnlyAt(f, p)
  <1>1. Resolve(abs) # 0 /\ mounts' = mounts
    BY DEF Op
  <1>2. PICK f \in FsIds : f = mounts[Resolve(abs)].fs
    BY <1>1, Target
  <1>3. PICK p \in Paths : p = Rel(Resolve(abs), abs)
    BY <1>1, Target
  <1>4. FsOp(f, op, p, d)
    BY <1>2, <1>3 DEF Op
  <1>5. TreesInv' /\ LastInv'
        /\ (trees' # trees => Kind[f] # "dev" /\ OnlyAt(f, p))
    <2>1. CASE RoomFor(trees[f], op, p, d)
      BY <1>4, <2>1, FsOpInd
    <2>2. CASE ~RoomFor(trees[f], op, p, d)
      <3>1. op = "append"
        BY <2>2 DEF RoomFor
      <3>2. Kind[f] = "dev"
        <4>1. ASSUME Kind[f] # "dev" PROVE FALSE
          <5>1. NodeAt(abs) = Walk(trees[f], p)
            BY <1>1, <1>2, <1>3, <4>1 DEF NodeAt, FsNode
          <5> QED BY <2>2, <5>1 DEF RoomFor
        <4> QED BY <4>1
      <3>3. Refused(f, op, p, d) = "Unsupported"
        BY <3>1, <3>2 DEF Refused, DevRefused
      <3>4. last' = [fs |-> f, res |-> "Unsupported"] /\ trees' = trees
        BY <1>4, <3>2, <3>3 DEF FsOp
      <3>5. last'.fs = f /\ last'.res = "Unsupported"
        BY <3>4
      <3> QED BY <3>4, <3>5 DEF IndInv, TreesInv, LastInv, Results, IsTree, Rooted
    <2> QED BY <2>1, <2>2
  <1>6. MountsInv'
    BY <1>1 DEF IndInv, MountsInv
  <1> QED BY <1>5, <1>6 DEF IndInv
\* Vec::remove: the elements behind the one taken out move up.
LEMMA TakeOut ==
    ASSUME NEW R, NEW s \in Seq(R), NEW i \in 1..Len(s)
    PROVE  LET u == SubSeq(s, 1, i - 1) \o SubSeq(s, i + 1, Len(s))
           IN  /\ u \in Seq(R) /\ Len(u) = Len(s) - 1 /\ DOMAIN u = 1..(Len(s) - 1)
               /\ \A k \in 1..(Len(s) - 1) : u[k] = s[IF k < i THEN k ELSE k + 1]
  <1> DEFINE n == Len(s)
             a == SubSeq(s, 1, i - 1)
             b == SubSeq(s, i + 1, n)
             u == a \o b
  <1>0. n \in Nat /\ i \in Nat /\ 1 <= i /\ i <= n /\ \A k \in 1..n : s[k] \in R
    BY ElementOfSeq
  <1>1. /\ a \in Seq(R) /\ Len(a) = i - 1 /\ \A k \in 1..(i - 1) : a[k] = s[k]
    BY <1>0
  <1>2. /\ b \in Seq(R) /\ Len(b) = n - i /\ \A k \in 1..(n - i) : b[k] = s[i + k]
    <2>1. i + 1 \in Int /\ n \in Int /\ n - (i + 1) + 1 = n - i
      BY <1>0
    <2>2. \A k \in (i + 1)..n : s[k] \in R
      BY <1>0
    <2> HIDE DEF n
    <2>3. /\ SubSeq(s, i + 1, n) \in Seq(R)
          /\ Len(SubSeq(s, i + 1, n)) = IF i + 1 <= n THEN n - (i + 1) + 1 ELSE 0
          /\ \A k \in 1..(n - (i + 1) + 1) : SubSeq(s, i + 1, n)[k] = s[i + 1 + k - 1]
      BY <2>1, <2>2, SubSeqProperties
    <2>4. \A k \in 1..(n - i) : i + 1 + k - 1 = i + k
      BY <1>0
    <2> QED BY <1>0, <2>1, <2>3, <2>4
  <1> HIDE DEF a, b
  <1>3. /\ u \in Seq(R) /\ Len(u) = Len(a) + Len(b)
        /\ \A k \in 1..(Len(a) + Len(b)) :
              u[k] = IF k <= Len(a) THEN a[k] ELSE b[k - Len(a)]
    BY <1>1, <1>2, ConcatProperties
  <1>4. Len(u) = n - 1 /\ Len(a) + Len(b) = n - 1 /\ DOMAIN u = 1..(n - 1)
    BY <1>0, <1>1, <1>2, <1>3
  <1> HIDE DEF u
  <1>5. ASSUME NEW k \in 1..(n - 1) PROVE u[k] = s[IF k < i THEN k ELSE k + 1]
    <2>1. CASE k < i
      <3>1. k <= Len(a) /\ k \in 1..(i - 1)
        BY <1>0, <1>1, <2>1
      <3> QED BY <1>1, <1>3, <1>4, <2>1, <3>1
    <2>2. CASE ~(k < i)
      <3>1. /\ ~(k <= Len(a)) /\ k - Len(a) \in 1..(n - i) /\ i + (k - Len(a)) = k + 1
        BY <1>0, <1>1, <2>2
      <3> QED BY <1>2, <1>3, <1>4, <2>2, <3>1
    <2> QED BY <2>1, <2>2
  <1> QED BY <1>3, <1>4, <1>5 DEF u, a, b

\* A TmpFs just made is a tree.
LEMMA EmptyIsTree == IsTree(EmptyTree) /\ Rooted(EmptyTree)
  BY RootPath DEF EmptyTree, IsTree, Rooted, IsNode

\* mount and unmount: a full table or a taken prefix is refused, and the other
\* mounts stay as they are.
LEMMA MountInd ==
    ASSUME IndInv, NEW pre \in Prefixes, NEW f \in FsIds, Mount(pre, f)
    PROVE  IndInv' /\ trees' = trees
  <1> DEFINE R == [prefix : Paths, fs : FsIds]
             m == [prefix |-> pre, fs |-> f]
             n == Len(mounts)
  <1>1. /\ mounts \in Seq(R) /\ n \in Nat /\ DOMAIN mounts = 1..n
        /\ MaxMounts \in Nat /\ m \in R
    BY VfsAssumption DEF IndInv, MountsInv
  <1>2. /\ ~Mounted(f) /\ ~MountedAt(pre) /\ n < MaxMounts
        /\ mounts' = Append(mounts, m) /\ trees' = trees /\ last' = last
    BY DEF Mount
  <1>3. m.prefix = pre /\ m.fs = f
    OBVIOUS
  <1> HIDE DEF R, m
  <1>4. /\ mounts' \in Seq(R) /\ Len(mounts') = n + 1 /\ DOMAIN mounts' = 1..(n + 1)
        /\ \A i \in 1..n : mounts'[i] = mounts[i]
        /\ mounts'[n + 1] = m
    BY <1>1, <1>2
  <1>5. ASSUME NEW i \in 1..(n + 1), NEW j \in 1..(n + 1),
               mounts'[i].prefix = mounts'[j].prefix \/ mounts'[i].fs = mounts'[j].fs
        PROVE  i = j
    <2>1. \A k \in 1..(n + 1) : k \in 1..n \/ k = n + 1
      BY <1>1
    <2>2. \A k \in 1..n : mounts[k].prefix # pre /\ mounts[k].fs # f
      BY <1>1, <1>2 DEF Mounted, MountedAt
    <2>3. CASE i \in 1..n /\ j \in 1..n
      BY <1>1, <1>4, <1>5, <2>3 DEF IndInv, MountsInv
    <2>4. CASE ~(i \in 1..n /\ j \in 1..n)
      BY <1>3, <1>4, <1>5, <2>1, <2>2, <2>4
    <2> QED BY <2>3, <2>4
  <1>6. Len(mounts') <= MaxMounts
    BY <1>1, <1>2, <1>4
  <1>7. MountsInv'
    BY <1>4, <1>5, <1>6 DEF MountsInv, R
  <1> QED BY <1>2, <1>7 DEF IndInv, TreesInv, LastInv, IsTree, Rooted

\* unmount takes one mount out of the table; a TmpFs starts from nothing.
LEMMA UnmountInd ==
    ASSUME IndInv, NEW pre \in Prefixes, Unmount(pre)
    PROVE  IndInv' /\ mounts' # mounts
  <1> DEFINE R == [prefix : Paths, fs : FsIds]
             n == Len(mounts)
             At(i, k) == IF k < i THEN k ELSE k + 1
  <1>1. mounts \in Seq(R) /\ n \in Nat /\ n <= MaxMounts /\ DOMAIN mounts = 1..n
        /\ MaxMounts \in Nat
    BY VfsAssumption DEF IndInv, MountsInv
  <1>2. PICK i \in 1..n :
          /\ mounts' = SubSeq(mounts, 1, i - 1) \o SubSeq(mounts, i + 1, n)
          /\ trees' = IF Kind[mounts[i].fs] = "tmp"
                      THEN [trees EXCEPT ![mounts[i].fs] = EmptyTree] ELSE trees
          /\ last' = last
    BY <1>1 DEF Unmount
  <1> HIDE DEF R
  <1>3. /\ mounts' \in Seq(R) /\ Len(mounts') = n - 1 /\ DOMAIN mounts' = 1..(n - 1)
        /\ \A k \in 1..(n - 1) : mounts'[k] = mounts[At(i, k)]
    BY <1>1, <1>2, TakeOut
  <1>4. ASSUME NEW k \in 1..(n - 1), NEW j \in 1..(n - 1),
               mounts'[k].prefix = mounts'[j].prefix \/ mounts'[k].fs = mounts'[j].fs
        PROVE  k = j
    <2>1. At(i, k) \in 1..n /\ At(i, j) \in 1..n
      BY <1>1
    <2>2. At(i, k) = At(i, j) => k = j
      BY <1>1
    <2> HIDE DEF At
    <2>3. mounts[At(i, k)].prefix = mounts[At(i, j)].prefix
          \/ mounts[At(i, k)].fs = mounts[At(i, j)].fs
      BY <1>3, <1>4
    <2> QED BY <1>1, <2>1, <2>2, <2>3 DEF IndInv, MountsInv
  <1>5. MountsInv'
    <2>1. Len(mounts') <= MaxMounts
      BY <1>1, <1>3
    <2> QED BY <1>3, <1>4, <2>1 DEF MountsInv, R
  <1>6. TreesInv'
    <2>1. DOMAIN trees = FsIds /\ \A g \in FsIds : IsTree(trees[g]) /\ Rooted(trees[g])
      BY DEF IndInv, TreesInv
    <2>2. IsTree(EmptyTree) /\ Rooted(EmptyTree)
      BY EmptyIsTree
    <2>3. DOMAIN trees' = FsIds /\ \A g \in FsIds : trees'[g] \in {trees[g], EmptyTree}
      BY <1>2, <2>1
    <2>4. \A g \in FsIds : IsTree(trees'[g]) /\ Rooted(trees'[g])
      BY <2>1, <2>2, <2>3
    <2> QED BY <2>3, <2>4 DEF TreesInv, IsTree, Rooted
  <1>7. LastInv'
    BY <1>2 DEF IndInv, LastInv
  <1>8. mounts' # mounts
    BY <1>1, <1>3
  <1> QED BY <1>5, <1>6, <1>7, <1>8 DEF IndInv

\* mount_root leaves a table without duplicates and fresh file systems.
LEMMA InitInd == Init => IndInv
  <1> SUFFICES ASSUME Init PROVE IndInv
    OBVIOUS
  <1>1. MountsInv
    BY VfsAssumption DEF Init, MountsInv
  <1>2. TreesInv
    <2>1. IsTree(Seed) /\ Rooted(Seed)
      BY VfsAssumption DEF IsTree
    <2>2. DOMAIN trees = FsIds /\ \A f \in FsIds : trees[f] \in {Seed, EmptyTree}
      BY DEF Init
    <2> QED BY <2>1, <2>2, EmptyIsTree DEF TreesInv
  <1>3. LastInv
    <2>1. Boot[Len(Boot)] \in [prefix : Paths, fs : FsIds]
      <3>1. Len(Boot) \in 1..Len(Boot)
        BY VfsAssumption
      <3> QED BY <3>1, VfsAssumption, ElementOfSeq
    <2>2. last.fs = Boot[Len(Boot)].fs /\ last.res = "ok"
      BY DEF Init
    <2> QED BY <2>1, <2>2 DEF LastInv, Results
  <1> QED BY <1>1, <1>2, <1>3 DEF IndInv

\* Every step keeps the invariant, and a step that changes the trees and not
\* the mounts changes one node of one file system.
LEMMA NextInd ==
    ASSUME IndInv, [Next]_vfsVars
    PROVE  /\ IndInv'
           /\ mounts' = mounts /\ trees' # trees =>
                \E f \in FsIds, p \in Paths : Kind[f] # "dev" /\ OnlyAt(f, p)
  <1>1. ASSUME NEW pre \in Prefixes, NEW f \in FsIds, Mount(pre, f)
        PROVE  IndInv' /\ trees' = trees
    BY <1>1, MountInd
  <1>2. ASSUME NEW pre \in Prefixes, Unmount(pre)
        PROVE  IndInv' /\ mounts' # mounts
    BY <1>2, UnmountInd
  <1>3. ASSUME NEW abs \in Paths, Touch(abs) \/ MkDir(abs) \/ Rm(abs)
        PROVE  /\ IndInv'
               /\ trees' # trees =>
                    \E f \in FsIds, p \in Paths : Kind[f] # "dev" /\ OnlyAt(f, p)
    <2>1. <<>> \in Seq(Nat) /\ Len(<<>>) <= MaxLen
      BY VfsAssumption
    <2>2. PICK op \in {"create", "mkdir", "remove"} : Op(op, abs, <<>>)
      BY <1>3 DEF Touch, MkDir, Rm
    <2>3. op \in Ops /\ op # "append"
      BY DEF Ops, FileOps
    <2> QED BY <2>1, <2>2, <2>3, OpInd
  <1>4. ASSUME NEW abs \in Paths, NEW d \in Payloads, WriteFile(abs, d) \/ AppendFile(abs, d)
        PROVE  /\ IndInv'
               /\ trees' # trees =>
                    \E f \in FsIds, p \in Paths : Kind[f] # "dev" /\ OnlyAt(f, p)
    <2>1. d \in Seq(Nat) /\ Len(d) <= MaxLen
      BY VfsAssumption
    <2>2. "write" \in Ops /\ "append" \in Ops
      BY DEF Ops, FileOps
    <2>3. CASE WriteFile(abs, d)
      BY <2>1, <2>2, <2>3, OpInd DEF WriteFile
    <2>4. CASE AppendFile(abs, d)
      BY <2>1, <2>2, <2>4, OpInd DEF AppendFile
    <2> QED BY <1>4, <2>3, <2>4
  <1>5. CASE UNCHANGED vfsVars
    <2>1. mounts' = mounts /\ trees' = trees /\ last' = last
      BY <1>5 DEF vfsVars
    <2>2. MountsInv'
      BY <2>1 DEF IndInv, MountsInv
    <2> QED BY <2>1, <2>2 DEF IndInv, TreesInv, LastInv, IsTree, Rooted
  <1> QED BY <1>1, <1>2, <1>3, <1>4, <1>5 DEF Next

\* The invariant holds in every behaviour.
THEOREM Inductive == Spec => []IndInv
  <1>1. IndInv /\ [Next]_vfsVars => IndInv'
    BY NextInd
  <1> QED BY <1>1, InitInd, PTL DEF Spec

\* The mount table never outgrows MAX_MOUNTS nor holds a prefix twice, and
\* every operation leaves nodes and one of the errors of FsError.
THEOREM VfsTyped == Spec => []TypeOK
  <1>1. IndInv => TypeOK
    <2> SUFFICES ASSUME IndInv PROVE TypeOK
      OBVIOUS
    <2>1. MountsInv /\ TreesInv /\ LastInv
      BY DEF IndInv
    <2>2. \A i \in DOMAIN mounts : mounts[i].prefix \in Paths /\ mounts[i].fs \in FsIds
      BY <2>1, MountFacts
    <2> QED BY <2>1, <2>2
            DEF MountsInv, TreesInv, LastInv, Results, IsTree, TypeOK
  <1> QED BY <1>1, Inductive, PTL

\* Whatever is created, removed, mounted and unmounted, in whatever order and
\* with whatever refusals of a full disk: every node hangs on a directory.
THEOREM NothingIsStranded == Spec => []NoStrandedNodes
  <1>1. IndInv => NoStrandedNodes
    BY DEF IndInv, TreesInv, NoStrandedNodes
  <1> QED BY <1>1, Inductive, PTL

\* resolve, which compares strings and goes through the table in the order of
\* mounting, finds the longest mounted ancestor by names.
THEOREM ResolutionIsLongestPrefix == Spec => []ResolvesToLongest
  <1>1. IndInv => ResolvesToLongest
    <2> SUFFICES ASSUME IndInv, NEW abs \in Paths
                 PROVE  LET fit == {i \in DOMAIN mounts :
                                      LET pre == mounts[i].prefix
                                      IN  Len(pre) <= Len(abs) /\ SubSeq(abs, 1, Len(pre)) = pre}
                        IN  IF fit = {} THEN Resolve(abs) = 0
                            ELSE /\ Resolve(abs) \in fit
                                 /\ \A i \in fit : Len(mounts[i].prefix)
                                                      <= Len(mounts[Resolve(abs)].prefix)
      BY DEF ResolvesToLongest
    <2> DEFINE fit == {i \in DOMAIN mounts : Fits(abs, mounts[i].prefix)}
    <2>1. MountsInv
      BY DEF IndInv
    <2>2. /\ Resolve(abs) \in 0..Len(mounts)
          /\ Resolve(abs) = 0 => fit = {}
          /\ Resolve(abs) # 0 =>
                /\ Fits(abs, mounts[Resolve(abs)].prefix)
                /\ \A j \in fit : Len(mounts[j].prefix) <= Len(mounts[Resolve(abs)].prefix)
      BY <2>1, ResolveLongest
    <2>3. Resolve(abs) # 0 => Resolve(abs) \in fit
      BY <2>1, <2>2, MountFacts
    <2>4. IF fit = {} THEN Resolve(abs) = 0
          ELSE /\ Resolve(abs) \in fit
               /\ \A i \in fit : Len(mounts[i].prefix) <= Len(mounts[Resolve(abs)].prefix)
      BY <2>2, <2>3
    <2> QED BY <2>4 DEF Fits
  <1> QED BY <1>1, Inductive, PTL
-----------------------------------------------------------------------------
(* Listings.                                                               *)

\* A mount point leads to the root of its file system.
LEMMA MountPoint ==
    ASSUME IndInv, NEW p \in Paths, MountedAt(p)
    PROVE  /\ Resolve(p) # 0 /\ mounts[Resolve(p)].prefix = p
           /\ Rel(Resolve(p), p) = <<>>
  <1> DEFINE i == Resolve(p)
  <1>1. MountsInv
    BY DEF IndInv
  <1>2. PICK j \in DOMAIN mounts : mounts[j].prefix = p
    BY DEF MountedAt
  <1>3. Len(p) \in Nat /\ Fits(p, p)
    BY PathFacts, FitsNames
  <1>4. i # 0
    BY <1>1, <1>2, <1>3, ResolveLongest
  <1>5. Fits(p, mounts[i].prefix) /\ Len(p) <= Len(mounts[i].prefix)
    BY <1>1, <1>2, <1>3, <1>4, ResolveLongest
  <1>6. mounts[i].prefix \in Paths /\ Len(mounts[i].prefix) \in Nat
    BY <1>4, Target, PathFacts
  <1>7. Len(mounts[i].prefix) = Len(p)
    BY <1>3, <1>5, <1>6 DEF Fits
  <1>8. mounts[i].prefix = p
    BY <1>5, <1>6, <1>7, FitsNames, SamePath
  <1>9. Rel(i, p) \in Paths /\ Len(Rel(i, p)) = 0
    BY <1>3, <1>4, <1>7, Target
  <1> QED BY <1>4, <1>8, <1>9, RootPath

\* Every file system has a directory at its root.
LEMMA FsRoot ==
    ASSUME IndInv, NEW f \in FsIds
    PROVE  FsNode(f, <<>>) = DirNode
  <1>1. IsTree(trees[f])
    BY DEF IndInv, TreesInv
  <1>2. Walk(trees[f], <<>>) = DirNode
    BY <1>1, WalkChild
  <1> QED BY <1>2 DEF FsNode

\* is_dir of the Vfs, which asks for a mount point first, is what the file
\* system found by resolve says.
LEMMA DirIsNode ==
    ASSUME IndInv, NEW p \in Paths
    PROVE  IsDir(p) <=> NodeAt(p) = DirNode
  <1>1. ASSUME MountedAt(p) PROVE NodeAt(p) = DirNode
    <2>1. Resolve(p) # 0 /\ Rel(Resolve(p), p) = <<>>
      BY <1>1, MountPoint
    <2>2. mounts[Resolve(p)].fs \in FsIds
      BY <2>1, Target
    <2> QED BY <2>1, <2>2, FsRoot DEF NodeAt
  <1> QED BY <1>1 DEF IsDir

\* list_dir of a file system succeeds on its directories and fails elsewhere.
LEMMA FsListing ==
    ASSUME IndInv, NEW f \in FsIds, NEW p \in Paths
    PROVE  /\ FsListDir(f, p).k \in {"names", "error"}
           /\ FsListDir(f, p).k = "names" <=> FsNode(f, p) = DirNode
           /\ FsNode(f, p) = DirNode =>
                 /\ Kind[f] = "dev" => p = <<>>
                 /\ FsListDir(f, p) =
                      [k |-> "names",
                       names |-> IF Kind[f] = "dev" THEN DevNodes
                                 ELSE {Last(q) : q \in Kids(trees[f], p)}]
  <1>0. Len(p) \in Nat /\ (p = <<>> <=> Len(p) = 0)
    BY PathFacts, RootPath
  <1>1. /\ \A e : Err(e).k = "error"
        /\ DirNode.k = "dir"
    BY DEF Err, DirNode
  <1>2. CASE Kind[f] = "dev"
    <2>1. CASE p = <<>>
      <3>1. FsListDir(f, p) = [k |-> "names", names |-> DevNodes]
        BY <1>0, <1>2, <2>1 DEF FsListDir
      <3> QED BY <1>2, <2>1, <3>1 DEF FsNode
    <2>2. CASE p # <<>>
      <3>1. FsListDir(f, p) \in {Err("NotFound"), Err("NotADir")}
        <4>1. CASE Len(p) = 1
          BY <1>0, <1>2, <2>2, <4>1 DEF FsListDir
        <4>2. CASE Len(p) > 1
          BY <1>0, <1>2, <2>2, <4>2 DEF FsListDir
        <4> QED BY <1>0, <2>2, <4>1, <4>2
      <3>2. FsNode(f, p).k \in {"dev", "error"}
        <4>1. [k |-> "dev"].k = "dev"
          OBVIOUS
        <4> QED BY <1>1, <1>2, <2>2, <4>1 DEF FsNode
      <3>3. FsNode(f, p) # DirNode
        BY <1>1, <3>2
      <3> QED BY <1>1, <3>1, <3>3
    <2> QED BY <2>1, <2>2
  <1>3. CASE Kind[f] # "dev"
    <2> DEFINE x == Walk(trees[f], p)
               r == [k |-> "names", names |-> {Last(q) : q \in Kids(trees[f], p)}]
    <2>1. FsNode(f, p) = x
      BY <1>3 DEF FsNode
    <2>2. FsListDir(f, p) = IF x.k = "error" THEN x
                            ELSE IF x.k = "file" THEN Err("NotADir") ELSE r
      BY <1>3, <2>1 DEF FsListDir
    <2>3. IsTree(trees[f])
      BY DEF IndInv, TreesInv
    <2>4. x.k \in {"error", "file", "dir"}
      BY <2>3, WalkFacts
    <2>5. x.k = "dir" => x = DirNode
      <3>1. x \in Found(trees[f])
        BY <2>3, WalkChild
      <3>2. \A q \in Paths : trees[f][q].k = "dir" => trees[f][q] = DirNode
        BY <2>3, NodeKinds
      <3> QED BY <1>1, <3>1, <3>2 DEF Found
    <2>6. r.k = "names"
      OBVIOUS
    <2> HIDE DEF x
    <2>7. FsListDir(f, p).k \in {"names", "error"}
      BY <1>1, <2>2, <2>4, <2>6
    <2>8. FsListDir(f, p).k = "names" <=> x = DirNode
      BY <1>1, <2>2, <2>4, <2>5, <2>6
    <2>9. x = DirNode => FsListDir(f, p) = r
      BY <1>1, <2>2
    <2> QED BY <1>3, <2>1, <2>7, <2>8, <2>9
  <1> QED BY <1>2, <1>3

\* Below a path, and at no mount point, is the same file system.
LEMMA ChildTarget ==
    ASSUME IndInv, NEW p \in Paths, NEW n \in Names, Len(p) < MaxDepth,
           Resolve(p) # 0, ~MountedAt(Child(p, n))
    PROVE  /\ Resolve(Child(p, n)) = Resolve(p)
           /\ Rel(Resolve(p), Child(p, n)) = Child(Rel(Resolve(p), p), n)
  <1> DEFINE c == Child(p, n)
             i == Resolve(p)
             j == Resolve(c)
             a == mounts[i].prefix
             b == mounts[j].prefix
  <1>1. MountsInv
    BY DEF IndInv
  <1>2. /\ c \in Paths /\ Len(c) = Len(p) + 1 /\ Len(p) \in Nat
        /\ \A k \in 1..Len(p) : c[k] = p[k]
        /\ c[Len(p) + 1] = n
    BY ChildFacts, PathFacts DEF Last
  <1>3. i \in 1..Len(mounts) /\ DOMAIN mounts = 1..Len(mounts)
        /\ a \in Paths /\ Len(a) \in Nat
    BY <1>1, Target, MountFacts, PathFacts
  <1>4. Fits(p, a)
    BY <1>1, ResolveLongest
  <1>5. Len(a) <= Len(p) /\ \A k \in 1..Len(a) : p[k] = a[k]
    BY <1>3, <1>4, FitsNames
  <1> HIDE DEF c
  <1>6. Fits(c, a)
    <2>1. Len(a) <= Len(c) /\ \A k \in 1..Len(a) : c[k] = a[k]
      BY <1>2, <1>3, <1>5
    <2> QED BY <1>2, <1>3, <2>1, FitsNames
  <1>7. j # 0
    BY <1>1, <1>2, <1>3, <1>6, ResolveLongest
  <1>8. /\ j \in 1..Len(mounts) /\ b \in Paths /\ Len(b) \in Nat
        /\ Fits(c, b) /\ Len(a) <= Len(b)
    BY <1>1, <1>2, <1>3, <1>6, <1>7, ResolveLongest, Target, PathFacts
  <1>9. Len(b) <= Len(c) /\ \A k \in 1..Len(b) : c[k] = b[k]
    BY <1>2, <1>8, FitsNames
  <1>10. Len(b) # Len(c)
    <2> SUFFICES ASSUME Len(b) = Len(c) PROVE FALSE
      OBVIOUS
    <2>1. b = c
      BY <1>2, <1>8, <1>9, SamePath
    <2> QED BY <1>3, <1>8, <2>1 DEF MountedAt, c
  <1> HIDE DEF i, j
  <1>11. Fits(p, b)
    <2>1. Len(b) <= Len(p)
      BY <1>2, <1>8, <1>9, <1>10
    <2>2. \A k \in 1..Len(b) : p[k] = b[k]
      BY <1>2, <1>8, <1>9, <2>1
    <2> QED BY <1>8, <2>1, <2>2, FitsNames
  <1>12. Len(b) <= Len(a)
    BY <1>1, <1>3, <1>8, <1>11, ResolveLongest DEF i
  <1>13. a = b
    <2>1. Len(a) = Len(b)
      BY <1>3, <1>8, <1>12
    <2>2. \A k \in 1..Len(a) : a[k] = b[k]
      BY <1>2, <1>3, <1>5, <1>8, <1>9, <2>1
    <2> QED BY <1>3, <1>8, <2>1, <2>2, SamePath
  <1>14. i = j
    BY <1>1, <1>3, <1>8, <1>13 DEF MountsInv
  <1>15. Rel(i, c) = Child(Rel(i, p), n)
    <2> DEFINE m == Len(a)
               r == Rel(i, p)
               s == Rel(i, c)
    <2>1. /\ r \in Paths /\ Len(r) = Len(p) - m
          /\ \A k \in 1..(Len(p) - m) : r[k] = p[m + k]
      BY <1>3, <1>5, SubPath DEF Rel
    <2>2. /\ s \in Paths /\ Len(s) = Len(c) - m
          /\ \A k \in 1..(Len(c) - m) : s[k] = c[m + k]
      <3>1. m <= Len(c)
        BY <1>2, <1>3, <1>5
      <3> QED BY <1>2, <1>3, <3>1, SubPath DEF Rel
    <2>3. Len(r) < MaxDepth /\ Len(r) \in Nat
      <3>1. MaxDepth \in Nat
        BY VfsAssumption
      <3> QED BY <1>2, <1>3, <1>5, <2>1, <3>1
    <2> HIDE DEF r, s, m
    <2>4. /\ Child(r, n) \in Paths /\ Len(Child(r, n)) = Len(r) + 1
          /\ \A k \in 1..Len(r) : Child(r, n)[k] = r[k]
          /\ Child(r, n)[Len(r) + 1] = n
      BY <2>1, <2>3, ChildFacts DEF Last
    <2>5. m \in Nat /\ m <= Len(p)
      BY <1>3, <1>5 DEF m
    <2>6. Len(s) = Len(r) + 1
      BY <1>2, <2>1, <2>2, <2>5
    <2>7. ASSUME NEW k \in 1..Len(s) PROVE s[k] = Child(r, n)[k]
      <3>1. CASE k = Len(r) + 1
        <4>1. k \in 1..(Len(c) - m) /\ m + k = Len(p) + 1
          BY <1>2, <2>1, <2>3, <2>5, <3>1
        <4> QED BY <1>2, <2>2, <2>4, <3>1, <4>1
      <3>2. CASE k # Len(r) + 1
        <4>1. /\ k \in 1..Len(r) /\ k \in 1..(Len(c) - m) /\ k \in 1..(Len(p) - m)
              /\ m + k \in 1..Len(p)
          BY <1>2, <2>1, <2>3, <2>5, <2>6, <3>2
        <4> QED BY <1>2, <2>1, <2>2, <2>4, <4>1
      <3> QED BY <3>1, <3>2
    <2>8. s = Child(r, n)
      BY <2>2, <2>4, <2>6, <2>7, SamePath
    <2> QED BY <2>8 DEF r, s
  <1> QED BY <1>14, <1>15 DEF c, i, j
\* In a directory of a file system: its listing has the names at which the
\* file system finds something.
LEMMA FsChild ==
    ASSUME IndInv, NEW f \in FsIds, NEW p \in Paths, Len(p) < MaxDepth,
           FsNode(f, p) = DirNode, NEW n \in Names
    PROVE  n \in FsListDir(f, p).names <=> FsNode(f, Child(p, n)).k # "error"
  <1> DEFINE c == Child(p, n)
             t == trees[f]
  <1>1. /\ c \in Paths /\ c # <<>> /\ Front(c) = p /\ Last(c) = n
        /\ Len(c) = Len(p) + 1 /\ Len(p) \in Nat
    BY ChildFacts, PathFacts
  <1>2. /\ \A e : Err(e).k = "error"
        /\ DirNode.k = "dir" /\ [k |-> "dev"].k = "dev"
    BY DEF Err, DirNode
  <1>3. /\ Kind[f] = "dev" => p = <<>>
        /\ FsListDir(f, p).names = IF Kind[f] = "dev" THEN DevNodes
                                   ELSE {Last(q) : q \in Kids(t, p)}
    <2> DEFINE S == IF Kind[f] = "dev" THEN DevNodes ELSE {Last(q) : q \in Kids(t, p)}
    <2>1. (Kind[f] = "dev" => p = <<>>) /\ FsListDir(f, p) = [k |-> "names", names |-> S]
      BY FsListing
    <2> HIDE DEF S
    <2>2. FsListDir(f, p).names = S
      BY <2>1
    <2> QED BY <2>1, <2>2 DEF S
  <1> HIDE DEF c
  <1>4. CASE Kind[f] = "dev"
    <2>1. Len(c) = 1 /\ c[1] = n
      BY <1>1, <1>3, <1>4, RootPath DEF Last
    <2>2. FsNode(f, c) = IF n \in DevNodes THEN [k |-> "dev"] ELSE Err("NotFound")
      BY <1>1, <1>4, <2>1 DEF FsNode
    <2> QED BY <1>2, <1>3, <1>4, <2>2 DEF c
  <1>5. CASE Kind[f] # "dev"
    <2>1. IsTree(t)
      BY DEF IndInv, TreesInv
    <2>2. FsNode(f, c) = Walk(t, c) /\ Walk(t, p) = DirNode
      BY <1>5 DEF FsNode
    <2>3. Walk(t, c) = IF t[c] = Absent THEN Err("NotFound") ELSE t[c]
      <3>1. Walk(t, c) = LET d == Walk(t, Front(c))
                         IN  CASE d.k = "error" -> d
                               [] d.k = "file"  -> Err("NotADir")
                               [] d.k = "dir"   -> IF t[c] = Absent THEN Err("NotFound")
                                                                    ELSE t[c]
        BY <1>1, <2>1, WalkChild
      <3> QED BY <1>1, <1>2, <2>2, <3>1
    <2>4. t[c].k # "error"
      BY <1>1, <2>1, NodeKinds
    <2>5. FsNode(f, c).k # "error" <=> t[c] # Absent
      BY <1>2, <2>2, <2>3, <2>4
    <2>6. c \in Kids(t, p) <=> t[c] # Absent
      BY <1>1 DEF Kids
    <2>7. ASSUME NEW q \in Kids(t, p), Last(q) = n PROVE q = c
      <3>1. q \in Paths /\ q # <<>> /\ Front(q) = p
        BY DEF Kids
      <3> QED BY <2>7, <3>1, ParentFacts DEF c
    <2>8. n \in {Last(q) : q \in Kids(t, p)} <=> c \in Kids(t, p)
      BY <1>1, <2>7
    <2> QED BY <1>3, <1>5, <2>5, <2>6, <2>8 DEF c
  <1> QED BY <1>4, <1>5

\* What ls shows of a directory, through the mount table, is what cd and cat
\* find below it.
LEMMA ListingFound ==
    ASSUME IndInv, NEW p \in Paths
    PROVE  /\ IsDir(p) <=> ListDir(p).k = "names"
           /\ IsDir(p) /\ Len(p) < MaxDepth =>
                ListDir(p).names =
                  {n \in Names : IsDir(Child(p, n)) \/ NodeAt(Child(p, n)).k # "error"}
  <1> DEFINE i == Resolve(p)
             f == mounts[i].fs
             r == Rel(i, p)
             here == FsListDir(f, r)
             points == {mounts[j].prefix : j \in DOMAIN mounts}
             below  == {Last(q) : q \in {x \in points : x # <<>> /\ Front(x) = p}}
  <1>0. /\ \A e : Err(e).k = "error"
        /\ DirNode.k = "dir"
    BY DEF Err, DirNode
  <1>1. CASE i = 0
    <2>1. NodeAt(p) = Err("NotFound") /\ NodeAt(p) # DirNode
      BY <1>0, <1>1 DEF NodeAt
    <2>2. ~IsDir(p)
      BY <2>1, DirIsNode
    <2>3. ListDir(p) = Err("NotFound")
      BY <1>0, <1>1 DEF ListDir
    <2> QED BY <1>0, <2>2, <2>3
  <1>2. CASE i # 0
    <2>1. f \in FsIds /\ r \in Paths
      BY <1>2, Target
    <2>2. NodeAt(p) = FsNode(f, r)
      BY <1>2 DEF NodeAt
    <2>3. /\ here.k \in {"names", "error"}
          /\ here.k = "names" <=> FsNode(f, r) = DirNode
          /\ here.k = "names" => here = [k |-> "names", names |-> here.names]
      <3> HIDE DEF f, r
      <3>1. /\ here.k \in {"names", "error"}
            /\ here.k = "names" <=> FsNode(f, r) = DirNode
        BY <2>1, FsListing
      <3>2. FsNode(f, r) = DirNode => \E S : here = [k |-> "names", names |-> S]
        BY <2>1, FsListing
      <3> QED BY <3>1, <3>2
    <2>4. ListDir(p) = IF here.k = "error" THEN here
                       ELSE [here EXCEPT !.names = @ \cup below]
      BY <1>2 DEF ListDir
    <2> HIDE DEF here, below
    <2>5. /\ here.k = "error" => ListDir(p).k = "error"
          /\ here.k = "names" => /\ ListDir(p).k = "names"
                                 /\ ListDir(p).names = here.names \cup below
      BY <2>3, <2>4
    <2>6. IsDir(p) <=> here.k = "names"
      BY <2>2, <2>3, DirIsNode
    <2>7. IsDir(p) <=> ListDir(p).k = "names"
      BY <2>3, <2>5, <2>6
    <2>8. ASSUME IsDir(p), Len(p) < MaxDepth
          PROVE  ListDir(p).names =
                  {n \in Names : IsDir(Child(p, n)) \/ NodeAt(Child(p, n)).k # "error"}
      <3>0. MountsInv
        BY DEF IndInv
      <3>1. FsNode(f, r) = DirNode /\ ListDir(p).names = here.names \cup below
        BY <2>3, <2>5, <2>6, <2>8
      <3>2. Len(r) < MaxDepth
        <4>1. /\ Len(r) = Len(p) - Len(mounts[i].prefix) /\ Len(p) \in Nat
              /\ Len(mounts[i].prefix) \in Nat /\ MaxDepth \in Nat
          BY <1>2, Target, PathFacts, VfsAssumption
        <4> QED BY <2>8, <4>1
      <3>3. here.names \subseteq Names
        <4>1. FsListDir(f, r).names = IF Kind[f] = "dev" THEN DevNodes
                                      ELSE {Last(q) : q \in Kids(trees[f], r)}
          <5> DEFINE S == IF Kind[f] = "dev" THEN DevNodes
                          ELSE {Last(q) : q \in Kids(trees[f], r)}
          <5> HIDE DEF f, r
          <5>1. FsListDir(f, r) = [k |-> "names", names |-> S]
            BY <2>1, <3>1, FsListing
          <5> HIDE DEF S
          <5>2. FsListDir(f, r).names = S
            BY <5>1
          <5> QED BY <5>2 DEF S
        <4>2. DevNodes \subseteq Names
          BY VfsAssumption
        <4>3. \A q \in Kids(trees[f], r) : Last(q) \in Names
          BY ParentFacts DEF Kids
        <4> QED BY <4>1, <4>2, <4>3 DEF here
      <3>4. \A x \in points : x \in Paths
        BY <3>0, MountFacts
      <3>5. below \subseteq Names
        BY <3>4, ParentFacts DEF below
      <3>6. ASSUME NEW n \in Names PROVE n \in below <=> MountedAt(Child(p, n))
        <4>1. /\ Child(p, n) # <<>> /\ Front(Child(p, n)) = p /\ Last(Child(p, n)) = n
          BY <2>8, ChildFacts
        <4>2. ASSUME NEW x \in points, x # <<>>, Front(x) = p, Last(x) = n
              PROVE  x = Child(p, n)
          BY <3>4, <4>2, ParentFacts
        <4>3. n \in below <=> Child(p, n) \in points
          BY <4>1, <4>2 DEF below
        <4> QED BY <4>3 DEF MountedAt
      <3>7. ASSUME NEW n \in Names
            PROVE  n \in here.names \cup below <=>
                     (IsDir(Child(p, n)) \/ NodeAt(Child(p, n)).k # "error")
        <4> DEFINE c == Child(p, n)
        <4>1. c \in Paths
          BY <2>8, ChildFacts
        <4>2. IsDir(c) => NodeAt(c).k # "error"
          BY <1>0, <4>1, DirIsNode
        <4>3. CASE MountedAt(c)
          BY <3>6, <4>3 DEF IsDir
        <4>4. CASE ~MountedAt(c)
          <5>1. Resolve(c) = i /\ Rel(i, c) = Child(r, n)
            BY <1>2, <2>8, <4>4, ChildTarget
          <5>2. NodeAt(c) = FsNode(f, Child(r, n))
            BY <1>2, <5>1 DEF NodeAt
          <5>3. n \in here.names <=> FsNode(f, Child(r, n)).k # "error"
            <6> HIDE DEF f, r
            <6> QED BY <2>1, <3>1, <3>2, FsChild DEF here
          <5> QED BY <3>6, <4>2, <4>4, <5>2, <5>3
        <4> QED BY <4>3, <4>4
      <3> QED BY <3>1, <3>3, <3>5, <3>7
    <2> QED BY <2>7, <2>8
  <1> QED BY <1>1, <1>2

\* Through every sequence of mounts and operations, a name is in a listing iff
\* something is found there, and a path can be listed iff is_dir says so:
\* mount points below missing names, shadowed directories and devices included.
THEOREM ListingShowsNamespace == Spec => []ListingIsNamespace
  <1>1. IndInv => ListingIsNamespace
    BY ListingFound DEF ListingIsNamespace
  <1> QED BY <1>1, Inductive, PTL
-----------------------------------------------------------------------------
(* One target at a time.                                                   *)

\* What DevFs shows at a path of its own.
DevSeen(p) ==
    IF p = <<>> THEN DirNode
    ELSE IF Len(p) = 1 /\ p[1] \in DevNodes THEN [k |-> "dev"] ELSE Absent

\* What is seen at a path: the node of the tree it leads to.
SeenTable ==
    \A p \in Paths :
        LET f == mounts[Resolve(p)].fs
            r == Rel(Resolve(p), p)
        IN  /\ Resolve(p) = 0 => Seen(p) = Absent
            /\ Resolve(p) # 0 => /\ f \in FsIds /\ r \in Paths
                                 /\ Seen(p) = IF Kind[f] = "dev" THEN DevSeen(r)
                                              ELSE trees[f][r]

\* In a state of the file systems every path is seen like that.
LEMMA SeenIsNode == IndInv => SeenTable
  <1> SUFFICES ASSUME IndInv, NEW p \in Paths
               PROVE  LET f == mounts[Resolve(p)].fs
                          r == Rel(Resolve(p), p)
                      IN  /\ Resolve(p) = 0 => Seen(p) = Absent
                          /\ Resolve(p) # 0 => /\ f \in FsIds /\ r \in Paths
                                               /\ Seen(p) = IF Kind[f] = "dev"
                                                            THEN DevSeen(r)
                                                            ELSE trees[f][r]
    BY DEF SeenTable
  <1> DEFINE f == mounts[Resolve(p)].fs
             r == Rel(Resolve(p), p)
  <1>0. /\ \A e : Err(e).k = "error"
        /\ DirNode.k = "dir" /\ [k |-> "dev"].k = "dev"
    BY DEF Err, DirNode
  <1>1. CASE Resolve(p) = 0
    BY <1>0, <1>1 DEF Seen, NodeAt
  <1>2. CASE Resolve(p) # 0
    <2>1. f \in FsIds /\ r \in Paths
      BY <1>2, Target
    <2>2. NodeAt(p) = FsNode(f, r)
      BY <1>2 DEF NodeAt
    <2> HIDE DEF f, r
    <2>3. Seen(p) = IF NodeAt(p).k = "error" THEN Absent ELSE NodeAt(p)
      BY DEF Seen
    <2>4. Seen(p) = IF Kind[f] = "dev" THEN DevSeen(r) ELSE trees[f][r]
      <3>1. CASE Kind[f] = "dev"
        BY <1>0, <2>2, <2>3, <3>1 DEF FsNode, DevSeen
      <3>2. CASE Kind[f] # "dev"
        <4>1. IsTree(trees[f]) /\ Rooted(trees[f])
          BY <2>1 DEF IndInv, TreesInv
        <4>2. NodeAt(p) = Walk(trees[f], r)
          BY <2>2, <3>2 DEF FsNode
        <4>3. /\ trees[f][r] # Absent => Walk(trees[f], r) = trees[f][r]
              /\ trees[f][r] = Absent => Walk(trees[f], r).k = "error"
          BY <2>1, <4>1, WalkIsLookup
        <4>4. trees[f][r].k # "error"
          BY <2>1, <4>1, NodeKinds
        <4> QED BY <2>3, <3>2, <4>2, <4>3, <4>4
      <3> QED BY <3>1, <3>2
    <2> QED BY <1>2, <2>1, <2>4 DEF f, r
  <1> QED BY <1>1, <1>2

\* So it is after a step.
LEMMA SeenIsNodeThen == IndInv' => SeenTable'
  BY SeenIsNode, PTL

\* Resolution depends on the mount table alone.
LEMMA ResolveStable ==
    ASSUME mounts' = mounts, NEW p
    PROVE  Resolve(p)' = Resolve(p)
  BY DEF Resolve

\* Two paths that lead to the same node of the same file system are the same.
LEMMA OnePath ==
    ASSUME IndInv, NEW p \in Paths, NEW q \in Paths,
           Resolve(p) # 0, Resolve(q) # 0,
           mounts[Resolve(p)].fs = mounts[Resolve(q)].fs,
           Rel(Resolve(p), p) = Rel(Resolve(q), q)
    PROVE  p = q
  <1> DEFINE i == Resolve(p)
             a == mounts[i].prefix
             m == Len(a)
  <1>1. MountsInv
    BY DEF IndInv
  <1>2. i \in 1..Len(mounts) /\ Resolve(q) \in 1..Len(mounts) /\ a \in Paths
        /\ DOMAIN mounts = 1..Len(mounts) /\ m \in Nat
    BY <1>1, Target, MountFacts, PathFacts
  <1>3. Resolve(q) = i
    BY <1>1, <1>2 DEF MountsInv
  <1>4. Fits(p, a) /\ Fits(q, a)
    BY <1>1, <1>3, ResolveLongest
  <1>5. Len(p) \in Nat /\ Len(q) \in Nat
    BY PathFacts
  <1>6. /\ m <= Len(p) /\ \A k \in 1..m : p[k] = a[k]
        /\ m <= Len(q) /\ \A k \in 1..m : q[k] = a[k]
    BY <1>2, <1>4, FitsNames
  <1> HIDE DEF i, m
  <1>7. /\ Len(Rel(i, p)) = Len(p) - m
        /\ \A k \in 1..(Len(p) - m) : Rel(i, p)[k] = p[m + k]
    BY <1>2, <1>6, SubPath DEF Rel, m
  <1>8. /\ Len(Rel(i, q)) = Len(q) - m
        /\ \A k \in 1..(Len(q) - m) : Rel(i, q)[k] = q[m + k]
    BY <1>2, <1>6, SubPath DEF Rel, m
  <1>9. Rel(i, p) = Rel(i, q)
    BY <1>3 DEF i
  <1>10. Len(p) = Len(q)
    BY <1>2, <1>5, <1>7, <1>8, <1>9
  <1>11. ASSUME NEW k \in 1..Len(p) PROVE p[k] = q[k]
    <2>1. CASE k <= m
      BY <1>2, <1>6, <2>1
    <2>2. CASE ~(k <= m)
      <3>1. k - m \in 1..(Len(p) - m) /\ m + (k - m) = k
        BY <1>2, <1>5, <2>2
      <3> QED BY <1>7, <1>8, <1>9, <1>10, <3>1
    <2> QED BY <2>1, <2>2
  <1> QED BY <1>10, <1>11, SamePath

\* A step that changes the node at r in f is seen at the one path, if any,
\* that leads there: the errors below it stay errors.
LEMMA SeenAtOne ==
    ASSUME IndInv, IndInv', mounts' = mounts, NEW f \in FsIds, NEW r \in Paths,
           Kind[f] # "dev", OnlyAt(f, r), NEW p \in Paths, Seen(p)' # Seen(p)
    PROVE  Resolve(p) # 0 /\ mounts[Resolve(p)].fs = f /\ Rel(Resolve(p), p) = r
  <1>1. SeenTable /\ SeenTable'
    BY SeenIsNode, SeenIsNodeThen
  <1>2. Resolve(p)' = Resolve(p)
    BY ResolveStable
  <1>3. PICK i : i = Resolve(p)
    OBVIOUS
  <1>4. mounts'[i].fs = mounts[i].fs /\ Rel(i, p)' = Rel(i, p)
    BY DEF Rel
  <1>5. /\ i = 0 => Seen(p) = Absent
        /\ i # 0 => /\ mounts[i].fs \in FsIds /\ Rel(i, p) \in Paths
                    /\ Seen(p) = IF Kind[mounts[i].fs] = "dev" THEN DevSeen(Rel(i, p))
                                 ELSE trees[mounts[i].fs][Rel(i, p)]
    BY <1>1, <1>3 DEF SeenTable
  <1>6. /\ i = 0 => Seen(p)' = Absent
        /\ i # 0 => Seen(p)' = IF Kind[mounts[i].fs] = "dev" THEN DevSeen(Rel(i, p))
                               ELSE trees'[mounts[i].fs][Rel(i, p)]
    <2>1. Resolve(p)' = i
      BY <1>2, <1>3
    <2>2. /\ Resolve(p)' = 0 => Seen(p)' = Absent
          /\ Resolve(p)' # 0 =>
               Seen(p)' = IF Kind[mounts'[Resolve(p)'].fs] = "dev"
                          THEN DevSeen(SubSeq(p, Len(mounts'[Resolve(p)'].prefix) + 1, Len(p)))
                          ELSE trees'[mounts'[Resolve(p)'].fs]
                                     [SubSeq(p, Len(mounts'[Resolve(p)'].prefix) + 1, Len(p))]
      BY <1>1 DEF SeenTable, Rel
    <2> QED BY <2>1, <2>2 DEF Rel
  <1>7. i # 0 /\ mounts[i].fs = f /\ Rel(i, p) = r
    BY <1>5, <1>6 DEF OnlyAt
  <1> QED BY <1>3, <1>7

\* Whatever the mounts, an operation is seen at one path at most: no file
\* system is mounted twice, and nothing is visible below what was changed.
THEOREM OperationsHitOneTarget == Spec => OneTargetAtATime
  <1>1. ASSUME IndInv, [Next]_vfsVars, mounts' = mounts /\ trees' # trees
        PROVE  Cardinality({p \in Paths : Seen(p)' # Seen(p)}) <= 1
    <2> DEFINE C == {p \in Paths : Seen(p)' # Seen(p)}
    <2>1. IndInv'
      BY <1>1, NextInd
    <2>2. PICK f \in FsIds, r \in Paths : Kind[f] # "dev" /\ OnlyAt(f, r)
      BY <1>1, NextInd
    <2>3. ASSUME NEW p \in C, NEW q \in C PROVE p = q
      <3>1. Resolve(p) # 0 /\ mounts[Resolve(p)].fs = f /\ Rel(Resolve(p), p) = r
        BY <1>1, <2>1, <2>2, SeenAtOne
      <3>2. Resolve(q) # 0 /\ mounts[Resolve(q)].fs = f /\ Rel(Resolve(q), q) = r
        BY <1>1, <2>1, <2>2, SeenAtOne
      <3>3. p \in Paths /\ q \in Paths
        OBVIOUS
      <3> QED BY <1>1, <3>1, <3>2, <3>3, OnePath
    <2> HIDE DEF C
    <2>4. C = {} \/ \E p : C = {p}
      BY <2>3
    <2>5. Cardinality(C) <= 1
      <3>1. CASE C = {}
        <4>1. Cardinality(C) = 0
          BY <3>1, FS_EmptySet
        <4> QED BY <4>1
      <3>2. CASE \E p : C = {p}
        <4>1. Cardinality(C) = 1
          BY <3>2, FS_Singleton
        <4> QED BY <4>1
      <3> QED BY <2>4, <3>1, <3>2
    <2> QED BY <2>5 DEF C
  <1>2. IndInv /\ [Next]_vfsVars =>
          [(mounts' = mounts /\ trees' # trees) =>
              Cardinality({p \in Paths : Seen(p)' # Seen(p)}) <= 1]_vfsVars
    BY <1>1
  <1> QED BY <1>2, Inductive, PTL DEF Spec, OneTargetAtATime

-----------------------------------------------------------------------------
(* The shell's commands on the file systems of mount_root: they are        *)
(* operations of Vfs. ShellAssumption is used from here on only.           *)

\* The commands mount nothing, and leave the shell at a path.
ShellInv == IndInv /\ mounts = Boot /\ cwd \in Paths

\* What the commands call: every operation but append.
Commands == Ops \ {"append"}
Contents == Payloads \cup {<<>>}
Fitting(op, d) == IF op = "write" THEN d \in Payloads ELSE d = <<>>

-----------------------------------------------------------------------------
(* A command is one operation of Vfs or moves the shell.                   *)

\* execute_line: cd, or an operation on the path that normalize made.
LEMMA CommandIsOp ==
    ASSUME [ExecuteLine]_vars
    PROVE  \/ UNCHANGED vfsVars /\ (cwd' = cwd \/ cwd' \in Paths)
           \/ /\ UNCHANGED cwd
              /\ \E op \in Commands, p \in Paths, d \in Contents : Fitting(op, d) /\ Op(op, p, d)
  <1>1. CASE UNCHANGED vars
    BY <1>1 DEF vars
  <1>2. CASE ExecuteLine
    <2>1. PICK p \in Targets :
            \/ Cd(p) \/ CmdTouch(p) \/ CmdMkdir(p) \/ CmdRm(p)
            \/ \E d \in Payloads : CmdWrite(p, d)
      BY <1>2 DEF ExecuteLine
    <2>2. p \in Paths
      BY DEF Targets
    <2>3. /\ "create" \in Commands /\ "mkdir" \in Commands /\ "remove" \in Commands
          /\ "write" \in Commands
      BY DEF Commands, Ops, FileOps
    <2>4. CASE Cd(p)
      BY <2>2, <2>4 DEF Cd
    <2>5. CASE CmdTouch(p)
      BY <2>2, <2>3, <2>5 DEF CmdTouch, Touch, Fitting, Contents
    <2>6. CASE CmdMkdir(p)
      BY <2>2, <2>3, <2>6 DEF CmdMkdir, MkDir, Fitting, Contents
    <2>7. CASE CmdRm(p)
      BY <2>2, <2>3, <2>7 DEF CmdRm, Rm, Fitting, Contents
    <2>8. CASE \E d \in Payloads : CmdWrite(p, d)
      BY <2>2, <2>3, <2>8 DEF CmdWrite, WriteFile, Fitting, Contents
    <2> QED BY <2>1, <2>4, <2>5, <2>6, <2>7, <2>8
  <1> QED BY <1>1, <1>2

\* What an operation of a command does to the file systems.
LEMMA CommandInd ==
    ASSUME IndInv, NEW op \in Commands, NEW p \in Paths, NEW d \in Contents,
           Fitting(op, d), Op(op, p, d)
    PROVE  IndInv' /\ mounts' = mounts
  <1>1. d \in Seq(Nat) /\ Len(d) <= MaxLen
    <2>1. <<>> \in Seq(Nat) /\ Len(<<>>) <= MaxLen
      BY VfsAssumption
    <2> QED BY <2>1, VfsAssumption DEF Contents
  <1>2. op \in Ops /\ op # "append"
    BY DEF Commands
  <1>3. mounts' = mounts
    BY DEF Op
  <1> QED BY <1>1, <1>2, <1>3, OpInd

\* ShellInv is inductive.
LEMMA ShellStep == ShellInv /\ [ExecuteLine]_vars => ShellInv' /\ mounts' = mounts
  <1> SUFFICES ASSUME ShellInv, [ExecuteLine]_vars
               PROVE  ShellInv' /\ mounts' = mounts
    OBVIOUS
  <1>1. CASE UNCHANGED vfsVars /\ (cwd' = cwd \/ cwd' \in Paths)
    <2>1. IndInv'
      BY <1>1, NextInd DEF ShellInv
    <2> QED BY <1>1, <2>1 DEF ShellInv, vfsVars
  <1>2. CASE /\ UNCHANGED cwd
             /\ \E op \in Commands, p \in Paths, d \in Contents : Fitting(op, d) /\ Op(op, p, d)
    <2>1. IndInv' /\ mounts' = mounts
      BY <1>2, CommandInd DEF ShellInv
    <2> QED BY <1>2, <2>1 DEF ShellInv
  <1> QED BY <1>1, <1>2, CommandIsOp

\* The shell starts at "/".
LEMMA ShellStart == ShellInit => ShellInv
  BY InitInd, RootPath DEF ShellInit, ShellInv, Init

\* The invariant holds whatever is typed.
LEMMA ShellInductive == ShellSpec => []ShellInv
  <1>1. ShellInv /\ [ExecuteLine]_vars => ShellInv'
    BY ShellStep
  <1> QED BY <1>1, ShellStart, PTL DEF ShellSpec

\* No command strands a node of any of the mounted file systems.
THEOREM CommandsStrandNothing == ShellSpec => []NoStrandedNodes
  <1>1. ShellInv => NoStrandedNodes
    BY DEF ShellInv, IndInv, TreesInv, NoStrandedNodes
  <1> QED BY <1>1, ShellInductive, PTL
-----------------------------------------------------------------------------
(* The TmpFs as a FileStore.                                               *)

\* An operation that reaches the TmpFs, or goes past it.
LEMMA OpIsStoreStep ==
    ASSUME IndInv, NEW op \in Commands, NEW abs \in Paths, NEW d \in Contents,
           Fitting(op, d), Op(op, abs, d)
    PROVE  Store!StoreNext
  <1> DEFINE t == trees[Tmp]
  <1>0. /\ Tmp \in FsIds /\ Kind[Tmp] = "tmp" /\ op \in Ops /\ op # "append"
        /\ DOMAIN trees = FsIds /\ IsTree(t) /\ Rooted(t)
    BY ShellAssumption DEF IndInv, TreesInv, Commands
  <1>1. Resolve(abs) # 0
    BY DEF Op
  <1>2. PICK f \in FsIds : f = mounts[Resolve(abs)].fs
    BY <1>1, Target
  <1>3. PICK p \in Paths : p = Rel(Resolve(abs), abs)
    BY <1>1, Target
  <1>4. FsOp(f, op, p, d)
    BY <1>2, <1>3 DEF Op
  <1>5. last'.fs = f
    BY <1>4 DEF FsOp
  <1>6. CASE f # Tmp
    <2>1. trees'[Tmp] = trees[Tmp]
      BY <1>0, <1>4, <1>6 DEF FsOp
    <2> QED BY <1>5, <1>6, <2>1 DEF Store!StoreNext, Store!Fail
  <1>7. CASE f = Tmp
    <2> DEFINE res == TmpRefused(t, op, p)
    <2>1. Refused(f, op, p, d) = res
      BY <1>0, <1>7 DEF Refused
    <2>2. /\ last' = [fs |-> f, res |-> res]
          /\ trees' = IF res = "ok" THEN [trees EXCEPT ![f] = After(@, op, p, d)] ELSE trees
      BY <1>0, <1>4, <1>7, <2>1 DEF FsOp
    <2>3. last'.res = res
      BY <2>2
    <2>4. CASE res # "ok"
      BY <1>5, <1>7, <2>2, <2>3, <2>4 DEF Store!StoreNext, Store!Fail
    <2>5. CASE res = "ok"
      <3>1. p # <<>> /\ t[Front(p)] = DirNode /\ RefusedInDir(t, op, p) = "ok"
        BY <1>0, <2>5, NotRefused
      <3>2. trees'[Tmp] = After(t, op, p, d)
        BY <1>0, <1>7, <2>2, <2>5
      <3>3. (IF last'.fs = Tmp THEN last'.res ELSE "elsewhere") = "ok"
        BY <1>5, <1>7, <2>3, <2>5
      <3>4. op \in FileOps => t[p] # DirNode
        BY <3>1 DEF RefusedInDir, FileOps
      <3>5. op = "mkdir" => t[p] = Absent
        BY <3>1 DEF RefusedInDir, FileOps
      <3>6. op = "remove" => t[p] # Absent /\ Kids(t, p) = {}
        BY <3>1 DEF RefusedInDir, FileOps
      <3>7. Absent # DirNode
        BY DEF Absent, DirNode
      <3>8. t[p] # DirNode => Store!FilePlace(p)
        BY <3>1 DEF Store!FilePlace, Store!IsDirIn, Store!ParentPath, Front,
                    Store!DirNode, DirNode
      <3> HIDE DEF t, res
      <3>9. CASE op = "create"
        <4>1. After(t, op, p, d) = [t EXCEPT ![p] = FileNode(<<>>)]
          BY <3>9 DEF After
        <4>2. Store!Create(p)
          BY <3>2, <3>3, <3>4, <3>8, <3>9, <4>1
             DEF Store!Create, Store!Put, Store!FileNode, FileNode, FileOps, t
        <4> QED BY <4>2 DEF Store!StoreNext
      <3>10. CASE op = "write"
        <4>1. After(t, op, p, d) = [t EXCEPT ![p] = FileNode(d)]
          BY <3>10 DEF After
        <4>2. Store!Write(p, d) /\ d \in Payloads
          BY <3>2, <3>3, <3>4, <3>8, <3>10, <4>1
             DEF Store!Write, Store!Put, Store!FileNode, FileNode, FileOps, Fitting, t
        <4> QED BY <4>2 DEF Store!StoreNext
      <3>11. CASE op = "mkdir"
        <4>1. After(t, op, p, d) = [t EXCEPT ![p] = DirNode]
          BY <3>11 DEF After
        <4>2. Store!MkDir(p)
          BY <3>2, <3>3, <3>5, <3>7, <3>8, <3>11, <4>1
             DEF Store!MkDir, Store!Put, Store!DirNode, DirNode, Store!Absent, Absent, t
        <4> QED BY <4>2 DEF Store!StoreNext
      <3>12. CASE op = "remove"
        <4>1. After(t, op, p, d) = [t EXCEPT ![p] = Absent]
          BY <3>12 DEF After
        <4>2. ~Store!HasKids(t, p)
          BY <3>6, <3>12 DEF Store!HasKids, Kids, Store!ParentPath, Front,
                             Store!Absent, Absent
        <4>3. Store!Remove(p)
          BY <3>1, <3>2, <3>3, <3>6, <3>12, <4>1, <4>2
             DEF Store!Remove, Store!Put, Store!Absent, Absent, t
        <4> QED BY <4>3 DEF Store!StoreNext
      <3> QED BY <1>0, <3>9, <3>10, <3>11, <3>12 DEF Ops, FileOps
    <2> QED BY <2>4, <2>5
  <1> QED BY <1>6, <1>7

\* Through the mount table and under commands that go to other file systems,
\* each operation on the TmpFs does what FileStore says or fails and leaves
\* the tree alone.
THEOREM TmpIsFileStore == ShellSpec => TmpStoreSpec
  <1>1. ShellInit => Store!StoreInit
    <2> SUFFICES ASSUME ShellInit PROVE Store!StoreInit
      OBVIOUS
    <2>1. trees[Tmp] = EmptyTree
      BY ShellAssumption DEF ShellInit, Init
    <2> QED BY <2>1 DEF EmptyTree, Store!StoreInit, Store!DirNode, DirNode,
                        Store!Absent, Absent
  <1>2. ShellInv /\ [ExecuteLine]_vars => [Store!StoreNext]_(Store!storeVars)
    <2> SUFFICES ASSUME ShellInv, [ExecuteLine]_vars
                 PROVE  Store!StoreNext \/ UNCHANGED Store!storeVars
      OBVIOUS
    <2>1. CASE UNCHANGED vfsVars
      BY <2>1 DEF vfsVars, Store!storeVars
    <2>2. CASE \E op \in Commands, p \in Paths, d \in Contents : Fitting(op, d) /\ Op(op, p, d)
      BY <2>2, OpIsStoreStep DEF ShellInv
    <2> QED BY <2>1, <2>2, CommandIsOp
  <1> QED BY <1>1, <1>2, ShellInductive, PTL DEF ShellSpec, TmpStoreSpec, Store!StoreSpec
-----------------------------------------------------------------------------
(* The working directory.                                                  *)

\* is_dir is what is seen.
DirTable == \A p \in Paths : IsDir(p) <=> Seen(p) = DirNode

\* In every state of the file systems, hence also after a step.
LEMMA DirIsSeen == IndInv => DirTable
  <1> SUFFICES ASSUME IndInv, NEW p \in Paths PROVE IsDir(p) <=> Seen(p) = DirNode
    BY DEF DirTable
  <1>1. IsDir(p) <=> NodeAt(p) = DirNode
    BY DirIsNode
  <1>2. DirNode.k = "dir" /\ Absent # DirNode
    BY DEF DirNode, Absent
  <1> QED BY <1>1, <1>2 DEF Seen

\* The same after a step.
LEMMA DirIsSeenThen == IndInv' => DirTable'
  BY DirIsSeen, PTL

\* What is seen before and after an operation is the node the path leads to.
LEMMA SeenNow ==
    ASSUME IndInv, IndInv', mounts' = mounts, NEW c \in Paths, Resolve(c) # 0,
           NEW f, f = mounts[Resolve(c)].fs, Kind[f] # "dev",
           NEW r, r = Rel(Resolve(c), c)
    PROVE  Seen(c) = trees[f][r] /\ Seen(c)' = trees'[f][r]
  <1>1. SeenTable /\ SeenTable'
    BY SeenIsNode, SeenIsNodeThen
  <1>2. PICK i : i = Resolve(c)
    OBVIOUS
  <1>3. Resolve(c)' = i
    BY <1>2, ResolveStable
  <1>4. Seen(c) = trees[f][r]
    BY <1>1 DEF SeenTable
  <1>5. Resolve(c)' # 0 =>
          Seen(c)' = IF Kind[mounts'[Resolve(c)'].fs] = "dev"
                     THEN DevSeen(SubSeq(c, Len(mounts'[Resolve(c)'].prefix) + 1, Len(c)))
                     ELSE trees'[mounts'[Resolve(c)'].fs]
                                [SubSeq(c, Len(mounts'[Resolve(c)'].prefix) + 1, Len(c))]
    BY <1>1 DEF SeenTable, Rel
  <1> QED BY <1>2, <1>3, <1>4, <1>5 DEF Rel

\* Of the operations only remove makes a directory disappear, and only one
\* that is empty.
LEMMA OnlyRemoveTakes ==
    ASSUME IndInv, NEW f \in FsIds, NEW op \in Ops, NEW p \in Paths, NEW d,
           FsOp(f, op, p, d), Kind[f] # "dev",
           trees[f][p] = DirNode, trees'[f][p] # DirNode
    PROVE  /\ p # <<>> /\ trees[f][Front(p)] = DirNode
           /\ Kids(trees[f], p) = {}
  <1> DEFINE t == trees[f]
  <1>1. IsTree(t) /\ DOMAIN trees = FsIds /\ Kind[f] \in {"tmp", "ram", "fat"}
    BY VfsAssumption DEF IndInv, TreesInv
  <1>2. DirNode.k = "dir" /\ Absent # DirNode
    BY DEF DirNode, Absent
  <1>3. DiskFull(t, op, p) = {t}
    BY <1>2 DEF DiskFull
  <1>4. Refused(f, op, p, d) = "ok"
    <2>1. ASSUME Refused(f, op, p, d) # "ok" PROVE trees' = trees
      BY <2>1 DEF FsOp
    <2> QED BY <2>1
  <1>5. TmpRefused(t, op, p) = "ok" \/ FatRefused(t, op, p) = "ok"
    BY <1>1, <1>4 DEF Refused
  <1>6. p # <<>> /\ t[Front(p)] = DirNode /\ RefusedInDir(t, op, p) = "ok"
    BY <1>1, <1>5, NotRefused
  <1>7. op = "remove"
    BY <1>2, <1>6 DEF RefusedInDir, Ops, FileOps
  <1>8. Kids(t, p) = {}
    BY <1>6, <1>7 DEF RefusedInDir, FileOps
  <1> QED BY <1>6, <1>8

\* A directory that an operation makes disappear is no mount point and shows
\* no mount point as a child, for mounts of at most one name.
LEMMA EmptyListing ==
    ASSUME IndInv, mounts = Boot, NEW c \in Paths, c # <<>>, Resolve(c) # 0,
           NodeAt(c) = DirNode,
           NEW f \in FsIds, f = mounts[Resolve(c)].fs, Kind[f] # "dev",
           NEW r \in Paths, r = Rel(Resolve(c), c), Kids(trees[f], r) = {}
    PROVE  ListDir(c).names = {}
  <1> DEFINE points == {mounts[j].prefix : j \in DOMAIN mounts}
             below  == {Last(q) : q \in {x \in points : x # <<>> /\ Front(x) = c}}
             here   == FsListDir(f, r)
  <1>1. FsNode(f, r) = DirNode
    BY DEF NodeAt
  <1>2. here = [k |-> "names", names |-> {Last(q) : q \in Kids(trees[f], r)}]
    BY <1>1, FsListing
  <1>3. here.k = "names" /\ here.names = {}
    BY <1>2
  <1>4. below = {}
    <2> SUFFICES ASSUME NEW x \in points, x # <<>>, Front(x) = c PROVE FALSE
      OBVIOUS
    <2>1. x \in Paths /\ Len(x) <= 1
      <3>1. MountsInv
        BY DEF IndInv
      <3> QED BY <3>1, MountFacts, ShellAssumption
    <2>2. Len(c) = Len(x) - 1 /\ Len(x) >= 1 /\ Len(x) \in Nat /\ Len(c) \in Nat
      BY <2>1, ParentFacts, PathFacts
    <2> QED BY <2>1, <2>2, RootPath
  <1>5. ListDir(c) = [here EXCEPT !.names = @ \cup below]
    <2> HIDE DEF here, below
    <2>1. here.k # "error"
      BY <1>3
    <2> QED BY <2>1 DEF ListDir, here, below, points
  <1>6. ListDir(c).names = here.names \cup below
    <2> HIDE DEF below
    <2> QED BY <1>2, <1>5
  <1> QED BY <1>3, <1>4, <1>6

\* The parent of a path that is not a mount point is in the same file system.
LEMMA ParentTarget ==
    ASSUME IndInv, NEW c \in Paths, c # <<>>, ~MountedAt(c), Resolve(c) # 0
    PROVE  /\ Resolve(Front(c)) = Resolve(c)
           /\ Rel(Resolve(c), c) # <<>>
           /\ Rel(Resolve(c), Front(c)) = Front(Rel(Resolve(c), c))
  <1> DEFINE g == Front(c)
             n == Last(c)
             i == Resolve(c)
             a == mounts[i].prefix
  <1>0. MountsInv
    BY DEF IndInv
  <1>1. /\ g \in Paths /\ Len(g) = Len(c) - 1 /\ Len(c) >= 1 /\ n \in Names
        /\ Child(g, n) = c /\ Len(c) \in Nat /\ Len(c) <= MaxDepth /\ MaxDepth \in Nat
    BY ParentFacts, PathFacts, VfsAssumption
  <1>2. i \in 1..Len(mounts) /\ a \in Paths /\ Len(a) \in Nat /\ Fits(c, a)
        /\ i \in DOMAIN mounts
    BY <1>0, Target, PathFacts, MountFacts, ResolveLongest
  <1>3. Len(a) <= Len(c) /\ \A k \in 1..Len(a) : c[k] = a[k]
    BY <1>2, FitsNames
  <1>4. Len(a) # Len(c)
    <2>1. ASSUME Len(a) = Len(c) PROVE FALSE
      <3>1. a = c
        BY <1>2, <1>3, <2>1, SamePath
      <3> QED BY <1>2, <3>1 DEF MountedAt
    <2> QED BY <2>1
  <1>5. Fits(g, a)
    <2>1. \A k \in 1..(Len(c) - 1) : g[k] = c[k]
      BY <1>1, SubPath DEF Front
    <2>2. Len(a) <= Len(g) /\ \A k \in 1..Len(a) : g[k] = a[k]
      BY <1>1, <1>2, <1>3, <1>4, <2>1
    <2> QED BY <1>1, <1>2, <2>2, FitsNames
  <1>6. Resolve(g) # 0
    BY <1>0, <1>1, <1>2, <1>5, ResolveLongest
  <1>7. /\ Resolve(Child(g, n)) = Resolve(g)
        /\ Rel(Resolve(g), Child(g, n)) = Child(Rel(Resolve(g), g), n)
    BY <1>1, <1>6, ChildTarget
  <1>8. Resolve(g) = i /\ Rel(i, c) = Child(Rel(i, g), n)
    BY <1>1, <1>7
  <1>9. Rel(i, g) \in Paths /\ Len(Rel(i, g)) < MaxDepth
    <2>1. Rel(i, g) \in Paths /\ Len(Rel(i, g)) = Len(g) - Len(a)
      BY <1>1, <1>6, <1>8, Target
    <2>2. Len(g) < MaxDepth /\ Len(g) \in Int
      BY <1>1
    <2> HIDE DEF g, a, i
    <2> QED BY <1>2, <2>1, <2>2, VfsAssumption
  <1> QED BY <1>1, <1>8, <1>9, ChildFacts

\* An operation under which a directory is lost.
LEMMA DirLost ==
    ASSUME IndInv, mounts = Boot, NEW op \in Commands, NEW abs \in Paths,
           NEW d \in Contents, Fitting(op, d), Op(op, abs, d),
           NEW c \in Paths, IsDir(c), ~IsDir(c)'
    PROVE  /\ c # <<>> /\ ~MountedAt(c)
           /\ ListDir(c).names = {}
           /\ IsDir(Front(c))'
  <1>0. Resolve(abs) # 0 /\ mounts' = mounts /\ op \in Ops /\ op # "append"
    BY DEF Op, Commands
  <1>1. PICK f \in FsIds : f = mounts[Resolve(abs)].fs
    BY <1>0, Target
  <1>2. PICK p \in Paths : p = Rel(Resolve(abs), abs)
    BY <1>0, Target
  <1>3. FsOp(f, op, p, d)
    BY <1>1, <1>2 DEF Op
  <1>4. IndInv'
    BY CommandInd
  <1>5. DirTable /\ DirTable'
    BY <1>4, DirIsSeen, DirIsSeenThen
  <1>6. Seen(c) = DirNode /\ Seen(c)' # DirNode /\ NodeAt(c) = DirNode
    BY <1>5, DirIsNode DEF DirTable
  <1>7. trees' # trees
    <2>1. ASSUME trees' = trees PROVE Seen(c)' = Seen(c)
      BY <1>0, <2>1 DEF Seen, NodeAt, FsNode, Resolve, Rel
    <2> QED BY <1>6, <2>1
  <1>8. Kind[f] # "dev" /\ OnlyAt(f, p)
    <2>1. d \in Seq(Nat) /\ Len(d) <= MaxLen
      <3>1. <<>> \in Seq(Nat) /\ Len(<<>>) <= MaxLen
        BY VfsAssumption
      <3> QED BY <3>1, VfsAssumption DEF Contents
    <2>2. RoomFor(trees[f], op, p, d)
      BY <1>0 DEF RoomFor
    <2> QED BY <1>0, <1>3, <1>7, <2>1, <2>2, FsOpInd
  <1>9. Resolve(c) # 0 /\ mounts[Resolve(c)].fs = f /\ Rel(Resolve(c), c) = p
    BY <1>0, <1>4, <1>6, <1>8, SeenAtOne
  <1>10. trees[f][p] = DirNode /\ trees'[f][p] # DirNode
    BY <1>0, <1>4, <1>6, <1>8, <1>9, SeenNow
  <1>11. p # <<>> /\ trees[f][Front(p)] = DirNode /\ Kids(trees[f], p) = {}
    BY <1>0, <1>3, <1>8, <1>10, OnlyRemoveTakes
  <1>12. ~MountedAt(c)
    BY <1>9, <1>11, MountPoint
  <1>13. c # <<>>
    <2>1. Len(p) = Len(c) - Len(mounts[Resolve(c)].prefix)
          /\ mounts[Resolve(c)].prefix \in Paths
      BY <1>9, Target
    <2>2. Len(p) \in Nat /\ Len(p) # 0 /\ Len(c) \in Nat
          /\ Len(mounts[Resolve(c)].prefix) \in Nat
      BY <1>11, <2>1, PathFacts, RootPath
    <2> QED BY <2>1, <2>2, RootPath
  <1>14. ListDir(c).names = {}
    BY <1>6, <1>8, <1>9, <1>11, <1>13, EmptyListing
  <1>15. IsDir(Front(c))'
    <2>1. PICK g \in Paths : g = Front(c)
      BY <1>13, ParentFacts
    <2>2. Resolve(g) = Resolve(c) /\ Rel(Resolve(g), g) = Front(p)
      BY <1>9, <1>12, <1>13, <2>1, ParentTarget
    <2>3. Seen(g)' = trees'[f][Front(p)]
      BY <1>0, <1>4, <1>8, <1>9, <2>2, SeenNow
    <2>4. trees'[f][Front(p)] = trees[f][Front(p)]
      BY <1>8, <1>11, ParentFacts DEF OnlyAt
    <2>5. Seen(g)' = DirNode
      BY <1>11, <2>3, <2>4
    <2>6. IsDir(g)'
      BY <1>5, <2>5 DEF DirTable
    <2> QED BY <2>1, <2>6
  <1> QED BY <1>12, <1>13, <1>14, <1>15

\* rm is the only way for the shell to lose its working directory, which must
\* then be empty and its parent a directory: "cd .." always leads out.
THEOREM CwdIsLostByRmOnly == ShellSpec => CwdLostOnlyByItsRemoval
  <1> DEFINE A == (IsDir(cwd) /\ cwd' = cwd /\ ~IsDir(cwd)') =>
                    /\ cwd # <<>> /\ ~MountedAt(cwd)
                    /\ ListDir(cwd).names = {}
                    /\ IsDir(Front(cwd))'
  <1>1. ShellInv /\ [ExecuteLine]_vars => [A]_vars
    <2> SUFFICES ASSUME ShellInv, [ExecuteLine]_vars,
                        IsDir(cwd), cwd' = cwd, ~IsDir(cwd)'
                 PROVE  /\ cwd # <<>> /\ ~MountedAt(cwd)
                        /\ ListDir(cwd).names = {}
                        /\ IsDir(Front(cwd))'
      OBVIOUS
    <2>1. PICK c \in Paths : c = cwd
      BY DEF ShellInv
    <2>2. IsDir(c) /\ ~IsDir(c)'
      BY <2>1
    <2>3. CASE UNCHANGED vfsVars
      <3>1. mounts' = mounts /\ trees' = trees
        BY <2>3 DEF vfsVars
      <3>2. NodeAt(c)' = NodeAt(c)
        BY <3>1 DEF NodeAt, FsNode, Resolve, Rel
      <3>3. MountedAt(c)' <=> MountedAt(c)
        BY <3>1 DEF MountedAt
      <3> QED BY <2>2, <3>2, <3>3 DEF IsDir
    <2>4. CASE \E op \in Commands, p \in Paths, d \in Contents : Fitting(op, d) /\ Op(op, p, d)
      <3>1. /\ c # <<>> /\ ~MountedAt(c) /\ ListDir(c).names = {}
            /\ IsDir(Front(c))'
        BY <2>2, <2>4, DirLost DEF ShellInv
      <3>2. IsDir(Front(cwd))'
        BY <2>1, <3>1
      <3> QED BY <2>1, <3>1, <3>2
    <2> QED BY <2>3, <2>4, CommandIsOp
  <1> QED BY <1>1, ShellInductive, PTL DEF ShellSpec, CwdLostOnlyByItsRemoval
=============================================================================

---------------------------- MODULE FatFsProofs -----------------------------
(***************************************************************************)
(* What follows from the invariants of FatTreeProofs: chains, directories  *)
(* and names, what every path reads as during and after an operation, the  *)
(* store that is implemented, and the clusters that FsInfo counts.         *)
(***************************************************************************)
EXTENDS FatTreeProofs

-----------------------------------------------------------------------------
(* What follows from the structure.                                        *)

\* read_dir returns entries that are in the directory.
LEMMA DirHolds ==
    ASSUME NEW f \in Fats, Acyclic(f), NEW d \in DataAreas, NEW h \in DataClusters
    PROVE  /\ \A j \in DOMAIN DirIn(f, d, h) :
                 /\ Place(ChainIn(f, h), j) \in Holds(f, d, h) /\ DirIn(f, d, h)[j] \in Entries
                 /\ DirIn(f, d, h)[j] = At(d, Place(ChainIn(f, h), j))
           /\ \A i, j \in DOMAIN DirIn(f, d, h) :
                 Place(ChainIn(f, h), i) = Place(ChainIn(f, h), j) => i = j
  <1> DEFINE s == UnitsIn(f, d, h)
             ch == ChainIn(f, h)
             D == DirIn(f, d, h)
  <1>1. /\ Len(s) \in Nat
        /\ \A j \in 1..Len(s) : /\ Place(ch, j) \in Slots /\ Place(ch, j)[1] \in In(f, h)
                                /\ s[j] = At(d, Place(ch, j)) /\ s[j] \in Units
        /\ \A i, j \in 1..Len(s) : Place(ch, i) = Place(ch, j) => i = j
    BY SlotPlaces
  <1>2. FirstIndex(s, {End}) \in 1..(Len(s) + 1)
    BY <1>1, FirstFacts
  <1>3. \A j \in DOMAIN D : j \in 1..Len(s) /\ s[j].k = "entry" /\ D[j] = s[j]
    BY <1>1, <1>2 DEF DirIn, IsEntry
  <1> HIDE DEF s, ch, D
  <1>4. \A j \in DOMAIN D : Place(ch, j) \in Holds(f, d, h) /\ D[j] \in Entries /\ D[j] = At(d, Place(ch, j))
    BY <1>1, <1>3, EntryUnits DEF Holds, EntrySlots
  <1>5. \A i, j \in DOMAIN D : Place(ch, i) = Place(ch, j) => i = j
    BY <1>1, <1>3
  <1> QED BY <1>4, <1>5 DEF D, ch

\* Every entry that is read is on the disk, in the chain of the root or of a
\* directory.
LEMMA LiveHeld ==
    ASSUME fat[1] \in Fats, data \in DataAreas, Acyclic(fat[1])
    PROVE  \A e \in LiveEntries :
              /\ e \in Entries
              /\ \E x \in EntrySlots(data) : e = At(data, x)
  <1>1. PICK f, d : f = fat[1] /\ d = data
    OBVIOUS
  <1>2. ASSUME NEW h \in DataClusters, NEW e \in RangeOf(ReadDir(h))
        PROVE  e \in Entries /\ \E x \in EntrySlots(d) : e = At(d, x)
    <2>1. PICK j \in DOMAIN DirIn(f, d, h) : e = DirIn(f, d, h)[j]
      BY <1>1, DirNow DEF RangeOf
    <2>2. /\ Place(ChainIn(f, h), j) \in Holds(f, d, h) /\ DirIn(f, d, h)[j] \in Entries
          /\ DirIn(f, d, h)[j] = At(d, Place(ChainIn(f, h), j))
      BY <1>1, DirHolds
    <2> QED BY <2>1, <2>2 DEF Holds
  <1>3. Root \in DataClusters
    BY Numbers
  <1>4. ASSUME NEW e \in LiveEntries
        PROVE  e \in Entries /\ \E x \in EntrySlots(d) : e = At(d, x)
    <2>1. CASE e \in RangeOf(ReadDir(Root))
      BY <1>2, <1>3, <2>1
    <2>2. CASE e \notin RangeOf(ReadDir(Root))
      <3>1. PICK t \in RangeOf(ReadDir(Root)) : t.dir /\ e \in RangeOf(ReadDir(t.cluster))
        BY <2>2 DEF LiveEntries
      <3>2. \E x \in EntrySlots(d) : t = At(d, x)
        BY <1>2, <1>3
      <3>3. t.cluster \in DataClusters
        BY <1>1, <3>1, <3>2, EntryAt
      <3> QED BY <1>2, <3>1, <3>3
    <2> QED BY <2>1, <2>2
  <1> QED BY <1>1, <1>4

\* No chain that a directory entry leads to runs into itself, damaged entries
\* included.
THEOREM ChainsNeverLoop ==
    ASSUME NamesFit
    PROVE  Spec => []ChainsAcyclic
  <1>1. DiskInv /\ TreeInv => ChainsAcyclic
    <2> SUFFICES ASSUME DiskInv, TreeInv,
                        NEW h \in {Root} \cup {e.cluster : e \in LiveEntries},
                        NEW i \in DOMAIN Chain(h), NEW j \in DOMAIN Chain(h),
                        Chain(h)[i] = Chain(h)[j]
                 PROVE  i = j
      BY DEF ChainsAcyclic
    <2>1. PICK f : f = fat[1]
      OBVIOUS
    <2>2. f \in Fats /\ data \in DataAreas /\ Acyclic(f)
      BY <2>1, At1 DEF TreeInv, FatOK
    <2>3. h \in {0} \cup DataClusters
      <3>1. \A e \in LiveEntries : \E x \in EntrySlots(data) : e = At(data, x)
        BY <2>1, <2>2, LiveHeld
      <3> QED BY <2>2, <3>1, EntryAt, Numbers
    <2>4. Chain(h) = ChainIn(f, h)
      BY <2>1, ChainNow
    <2>5. CASE h = 0
      BY <2>4, <2>5, NoChain
    <2>6. CASE h \in DataClusters
      <3>1. /\ \A m, n \in 1..Len(ChainIn(f, h)) : ChainIn(f, h)[m] = ChainIn(f, h)[n] => m = n
            /\ ChainIn(f, h) \in Seq(DataClusters)
        BY <2>2, <2>6, ChainEnds, LastIn
      <3>2. PICK s : s = ChainIn(f, h)
        OBVIOUS
      <3>3. DOMAIN s = 1..Len(s)
        BY <3>1, <3>2
      <3> QED BY <2>4, <3>1, <3>2, <3>3
    <2> QED BY <2>3, <2>5, <2>6
  <1> QED BY <1>1, DiskInvariant, TreeInvariant, PTL

\* Nothing of that name in the directory.
LEMMA FindNone ==
    ASSUME NEW f \in Fats, Acyclic(f), NEW d \in DataAreas, NEW h \in DataClusters, NEW n,
           \A x \in Holds(f, d, h) : At(d, x).name # n
    PROVE  FindIn(f, d, h, n) = Error("NotFound")
  <1> SUFFICES ASSUME FindIn(f, d, h, n) # Error("NotFound") PROVE FALSE
    OBVIOUS
  <1>1. PICK j : Hit(f, d, h, n, j)
    BY FindFacts
  <1> DEFINE s == UnitsIn(f, d, h)
             x == Place(ChainIn(f, h), j)
  <1>2. j \in 1..Len(s) /\ s[j].k = "entry" /\ s[j].name = n
    BY <1>1 DEF Hit
  <1>3. x \in Slots /\ x[1] \in In(f, h) /\ s[j] = At(d, x)
    BY <1>2, SlotPlaces
  <1> HIDE DEF s, x
  <1>4. x \in Holds(f, d, h) /\ At(d, x).name = n
    BY <1>2, <1>3 DEF Holds, EntrySlots
  <1> QED BY <1>4

\* Nothing is below a path that leads nowhere, to a file or to an empty
\* directory.
LEMMA NothingBelow ==
    ASSUME NEW f \in Fats, Acyclic(f), NEW d \in DataAreas, NEW p0 \in Seq(Names), NEW u,
           u = LookIn(f, d, p0),
           u.k # "error" /\ u.dir => u.cluster \in DataClusters /\ Holds(f, d, u.cluster) = {}
    PROVE  \A q \in Seq(Names) : Below(p0, q) => LookIn(f, d, q).k = "error"
  <1> DEFINE S == {q \in Seq(Names) : Below(p0, q) => LookIn(f, d, q).k = "error"}
  <1>1. <<>> \in S
    BY DEF Below
  <1>2. ASSUME NEW q \in Seq(Names), q # <<>>, Parent(q) \in S PROVE q \in S
    <2> SUFFICES ASSUME Below(p0, q) PROVE LookIn(f, d, q).k = "error"
      OBVIOUS
    <2>1. p0 = Parent(q) \/ Below(p0, Parent(q))
      BY <1>2, BelowParent
    <2>2. PICK e : e = LookIn(f, d, Parent(q))
      OBVIOUS
    <2>3. LookIn(f, d, q) = EnterIn(f, d, e, Last(q))
      BY <1>2, <2>2, LookChild
    <2>4. CASE Below(p0, Parent(q))
      <3>1. e.k = "error"
        BY <1>2, <2>2, <2>4
      <3> QED BY <2>3, <3>1 DEF EnterIn
    <2>5. CASE p0 = Parent(q)
      <3>1. e = u
        BY <2>2, <2>5
      <3>2. CASE e.k = "error"
        BY <2>3, <3>2 DEF EnterIn
      <3>3. CASE e.k # "error" /\ ~e.dir
        BY <2>3, <3>3, EntryUnits DEF EnterIn
      <3>4. CASE e.k # "error" /\ e.dir
        <4>1. e.cluster \in DataClusters /\ Holds(f, d, e.cluster) = {}
          BY <3>1, <3>4
        <4>2. FindIn(f, d, e.cluster, Last(q)) = Error("NotFound")
          BY <4>1, FindNone
        <4>3. LookIn(f, d, q) = Error("NotFound")
          BY <2>3, <3>4, <4>2 DEF EnterIn
        <4> QED BY <4>3, EntryUnits
      <3> QED BY <3>2, <3>3, <3>4
    <2> QED BY <2>1, <2>4, <2>5
  <1>3. \A q \in Seq(Names) : q \in S
    <2> HIDE DEF S
    <2> QED BY <1>1, <1>2, PathInduction
  <1> QED BY <1>3

\* What the target of an operation reads as, in each of its phases.
Target(f, d, X, u) ==
    /\ u = LookIn(f, d, op.path)
    /\ Clearing => \E x \in X \cap Holds(f, d, op.parent) :
          /\ u = At(d, x) /\ u.name = Last(op.path) /\ u.cluster = op.free
          /\ u.dir /\ op.path \notin bad => Tidy(UnitsIn(f, d, op.free))
          /\ op.free # 0 => Loose(f, d, X, op.free) /\ Holds(f, d, op.free) = {}
    /\ ~Clearing /\ (pc # "done" \/ ~op.add) => u = Error("NotFound")
    /\ pc = "done" /\ op.add =>
          /\ u = Entry(Last(op.path), op.mkdir, head, Len(op.payload))
          /\ op.mkdir => head \in DataClusters /\ Holds(f, d, head) = {}

\* What lookup finds at the target of an operation, phase by phase.
LEMMA TargetIs ==
    ASSUME DiskInv, FatOK(fat[1]), Active, NEW T, NEW X, StructInv(T, X)
    PROVE  Target(fat[1], data, X, LookIn(fat[1], data, op.path))
  <1>1. PICK f, d, p0, q, n, par, u :
           /\ f = fat[1] /\ d = data /\ p0 = op.path /\ q = Parent(op.path) /\ n = Last(op.path)
           /\ par = op.parent /\ u = LookIn(fat[1], data, op.path)
    OBVIOUS
  <1>2. /\ f \in Fats /\ d \in DataAreas /\ FatOK(f) /\ Acyclic(f) /\ p0 \in Seq(Names)
        /\ p0 # <<>> /\ op.free \in {0} \cup DataClusters /\ par \in DataClusters /\ Sound(op)
    <2>1. Sound(op)
      BY DEF Active, DiskInv, OpInv
    <2> QED BY <1>1, <2>1, At1 DEF FatOK, Sound
  <1>3. /\ Tree(f, d, T, X) /\ Owners(f, d, X) /\ ClearInv(X) /\ MakeInv(X) /\ DoneInv(X)
        /\ q \in DOMAIN T /\ T[q] = par
    BY <1>1 DEF StructInv
  <1>4. u = FindIn(f, d, par, n)
    <2>1. u = EnterIn(f, d, LookIn(f, d, q), n)
      BY <1>1, <1>2, LookChild
    <2>2. LookIn(f, d, q).k = "entry" /\ LookIn(f, d, q).dir /\ LookIn(f, d, q).cluster = par
      BY <1>2, <1>3, LookTable
    <2> QED BY <2>1, <2>2 DEF EnterIn
  <1>5. DirOK(f, d, par)
    BY <1>3 DEF Tree
  <1>6. \A x \in Holds(f, d, par) : At(d, x).name = n => u = At(d, x)
    BY <1>2, <1>4, <1>5, FindBy
  <1>7. NotThere => u = Error("NotFound")
    BY <1>1, <1>2, <1>4, FindNone DEF NotThere
  <1>8. ASSUME Clearing
        PROVE  \E x \in X \cap Holds(f, d, par) :
                  /\ u = At(d, x) /\ u.name = n /\ u.cluster = op.free
                  /\ u.dir /\ p0 \notin bad => Tidy(UnitsIn(f, d, op.free))
                  /\ op.free # 0 => Loose(f, d, X, op.free) /\ Holds(f, d, op.free) = {}
    <2>1. PICK x : /\ x \in X \cap Holds(f, d, par) /\ At(d, x).name = n
                   /\ At(d, x).cluster = op.free
                   /\ At(d, x).dir /\ p0 \notin bad => Tidy(UnitsIn(f, d, op.free))
      BY <1>1, <1>3, <1>8 DEF ClearInv
    <2>2. op.free # 0 => Loose(f, d, X, op.free)
      BY <1>1, <1>3, <1>8 DEF ClearInv
    <2>3. op.free # 0 => Holds(f, d, op.free) = {}
      BY <1>2, <1>3, <2>2, LooseApart
    <2>4. u = At(d, x)
      BY <1>6, <2>1
    <2> QED BY <2>1, <2>2, <2>3, <2>4
  <1>9. ASSUME ~Clearing, pc # "done" \/ ~op.add PROVE u = Error("NotFound")
    BY <1>3, <1>7, <1>9 DEF MakeInv, DoneInv
  <1>10. ASSUME pc = "done", op.add
         PROVE  /\ u = Entry(n, op.mkdir, head, Len(op.payload))
                /\ op.mkdir => head \in DataClusters /\ Holds(f, d, head) = {}
    <2>1. PICK x : /\ x \in Holds(f, d, par)
                   /\ At(d, x) = Entry(n, op.mkdir, head, Len(op.payload))
      BY <1>1, <1>3, <1>10 DEF DoneInv
    <2>2. At(d, x).name = n
      BY <2>1 DEF Entry
    <2>3. u = At(d, x)
      BY <1>6, <2>1, <2>2
    <2>4. op.mkdir => Holds(f, d, head) = {}
      BY <1>1, <1>3, <1>10 DEF DoneInv
    <2>5. op.mkdir => head \in DataClusters
      BY <1>2, <1>10 DEF Sound, DiskInv, PhaseInv
    <2> QED BY <2>1, <2>3, <2>4, <2>5
  <1> QED BY <1>1, <1>8, <1>9, <1>10 DEF Target

\* Below the target of an operation there is nothing, in any of its phases.
LEMMA BelowTarget ==
    ASSUME DiskInv, TreeInv, Active
    PROVE  \A q \in Seq(Names) : Below(op.path, q) => LookIn(fat[1], data, q).k = "error"
  <1>1. PICK T, X : StructInv(T, X)
    BY DEF TreeInv
  <1>2. PICK f, d, p0, u : f = fat[1] /\ d = data /\ p0 = op.path /\ u = LookIn(fat[1], data, op.path)
    OBVIOUS
  <1>3. f \in Fats /\ d \in DataAreas /\ Acyclic(f) /\ p0 \in Seq(Names) /\ FatOK(f)
    BY <1>2, At1 DEF TreeInv, FatOK
  <1>4. Target(f, d, X, u)
    BY <1>1, <1>2, <1>3, TargetIs
  <1>5. ASSUME u.k # "error", u.dir
        PROVE  u.cluster \in DataClusters /\ Holds(f, d, u.cluster) = {}
    <2>1. CASE Clearing
      <3>1. PICK x : x \in Holds(f, d, op.parent) /\ u = At(d, x) /\ u.cluster = op.free
                     /\ (op.free # 0 => Holds(f, d, op.free) = {})
        BY <1>4, <2>1 DEF Target
      <3>2. u.cluster \in DataClusters
        BY <1>3, <1>5, <3>1, EntryAt DEF Holds
      <3> QED BY <3>1, <3>2, Numbers
    <2>2. CASE ~Clearing
      <3>1. pc = "done" /\ op.add
        BY <1>4, <1>5, <2>2, EntryUnits DEF Target
      <3>2. u.dir = op.mkdir /\ u.cluster = head
        BY <1>4, <3>1 DEF Target, Entry
      <3> QED BY <1>4, <1>5, <3>1, <3>2 DEF Target
    <2> QED BY <2>1, <2>2
  <1>6. \A q \in Seq(Names) : Below(p0, q) => LookIn(f, d, q).k = "error"
    BY <1>2, <1>3, <1>5, NothingBelow
  <1> QED BY <1>2, <1>6

\* An undamaged path is in the tree, or is the target whose entry is going.
LEMMA TrustedSees ==
    ASSUME DiskInv, TreeInv, NEW T, NEW X, StructInv(T, X), NEW q \in Seq(Names), Trusted(q),
           LookIn(fat[1], data, q).k # "error"
    PROVE  Sees(fat[1], data, T, X, q) \/ (Clearing /\ q = op.path)
  <1>1. PICK f, d, B : f = fat[1] /\ d = data /\ B = Suspects
    OBVIOUS
  <1>2. /\ f \in Fats /\ d \in DataAreas /\ FatOK(f) /\ B \subseteq Seq(Names)
        /\ Tree(f, d, T, X) /\ Owners(f, d, X) /\ Damage(f, d, T, X, B)
    BY <1>1, At1 DEF TreeInv, StructInv
  <1>3. SUFFICES ASSUME ~(Clearing /\ q = op.path) PROVE Clear(B, q)
    BY <1>1, <1>2, Leaves
  <1>4. ASSUME NEW b \in B PROVE b # q /\ ~Below(b, q)
    <2>1. CASE b \in bad
      BY <2>1 DEF Trusted
    <2>2. CASE b \notin bad
      <3>1. Clearing /\ b = op.path
        BY <1>1, <1>4, <2>2 DEF Suspects
      <3>2. Active
        BY <3>1 DEF Clearing, Active
      <3> QED BY <1>3, <3>1, <3>2, BelowTarget
    <2> QED BY <2>1, <2>2
  <1> QED BY <1>4 DEF Clear

\* It has a slot of its own.
LEMMA SeenSlot ==
    ASSUME NEW f \in Fats, FatOK(f), NEW d \in DataAreas, NEW T, NEW X, Tree(f, d, T, X),
           NEW q \in Seq(Names), q # <<>>, NEW u, u = LookIn(f, d, q), u.k # "error",
           Sees(f, d, T, X, q)
    PROVE  /\ Parent(q) \in DOMAIN T
           /\ \E x \in Holds(f, d, T[Parent(q)]) \ X :
                 At(d, x).name = Last(q) /\ At(d, x).cluster = u.cluster
           /\ u.dir => q \in DOMAIN T /\ u.cluster = T[q]
  <1>1. CASE q \in DOMAIN T /\ u.dir /\ u.cluster = T[q]
    <2>1. \A p \in DOMAIN T : p # <<>> =>
             /\ Parent(p) \in DOMAIN T
             /\ \E x \in Holds(f, d, T[Parent(p)]) \ X :
                   At(d, x).dir /\ At(d, x).name = Last(p) /\ At(d, x).cluster = T[p]
      BY DEF Tree
    <2>2. Parent(q) \in DOMAIN T
      BY <1>1, <2>1
    <2>3. \E x \in Holds(f, d, T[Parent(q)]) \ X :
             At(d, x).dir /\ At(d, x).name = Last(q) /\ At(d, x).cluster = T[q]
      BY <1>1, <2>1
    <2> QED BY <1>1, <2>2, <2>3
  <1>2. CASE ~u.dir
    <2>1. Parent(q) \in DOMAIN T /\ \E x \in Holds(f, d, T[Parent(q)]) \ X : u = At(d, x) /\ u.name = Last(q)
      BY <1>2 DEF Sees
    <2> QED BY <1>2, <2>1
  <1> QED BY <1>1, <1>2 DEF Sees

\* The chain of every undamaged directory holds directory slots only, and
\* nothing behind the end marker, at every point of every operation.
THEOREM DirectoriesStayWellFormed ==
    ASSUME NamesFit
    PROVE  Spec => []DirectoriesWellFormed
  <1>1. DiskInv /\ TreeInv => DirectoriesWellFormed
    <2> SUFFICES ASSUME DiskInv, TreeInv PROVE DirectoriesWellFormed
      OBVIOUS
    <2>1. PICK T, X : StructInv(T, X)
      BY DEF TreeInv
    <2>2. PICK f, d : f = fat[1] /\ d = data
      OBVIOUS
    <2>3. /\ f \in Fats /\ d \in DataAreas /\ FatOK(f) /\ Acyclic(f) /\ Tree(f, d, T, X)
      BY <2>1, <2>2, At1 DEF TreeInv, FatOK, StructInv
    <2>4. ASSUME NEW h \in {Root} \cup {e[2].cluster : e \in {x \in TrustedEntries : x[2].dir}}
          PROVE  h \in DataClusters /\ Tidy(UnitsIn(f, d, h))
      <3>1. \A p \in DOMAIN T : T[p] \in DataClusters /\ Tidy(UnitsIn(f, d, T[p]))
        BY <2>3 DEF Tree, DirOK
      <3>2. CASE h = Root
        <4>1. <<>> \in DOMAIN T /\ T[<<>>] = Root
          BY <2>3 DEF Tree
        <4> QED BY <3>1, <3>2, <4>1
      <3>3. CASE h # Root
        <4>1. PICK p \in Paths : /\ p # <<>> /\ Trusted(p) /\ Lookup(p).k = "entry"
                                 /\ Lookup(p).dir /\ h = Lookup(p).cluster
          BY <2>4, <3>3 DEF TrustedEntries
        <4>2. PICK u : u = LookIn(f, d, p)
          OBVIOUS
        <4>3. p \in Seq(Names) /\ Len(p) \in Nat
          BY PathFacts
        <4>4. Lookup(p) = u
          BY <2>2, <2>3, <4>2, <4>3, LookNow
        <4>5. u.k # "error" /\ u.dir /\ h = u.cluster
          BY <4>1, <4>4
        <4>6. CASE Sees(f, d, T, X, p)
          <5>1. p \in DOMAIN T /\ u.cluster = T[p]
            BY <2>3, <4>1, <4>2, <4>3, <4>5, <4>6, SeenSlot
          <5> QED BY <3>1, <4>5, <5>1
        <4>7. CASE Clearing /\ p = op.path
          <5>1. Active
            BY <4>7 DEF Clearing, Active
          <5>2. Target(f, d, X, u)
            BY <2>1, <2>2, <2>3, <4>2, <4>7, <5>1, TargetIs
          <5>3. p \notin bad
            BY <4>1 DEF Trusted
          <5>4. Tidy(UnitsIn(f, d, op.free)) /\ u.cluster = op.free
            BY <4>5, <4>7, <5>2, <5>3 DEF Target
          <5>5. u.cluster \in DataClusters
            BY <2>3, <4>2, <4>3, <4>5, LookType
          <5> QED BY <4>5, <5>4, <5>5
        <4> QED BY <2>1, <2>2, <4>1, <4>2, <4>3, <4>5, <4>6, <4>7, TrustedSees
      <3> QED BY <3>2, <3>3
    <2>5. ASSUME NEW h \in {Root} \cup {e[2].cluster : e \in {x \in TrustedEntries : x[2].dir}},
                 NEW j \in DOMAIN ReadChain(h)
          PROVE  /\ ReadChain(h)[j].k # "byte"
                 /\ j >= FirstIndex(ReadChain(h), {End}) => ReadChain(h)[j] = End
      <3>1. PICK s : s = UnitsIn(f, d, h)
        OBVIOUS
      <3>2. ReadChain(h) = s
        BY <2>2, <3>1, UnitsNow
      <3>3. Tidy(s)
        BY <2>4, <3>1
      <3>4. Len(s) \in Nat /\ s \in [1..Len(s) -> Units]
        BY <2>3, <2>4, <3>1, SlotPlaces
      <3>5. j \in 1..Len(s)
        BY <3>2, <3>4
      <3>6. PICK k : k = FirstIndex(s, {End})
        OBVIOUS
      <3>7. k \in 1..(Len(s) + 1) /\ (k <= Len(s) => s[k] = End)
        BY <3>4, <3>6, FirstFacts
      <3>8. j >= k => s[j] = End
        BY <3>3, <3>4, <3>5, <3>7 DEF Tidy
      <3> QED BY <3>2, <3>3, <3>5, <3>6, <3>8 DEF Tidy
    <2> QED BY <2>5 DEF DirectoriesWellFormed, IsDirectory, EmptyFrom
  <1> QED BY <1>1, DiskInvariant, TreeInvariant, PTL

\* No two undamaged files or directories share a cluster, and none has a
\* cluster of the root, at every point of every operation and after any faults.
THEOREM FilesNeverShareClusters ==
    ASSUME NamesFit
    PROVE  Spec => []NoCrossLinks
  <1>1. DiskInv /\ TreeInv => NoCrossLinks
    <2> SUFFICES ASSUME DiskInv, TreeInv PROVE NoCrossLinks
      OBVIOUS
    <2>1. PICK T, X : StructInv(T, X)
      BY DEF TreeInv
    <2>2. PICK f, d : f = fat[1] /\ d = data
      OBVIOUS
    <2>3. /\ f \in Fats /\ d \in DataAreas /\ FatOK(f) /\ Acyclic(f) /\ Tree(f, d, T, X)
          /\ Owners(f, d, X) /\ op.free \in {0} \cup DataClusters
      BY <2>1, <2>2, At1 DEF TreeInv, FatOK, StructInv
    <2> DEFINE Own(p, c) == /\ Parent(p) \in DOMAIN T
                            /\ \E x \in Holds(f, d, T[Parent(p)]) \ X :
                                  At(d, x).name = Last(p) /\ At(d, x).cluster = c
               Going(p, c) == Clearing /\ p = op.path /\ c = op.free /\ (c # 0 => Loose(f, d, X, c))
               At1st(p, c) == p \in Seq(Names) /\ p # <<>> /\ c = Lookup(p).cluster
    <2>4. ASSUME NEW t \in TrustedEntries
          PROVE  \E p, c : /\ t = <<p, Lookup(p)>> /\ At1st(p, c) /\ (Own(p, c) \/ Going(p, c))
      <3>1. PICK p \in Paths : p # <<>> /\ Trusted(p) /\ Lookup(p).k = "entry" /\ t = <<p, Lookup(p)>>
        BY DEF TrustedEntries
      <3>2. PICK u : u = LookIn(f, d, p)
        OBVIOUS
      <3>3. p \in Seq(Names) /\ Len(p) \in Nat
        BY PathFacts
      <3>4. Lookup(p) = u
        BY <2>2, <2>3, <3>2, <3>3, LookNow
      <3>5. u.k # "error"
        BY <3>1, <3>4
      <3>6. CASE Sees(f, d, T, X, p)
        <4>1. Own(p, u.cluster)
          BY <2>3, <3>1, <3>2, <3>3, <3>5, <3>6, SeenSlot
        <4> QED BY <3>1, <3>3, <3>4, <4>1
      <3>7. CASE Clearing /\ p = op.path
        <4>1. Active
          BY <3>7 DEF Clearing, Active
        <4>2. Target(f, d, X, u)
          BY <2>1, <2>2, <2>3, <3>2, <3>7, <4>1, TargetIs
        <4>3. u.cluster = op.free /\ (op.free # 0 => Loose(f, d, X, op.free))
          BY <3>7, <4>2 DEF Target
        <4> QED BY <3>1, <3>3, <3>4, <3>7, <4>3
      <3> QED BY <2>1, <2>2, <3>1, <3>2, <3>3, <3>5, <3>6, <3>7, TrustedSees
    <2>5. /\ \A g, h \in Heads(d, X) : g # 0 /\ h # 0 /\ g # h => In(f, g) \cap In(f, h) = {}
          /\ \A p, q \in DOMAIN T : \A x : x \in Holds(f, d, T[p]) /\ x \in Holds(f, d, T[q]) => p = q
      BY <2>3, Structure
    <2>6. ASSUME NEW c \in DataClusters, Loose(f, d, X, c), NEW h \in Heads(d, X)
          PROVE  In(f, c) \cap In(f, h) = {}
      <3>1. h = 0 => In(f, h) = {}
        BY NoChain
      <3> QED BY <2>3, <2>6, <3>1, LooseApart
    <2>7. ASSUME NEW p, NEW c, Own(p, c), c # 0 PROVE c \in Heads(d, X) /\ c # Root
      BY <2>3, <2>7 DEF Holds, Heads, Owners
    <2>8. ASSUME NEW p, NEW c, NEW q, NEW b, At1st(p, c), At1st(q, b), Own(p, c), Own(q, b), c = b, c # 0
          PROVE  p = q
      <3>1. PICK x : x \in Holds(f, d, T[Parent(p)]) \ X /\ At(d, x).name = Last(p) /\ At(d, x).cluster = c
        BY <2>8
      <3>2. PICK y : y \in Holds(f, d, T[Parent(q)]) \ X /\ At(d, y).name = Last(q) /\ At(d, y).cluster = b
        BY <2>8
      <3>3. x \in EntrySlots(d) \ X /\ y \in EntrySlots(d) \ X
        BY <3>1, <3>2 DEF Holds
      <3>4. x = y
        BY <2>3, <2>8, <3>1, <3>2, <3>3 DEF Owners
      <3>5. Parent(p) = Parent(q) /\ Last(p) = Last(q)
        BY <2>5, <2>8, <3>1, <3>2, <3>4
      <3>6. p = Append(Parent(p), Last(p)) /\ q = Append(Parent(q), Last(q))
        BY <2>8, PathSplit
      <3> QED BY <3>5, <3>6
    <2>9. Root \in Heads(d, X) /\ Root # 0
      BY Numbers DEF Heads
    <2>10. ASSUME NEW p, NEW c, At1st(p, c), Own(p, c) \/ Going(p, c)
           PROVE  In(f, c) \cap In(f, Root) = {}
      <3>1. CASE c = 0
        BY <3>1, NoChain
      <3>2. CASE c # 0 /\ Own(p, c)
        BY <2>5, <2>7, <2>9, <3>2
      <3>3. CASE c # 0 /\ Going(p, c)
        BY <2>3, <2>6, <2>9, <3>3
      <3> QED BY <2>10, <3>1, <3>2, <3>3
    <2>11. ASSUME NEW p, NEW c, NEW q, NEW b, At1st(p, c), At1st(q, b), p # q,
                  Own(p, c) \/ Going(p, c), Own(q, b) \/ Going(q, b)
           PROVE  In(f, c) \cap In(f, b) = {}
      <3>1. CASE c = 0 \/ b = 0
        BY <3>1, NoChain
      <3>2. CASE c # 0 /\ b # 0 /\ Own(p, c) /\ Own(q, b)
        <4>1. c # b
          BY <2>8, <2>11, <3>2
        <4> QED BY <2>5, <2>7, <3>2, <4>1
      <3>3. CASE c # 0 /\ b # 0 /\ Going(p, c) /\ Own(q, b)
        BY <2>3, <2>6, <2>7, <3>3
      <3>4. CASE c # 0 /\ b # 0 /\ Own(p, c) /\ Going(q, b)
        BY <2>3, <2>6, <2>7, <3>4
      <3> QED BY <2>11, <3>1, <3>2, <3>3, <3>4
    <2>12. \A h : RangeOf(Chain(h)) = In(f, h)
      BY <2>2, ChainNow DEF In
    <2> HIDE DEF Own, Going
    <2>13. ASSUME NEW t \in TrustedEntries
           PROVE  RangeOf(Chain(t[2].cluster)) \cap RangeOf(Chain(Root)) = {}
      <3>1. PICK p, c : t = <<p, Lookup(p)>> /\ At1st(p, c) /\ (Own(p, c) \/ Going(p, c))
        BY <2>4
      <3> QED BY <2>10, <2>12, <3>1
    <2>14. ASSUME NEW t \in TrustedEntries, NEW r \in TrustedEntries, t # r
           PROVE  RangeOf(Chain(t[2].cluster)) \cap RangeOf(Chain(r[2].cluster)) = {}
      <3>1. PICK p, c : t = <<p, Lookup(p)>> /\ At1st(p, c) /\ (Own(p, c) \/ Going(p, c))
        BY <2>4
      <3>2. PICK q, b : r = <<q, Lookup(q)>> /\ At1st(q, b) /\ (Own(q, b) \/ Going(q, b))
        BY <2>4
      <3>3. p # q
        BY <2>14, <3>1, <3>2
      <3>4. t[2].cluster = c /\ r[2].cluster = b
        BY <3>1, <3>2
      <3>5. In(f, c) \cap In(f, b) = {}
        BY <2>11, <3>1, <3>2, <3>3
      <3> QED BY <2>12, <3>4, <3>5
    <2> QED BY <2>13, <2>14 DEF NoCrossLinks, Disjoint
  <1> QED BY <1>1, DiskInvariant, TreeInvariant, PTL

-----------------------------------------------------------------------------
(* What the paths read as.                                                 *)

\* NodeAt, of a given FAT and data area.
NodeIn(f, d, p) ==
    LET e == LookIn(f, d, p)
    IN  IF e.k = "error" THEN [k |-> "absent"]
        ELSE IF e.dir THEN [k |-> "dir"]
        ELSE [k |-> "file", d |-> BytesIn(f, d, e)]

\* NodeAt is NodeIn.
LEMMA NodeNow ==
    ASSUME fat[1] \in Fats, data \in DataAreas, NEW p \in Seq(Names)
    PROVE  NodeAt(p) = NodeIn(fat[1], data, p)
  <1>1. Lookup(p) = LookIn(fat[1], data, p)
    BY LookNow
  <1>2. \A e : FileBytes(e) = BytesIn(fat[1], data, e)
    BY BytesNow
  <1> QED BY <1>1, <1>2 DEF NodeAt, NodeIn, NodeOf

\* A write that leaves a path's directory alone leaves its entry alone.
LEMMA StayLooks ==
    ASSUME NEW f \in Fats, FatOK(f), NEW d \in DataAreas, NEW g, NEW e, NEW T, NEW X,
           NEW B, B \subseteq Seq(Names), NEW p0 \in Seq(Names), Stay(f, d, g, e, T, X, B, p0)
    PROVE  \A q \in Seq(Names) : Clear(B, q) /\ q # p0 /\ ~Below(p0, q) =>
              LookIn(g, e, q) = LookIn(f, d, q)
  <1>1. /\ Tree(f, d, T, X) /\ Owners(f, d, X) /\ Damage(f, d, T, X, B) /\ Acyclic(f)
        /\ FatOK(g) /\ Acyclic(g) /\ g \in Fats /\ e \in DataAreas /\ Keeps(f, d, g, e, T, X, p0)
    BY DEF Stay, FatOK
  <1> DEFINE S == {q \in Seq(Names) : Clear(B, q) /\ q # p0 /\ ~Below(p0, q) =>
                                         LookIn(g, e, q) = LookIn(f, d, q)}
  <1>2. <<>> \in S
    BY <1>1, LookChild
  <1>3. ASSUME NEW q \in Seq(Names), q # <<>>, Parent(q) \in S PROVE q \in S
    <2> SUFFICES ASSUME Clear(B, q), q # p0, ~Below(p0, q)
                 PROVE  LookIn(g, e, q) = LookIn(f, d, q)
      OBVIOUS
    <2>1. PICK r, n, u : r = Parent(q) /\ n = Last(q) /\ u = LookIn(f, d, Parent(q))
      OBVIOUS
    <2>2. Clear(B, r) /\ r # p0 /\ ~Below(p0, r) /\ r \in Seq(Names) /\ Append(r, n) = q
      BY <1>3, <2>1, ClearParent, BelowParent, PathFacts, PathSplit
    <2>3. u = LookIn(f, d, r) /\ LookIn(g, e, r) = u
      BY <1>3, <2>1, <2>2
    <2>4. LookIn(f, d, q) = EnterIn(f, d, u, n) /\ LookIn(g, e, q) = EnterIn(g, e, u, n)
      BY <1>1, <1>3, <2>1, <2>3, LookChild
    <2>5. CASE u.k = "error" \/ ~u.dir
      BY <2>4, <2>5 DEF EnterIn
    <2>6. CASE u.k # "error" /\ u.dir
      <3>1. Sees(f, d, T, X, r)
        BY <1>1, <2>2, Leaves
      <3>2. r \in DOMAIN T /\ u.cluster = T[r]
        BY <2>3, <2>6, <3>1 DEF Sees
      <3>3. PICK h : h = T[r]
        OBVIOUS
      <3>4. LookIn(f, d, q) = FindIn(f, d, h, n) /\ LookIn(g, e, q) = FindIn(g, e, h, n)
        BY <2>4, <2>6, <3>2, <3>3 DEF EnterIn
      <3>5. h \in DataClusters /\ DirOK(f, d, h)
        BY <1>1, <3>2, <3>3 DEF Tree
      <3>6. /\ DirOK(g, e, h)
            /\ \A x \in Holds(f, d, h) : At(d, x).name = n => x \in Holds(g, e, h) /\ At(e, x) = At(d, x)
            /\ \A x \in Holds(g, e, h) : At(e, x).name = n => x \in Holds(f, d, h) /\ At(e, x) = At(d, x)
        BY <1>1, <2>2, <3>2, <3>3 DEF Keeps
      <3>7. /\ \A x \in Holds(f, d, h) : At(d, x).name = n => FindIn(f, d, h, n) = At(d, x)
            /\ FindIn(f, d, h, n) # Error("NotFound") =>
                  \E x \in Holds(f, d, h) : At(d, x).name = n /\ FindIn(f, d, h, n) = At(d, x)
        BY <1>1, <3>5, FindBy
      <3>8. /\ \A x \in Holds(g, e, h) : At(e, x).name = n => FindIn(g, e, h, n) = At(e, x)
            /\ FindIn(g, e, h, n) # Error("NotFound") =>
                  \E x \in Holds(g, e, h) : At(e, x).name = n /\ FindIn(g, e, h, n) = At(e, x)
        BY <1>1, <3>5, <3>6, FindBy
      <3>9. CASE FindIn(f, d, h, n) # Error("NotFound")
        <4>1. PICK x \in Holds(f, d, h) : At(d, x).name = n /\ FindIn(f, d, h, n) = At(d, x)
          BY <3>7, <3>9
        <4>2. x \in Holds(g, e, h) /\ At(e, x) = At(d, x)
          BY <3>6, <4>1
        <4> QED BY <3>4, <3>8, <4>1, <4>2
      <3>10. CASE FindIn(f, d, h, n) = Error("NotFound") /\ FindIn(g, e, h, n) # Error("NotFound")
        <4>1. PICK x \in Holds(g, e, h) : At(e, x).name = n /\ FindIn(g, e, h, n) = At(e, x)
          BY <3>8, <3>10
        <4>2. x \in Holds(f, d, h) /\ At(d, x).name = n
          BY <3>6, <4>1
        <4>3. FindIn(f, d, h, n) = At(d, x)
          BY <3>7, <4>2
        <4>4. FindIn(g, e, h, n) = FindIn(f, d, h, n)
          BY <3>6, <4>1, <4>3
        <4> QED BY <3>10, <4>4
      <3>11. CASE FindIn(f, d, h, n) = Error("NotFound") /\ FindIn(g, e, h, n) = Error("NotFound")
        BY <3>4, <3>11
      <3> QED BY <3>9, <3>10, <3>11
    <2> QED BY <2>5, <2>6
  <1>4. \A q \in Seq(Names) : q \in S
    <2> HIDE DEF S
    <2> QED BY <1>2, <1>3, PathInduction
  <1> QED BY <1>4

\* And so it does the contents of a file.
LEMMA StayNodes ==
    ASSUME NEW f \in Fats, FatOK(f), NEW d \in DataAreas, NEW g, NEW e, NEW T, NEW X,
           NEW B, B \subseteq Seq(Names), NEW p0 \in Seq(Names), Stay(f, d, g, e, T, X, B, p0),
           NEW q \in Seq(Names), Clear(B, q), q # p0, ~Below(p0, q)
    PROVE  NodeIn(g, e, q) = NodeIn(f, d, q)
  <1>1. /\ Tree(f, d, T, X) /\ Owners(f, d, X) /\ Damage(f, d, T, X, B) /\ Acyclic(f)
        /\ FatOK(g) /\ Acyclic(g) /\ g \in Fats /\ e \in DataAreas /\ FilesKept(f, d, g, e, X)
    BY DEF Stay, FatOK, Keeps
  <1>2. PICK u : u = LookIn(f, d, q)
    OBVIOUS
  <1>3. LookIn(g, e, q) = u
    BY <1>2, StayLooks
  <1>4. CASE u.k = "error" \/ u.dir
    BY <1>2, <1>3, <1>4 DEF NodeIn
  <1>5. CASE u.k # "error" /\ ~u.dir
    <2>1. Sees(f, d, T, X, q)
      BY <1>1, Leaves
    <2>2. PICK x : x \in EntrySlots(d) \ X /\ u = At(d, x)
      BY <1>2, <1>5, <2>1 DEF Sees, Holds
    <2>3. BytesIn(g, e, u) = BytesIn(f, d, u)
      <3>1. CASE u.size = 0 \/ ~IsCluster(u.cluster)
        BY <3>1 DEF BytesIn
      <3>2. CASE ~(u.size = 0 \/ ~IsCluster(u.cluster))
        <4>1. PICK h : h = u.cluster
          OBVIOUS
        <4>2. h \in DataClusters /\ h # 0
          BY <2>2, <3>2, <4>1, EntryAt, Numbers DEF IsCluster
        <4>3. \A b \in In(f, h) : g[b] = f[b] /\ e[b] = d[b]
          BY <1>1, <1>5, <2>2, <4>1, <4>2 DEF FilesKept
        <4>4. ChainIn(g, h) = ChainIn(f, h)
          BY <1>1, <4>2, <4>3, ChainFrame
        <4>5. UnitsIn(g, e, h) = UnitsIn(f, d, h)
          BY <1>1, <4>2, <4>3, <4>4, UnitsFrame
        <4> QED BY <4>1, <4>5 DEF BytesIn
      <3> QED BY <3>1, <3>2
    <2> QED BY <1>2, <1>3, <1>5, <2>3 DEF NodeIn
  <1> QED BY <1>4, <1>5

\* The chain that an operation has filled reads as its payload.
LEMMA FilledReads ==
    ASSUME NEW f \in Fats, Acyclic(f), NEW d \in DataAreas, NEW h \in DataClusters, NEW o \in Ops,
           ~o.mkdir, o.need = ClustersFor(Len(o.payload)), o.need > 0,
           Len(ChainIn(f, h)) = o.need,
           \A i \in 1..o.need : d[ChainIn(f, h)[i]] = ChunkOf(o, i - 1),
           NEW u, u.cluster = h, u.size = Len(o.payload)
    PROVE  BytesIn(f, d, u) = o.payload
  <1> DEFINE s == UnitsIn(f, d, h)
             ch == ChainIn(f, h)
             n == Len(o.payload)
             U == ClusterUnits
  <1>1. U \in Nat /\ U >= 1 /\ o.payload \in Seq(Nat) /\ n \in Nat /\ o.need \in Nat
    BY Numbers DEF Ops
  <1>2. n > 0 /\ o.need * U >= n
    <2>1. ClustersFor(n) * ClusterUnits >= n /\ (ClustersFor(n) = 0 <=> n = 0)
      BY <1>1, ClustersForFacts
    <2>2. n # 0
      BY <1>1, <2>1
    <2>3. o.need * U >= n
      BY <2>1
    <2> HIDE DEF n
    <2> QED BY <1>1, <2>2, <2>3
  <1>3. /\ Len(s) = o.need * U
        /\ \A j \in 1..(o.need * U) : s[j] = d[ch[(j - 1) \div U + 1]][((j - 1) % U) + 1]
    BY <1>1 DEF UnitsIn
  <1>4. PICK m : m = o.need /\ m \in Nat
    BY <1>1
  <1>5. ASSUME NEW j \in 1..n PROVE s[j] = Byte(o.payload[j])
    <2>1. PICK i, v : i = (j - 1) \div U /\ v = ((j - 1) % U) + 1
      OBVIOUS
    <2>2. j \in 1..(m * U)
      BY <1>1, <1>2, <1>4
    <2>3. /\ (j - 1) \div U + 1 \in 1..m
          /\ ((j - 1) % U) + 1 \in 1..U
          /\ j = ((j - 1) \div U) * U + ((j - 1) % U) + 1
      BY <1>4, <2>2, Places
    <2>31. i + 1 \in 1..m /\ v \in 1..U /\ i \in Int
      BY <1>1, <2>1, <2>3
    <2>32. i \in Nat /\ i * U \in Nat
      BY <1>1, <1>4, <2>31
    <2>4. i * U + v = j
      BY <1>1, <2>1, <2>3, <2>31, <2>32
    <2>5. s[j] = d[ch[i + 1]][v]
      BY <1>3, <1>4, <2>1, <2>2
    <2>6. d[ch[i + 1]] = ChunkOf(o, i)
      <3>1. d[ch[i + 1]] = ChunkOf(o, (i + 1) - 1)
        BY <1>4, <2>31
      <3>2. (i + 1) - 1 = i
        BY <2>32
      <3> QED BY <3>1, <3>2
    <2>7. ChunkOf(o, i)[v] = Byte(o.payload[j])
      <3>1. ChunkOf(o, i)[v] = IF i * U + v <= n THEN Byte(o.payload[i * U + v]) ELSE End
        BY <2>31 DEF ChunkOf
      <3> QED BY <1>1, <2>4, <3>1
    <2> QED BY <2>5, <2>6, <2>7
  <1>6. IsCluster(h) /\ u.size # 0 /\ n <= Len(s)
    BY <1>1, <1>2, <1>3, Numbers DEF IsCluster
  <1> HIDE DEF s
  <1>7. BytesIn(f, d, u) = [j \in 1..n |-> IF s[j].k = "byte" THEN s[j].b ELSE 0]
    BY <1>6 DEF BytesIn, s
  <1>8. \A j \in 1..n : (IF s[j].k = "byte" THEN s[j].b ELSE 0) = o.payload[j]
    <2> SUFFICES ASSUME NEW j \in 1..n
                 PROVE  (IF s[j].k = "byte" THEN s[j].b ELSE 0) = o.payload[j]
      OBVIOUS
    <2>1. PICK y, x : y = s[j] /\ x = o.payload[j]
      OBVIOUS
    <2>2. y = Byte(x)
      BY <1>5, <2>1
    <2>3. y.k = "byte" /\ y.b = x
      BY <2>2 DEF Byte
    <2> QED BY <2>1, <2>3
  <1>9. BytesIn(f, d, u) = [j \in 1..n |-> o.payload[j]]
    BY <1>7, <1>8
  <1>10. o.payload = [j \in 1..n |-> o.payload[j]]
    <2>1. PICK w : w = o.payload
      OBVIOUS
    <2>2. w \in Seq(Nat) /\ w = [j \in 1..Len(w) |-> w[j]]
      BY <1>1, <2>1
    <2> QED BY <2>1, <2>2
  <1> QED BY <1>9, <1>10

\* NewNode, of a given operation.
MadeBy(o) ==
    IF ~o.add THEN [k |-> "absent"]
    ELSE IF o.mkdir THEN [k |-> "dir"] ELSE [k |-> "file", d |-> o.payload]

\* Once the old entry has gone the target is absent, until the operation is
\* done: then it is what the operation was asked to make it.
LEMMA TargetNode ==
    DiskInv /\ TreeInv /\ Active /\ ~Clearing =>
        NodeIn(fat[1], data, op.path) = IF pc = "done" THEN MadeBy(op) ELSE [k |-> "absent"]
  <1> SUFFICES ASSUME DiskInv, TreeInv, Active, ~Clearing
               PROVE  NodeIn(fat[1], data, op.path)
                        = IF pc = "done" THEN MadeBy(op) ELSE [k |-> "absent"]
    OBVIOUS
  <1>1. PICK T, X : StructInv(T, X)
    BY DEF TreeInv
  <1>2. PICK f, d, u : f = fat[1] /\ d = data /\ u = LookIn(fat[1], data, op.path)
    OBVIOUS
  <1>3. f \in Fats /\ d \in DataAreas /\ Acyclic(f) /\ FatOK(f) /\ op \in Ops /\ Sound(op)
    BY <1>2, At1 DEF TreeInv, FatOK, Active, DiskInv, OpInv
  <1>4. Target(f, d, X, u)
    BY <1>1, <1>2, <1>3, TargetIs
  <1>5. CASE pc # "done" \/ ~op.add
    <2>1. u.k = "error"
      BY <1>4, <1>5, EntryUnits DEF Target
    <2> QED BY <1>2, <1>5, <2>1 DEF NodeIn, MadeBy
  <1>6. CASE pc = "done" /\ op.add
    <2>1. u = Entry(Last(op.path), op.mkdir, head, Len(op.payload))
      BY <1>4, <1>6 DEF Target
    <2>2. u.k # "error" /\ u.dir = op.mkdir /\ u.cluster = head /\ u.size = Len(op.payload)
      BY <2>1 DEF Entry
    <2>3. CASE op.mkdir
      BY <1>2, <1>6, <2>2, <2>3 DEF NodeIn, MadeBy
    <2>4. CASE ~op.mkdir
      <3>1. op.need = ClustersFor(Len(op.payload)) /\ op.payload \in Seq(Nat) /\ op.need \in Nat
        BY <1>3, <2>4 DEF Sound, Ops
      <3>2. BytesIn(f, d, u) = op.payload
        <4>1. CASE op.need = 0
          <5>1. head = 0
            BY <1>6, <4>1 DEF DiskInv, PhaseInv
          <5>2. BytesIn(f, d, u) = <<>>
            BY <2>2, <5>1, Numbers DEF BytesIn, IsCluster
          <5>3. Len(op.payload) = 0
            <6>1. Len(op.payload) \in Nat /\ ClustersFor(Len(op.payload)) = 0
              BY <3>1, <4>1
            <6> QED BY <6>1, ClustersForFacts
          <5> QED BY <3>1, <5>2, <5>3
        <4>2. CASE op.need > 0
          <5>1. head \in DataClusters
            BY <1>6, <4>2 DEF DiskInv, PhaseInv
          <5>2. Filled(op.need)
            BY <1>1, <1>6, <4>2 DEF StructInv, MakeInv
          <5>3. /\ Len(ChainIn(f, head)) = op.need
                /\ \A i \in 1..op.need : d[ChainIn(f, head)[i]] = ChunkOf(op, i - 1)
            BY <1>2, <5>2 DEF Filled
          <5> QED BY <1>3, <2>2, <2>4, <3>1, <4>2, <5>1, <5>3, FilledReads
        <4> QED BY <3>1, <4>1, <4>2
      <3> QED BY <1>2, <1>6, <2>2, <2>4, <3>2 DEF NodeIn, MadeBy
    <2> QED BY <2>3, <2>4
  <1> QED BY <1>5, <1>6

-----------------------------------------------------------------------------
(* What the paths have read as since the last operation returned.          *)

\* What an operation knows of its target, which read as v when it began.
Recalled(o, v) ==
    /\ o.del <=> v # [k |-> "absent"]
    /\ o.add /\ o.del => v.k = "file"
    /\ o.add /\ ~o.mkdir =>
          \/ o.payload = <<>> \/ o.payload \in Payloads
          \/ o.del /\ \E x \in Payloads : o.payload = v.d \o x

HistInv ==
    /\ view = [p \in Paths |-> view[p]]
    /\ pc = "idle" => \A p \in Paths : view[p] = NodeIn(fat[1], data, p)
    /\ pc \notin {"idle", "beyond"} =>
          /\ \A p \in Paths : p # op.path /\ Clear(bad, p) =>
                NodeIn(fat[1], data, p) = view[p]
          /\ Recalled(op, view[op.path])
    /\ pc \in {"free", "freeinfo"} => op.free # 0
    /\ pc = "delete" /\ op.free = 0 => NodeIn(fat[1], data, op.path) = view[op.path]
    /\ pc = "failed" /\ op.free = 0 =>
          NodeIn(fat[1], data, op.path) \in {view[op.path], [k |-> "absent"], MadeBy(op)}

\* A step in the middle of an operation: nothing but its target is touched.
Works ==
    /\ Active /\ Active' /\ UNCHANGED <<op, bad, view>>
    /\ Stays \/ UNCHANGED <<fat, data>>
    /\ Clearing' => pc \in {"free", "freeinfo"}

\* The steps in the middle of an operation.
LEMMA WorkSteps ==
    ASSUME NamesFit, DiskInv, TreeInv,
           \/ FreeWrite \/ Deletes \/ MarkEoc \/ ZeroCluster \/ LinkWrite
           \/ WriteCluster \/ AddDirEntry \/ GrowDir
           \/ \E ok \in BOOLEAN : FreeInfo(ok) \/ AllocInfo(ok)
    PROVE  Works
  <1>0. AfterDelete(op) \notin {"idle", "failed", "beyond", "free", "freeinfo", "delete"}
        /\ AfterFree(op) \notin {"idle", "failed", "beyond", "free", "freeinfo"}
    BY DEF AfterDelete, AfterFree
  <1>1. CASE FreeWrite
    <2>1. UNCHANGED <<op, bad, view>> /\ Active /\ Active' /\ pc = "free"
      BY <1>1 DEF FreeWrite, histVars, Active
    <2> QED BY <1>1, <2>1, FreeTree DEF Works
  <1>2. CASE Deletes
    <2>1. UNCHANGED <<op, bad, view>> /\ Active /\ Active' /\ ~Clearing'
      BY <1>0, <1>2 DEF Deletes, histVars, Active, Clearing
    <2> QED BY <1>2, <2>1, DeleteTree DEF Works
  <1>3. CASE MarkEoc
    <2>1. UNCHANGED <<op, bad, view>> /\ Active /\ Active' /\ ~Clearing'
      BY <1>3 DEF MarkEoc, Active, Clearing
    <2> QED BY <1>3, <2>1, MarkTree DEF Works
  <1>4. CASE ZeroCluster
    <2>1. UNCHANGED <<op, bad, view>> /\ Active /\ Active' /\ ~Clearing'
      BY <1>4 DEF ZeroCluster, Linked, histVars, Active, Clearing
    <2> QED BY <1>4, <2>1, ZeroTree DEF Works
  <1>5. CASE LinkWrite
    <2>1. UNCHANGED <<op, bad, view>> /\ Active /\ Active' /\ ~Clearing'
      BY <1>5 DEF LinkWrite, Linked, histVars, Active, Clearing
    <2> QED BY <1>5, <2>1, LinkTree DEF Works
  <1>6. CASE WriteCluster
    <2>1. UNCHANGED <<op, bad, view>> /\ Active /\ Active' /\ ~Clearing'
      BY <1>6 DEF WriteCluster, histVars, Active, Clearing
    <2> QED BY <1>6, <2>1, WriteTree DEF Works
  <1>7. CASE AddDirEntry
    <2>1. UNCHANGED <<op, bad, view>> /\ Active /\ Active' /\ ~Clearing'
      BY <1>7 DEF AddDirEntry, histVars, Active, Clearing
    <2> QED BY <1>7, <2>1, AddTree DEF Works
  <1>8. CASE GrowDir
    BY <1>8 DEF GrowDir, diskVars, histVars, Active, Clearing, Works
  <1>9. CASE \E ok \in BOOLEAN : FreeInfo(ok) \/ AllocInfo(ok)
    BY <1>0, <1>9 DEF FreeInfo, AllocInfo, histVars, Active, Clearing, Works
  <1> QED BY <1>1, <1>2, <1>3, <1>4, <1>5, <1>6, <1>7, <1>8, <1>9

\* There is nothing below the target of an operation.
TargetBare == \A q \in Seq(Names) : Below(op.path, q) => LookIn(fat[1], data, q).k = "error"

\* BelowTarget, as a state predicate.
LEMMA NoneBelow == DiskInv /\ TreeInv /\ Active => TargetBare
  BY BelowTarget DEF TargetBare

\* Such a step leaves every undamaged path as it was, but for the target.
LEMMA NodesStay ==
    ASSUME DiskInv, TreeInv, DiskInv', TreeInv', Works,
           NEW q \in Seq(Names), q # op.path, Clear(bad, q)
    PROVE  NodeIn(fat[1], data, q)' = NodeIn(fat[1], data, q)
  <1>1. Active /\ Active' /\ op' = op /\ bad' = bad /\ view' = view
    BY DEF Works
  <1>2. PICK f, d, g, e : f = fat[1] /\ d = data /\ g = fat'[1] /\ e = data'
    OBVIOUS
  <1>3. f \in Fats /\ d \in DataAreas /\ FatOK(f) /\ Suspects \subseteq Seq(Names)
        /\ op.path \in Seq(Names)
    BY <1>2, At1 DEF TreeInv
  <1>4. SUFFICES NodeIn(g, e, q) = NodeIn(f, d, q)
    BY <1>2
  <1>5. CASE UNCHANGED <<fat, data>>
    BY <1>2, <1>5
  <1>6. CASE Below(op.path, q)
    <2>1. LookIn(f, d, q).k = "error"
      BY <1>1, <1>2, <1>6, NoneBelow DEF TargetBare
    <2>2. (DiskInv /\ TreeInv /\ Active => TargetBare)'
      BY NoneBelow, PTL
    <2>3. LookIn(g, e, q).k = "error"
      BY <1>1, <1>2, <1>6, <2>2 DEF TargetBare
    <2> QED BY <2>1, <2>3 DEF NodeIn
  <1>7. CASE Stays /\ ~Below(op.path, q)
    <2>1. PICK B, p0 : B = Suspects /\ p0 = op.path
      OBVIOUS
    <2>2. PICK T, X : Stay(f, d, g, e, T, X, B, p0)
      BY <1>2, <1>7, <2>1 DEF Stays
    <2>3. Clear(B, q)
      <3>1. \A b \in B : b \in bad \/ b = op.path
        BY <2>1 DEF Suspects
      <3> QED BY <1>7, <3>1 DEF Clear
    <2> QED BY <1>3, <1>7, <2>1, <2>2, <2>3, StayNodes
  <1> QED BY <1>5, <1>6, <1>7 DEF Works

\* What an operation finds at its target is what the target read as.
LEMMA Remembers ==
    ASSUME NEW f \in Fats, NEW d \in DataAreas, NEW o \in Ops, Sound(o), Chosen(f, d, o)
    PROVE  Recalled(o, NodeIn(f, d, o.path))
  <1>1. PICK par, old : par = LookIn(f, d, Parent(o.path))
                        /\ old = FindIn(f, d, o.parent, Last(o.path))
    OBVIOUS
  <1>2. o.path \in Seq(Names) /\ o.path # <<>>
    BY PathFacts DEF Ops, Sound
  <1>3. /\ par.k # "error" /\ par.dir /\ par.cluster = o.parent
        /\ o.del <=> old.k # "error"
        /\ o.del /\ old.dir => ~o.add
        /\ o.add /\ ~o.mkdir =>
              \/ o.payload = <<>> \/ o.payload \in Payloads
              \/ /\ o.del
                 /\ \E x \in Payloads : o.payload = BytesIn(f, d, old) \o x
    BY <1>1 DEF Chosen
  <1>4. LookIn(f, d, o.path) = old
    BY <1>1, <1>2, <1>3, LookChild DEF EnterIn
  <1>5. PICK v : v = NodeIn(f, d, o.path)
    OBVIOUS
  <1>6. /\ old.k = "error" => v = [k |-> "absent"]
        /\ old.k # "error" /\ old.dir => v = [k |-> "dir"]
        /\ old.k # "error" /\ ~old.dir => v = [k |-> "file", d |-> BytesIn(f, d, old)]
    BY <1>4, <1>5 DEF NodeIn
  <1>7. o.del \in BOOLEAN /\ o.add \in BOOLEAN
    BY DEF Ops
  <1>8. /\ old.k = "error" => v = [k |-> "absent"]
        /\ old.k # "error" /\ old.dir => v.k = "dir"
        /\ old.k # "error" /\ ~old.dir => v.k = "file" /\ v.d = BytesIn(f, d, old)
    BY <1>6
  <1>9. /\ o.del <=> v # [k |-> "absent"]
        /\ o.add /\ o.del => v.k = "file" /\ v.d = BytesIn(f, d, old)
    BY <1>3, <1>7, <1>8
  <1> QED BY <1>3, <1>5, <1>7, <1>9 DEF Recalled

\* Every step keeps what is recalled of the paths.
LEMMA CallHist ==
    ASSUME DiskInv, HistInv, Call
    PROVE  HistInv'
  <1>1. fat[1] \in Fats /\ data \in DataAreas
    BY At1
  <1>2. CASE Reject
    BY <1>2 DEF Reject, diskVars, regVars, histVars, HistInv
  <1>3. CASE \E p \in Paths : Beyond(p)
    BY <1>3 DEF Beyond, diskVars, regVars, histVars, HistInv
  <1>4. CASE Begins
    <2>1. PICK o \in Ops : /\ pc = "idle" /\ Start(o) /\ Sound(o)
                           /\ Chosen(fat[1], data, o)
      BY <1>4 DEF Begins
    <2>2. UNCHANGED <<fat, data, view, bad>> /\ op' = o /\ pc' = FirstPhase(o)
      BY <2>1 DEF Start, diskVars, histVars
    <2>3. pc' \notin {"idle", "beyond", "failed", "freeinfo"} /\ (pc' = "free" => o.free # 0)
      BY <2>2, Numbers DEF FirstPhase, AfterFree, AfterDelete, IsCluster
    <2>4. o.path \in Paths
      BY DEF Ops
    <2>5. view = [p \in Paths |-> view[p]] /\ \A p \in Paths : view[p] = NodeIn(fat[1], data, p)
      BY <2>1 DEF HistInv
    <2>6. Recalled(o, view[o.path])
      BY <1>1, <2>1, <2>4, <2>5, Remembers
    <2> QED BY <2>2, <2>3, <2>4, <2>5, <2>6 DEF HistInv
  <1> QED BY <1>1, <1>2, <1>3, <1>4, CallFound

\* An operation that returns records what the paths read as.
LEMMA ReturnHist ==
    ASSUME DiskInv, NEW r, Returns(r)
    PROVE  HistInv'
  <1>1. /\ pc' = "idle" /\ UNCHANGED <<fat, data>> /\ view' = View
    BY DEF Returns, Return, diskVars
  <1>2. \A p \in Paths : NodeAt(p) = NodeIn(fat[1], data, p)
    BY At1, PathFacts, NodeNow
  <1>3. view' = [p \in Paths |-> NodeIn(fat[1], data, p)]
    BY <1>1, <1>2 DEF View
  <1> QED BY <1>1, <1>3 DEF HistInv

\* A fault changes nothing that can be read.
LEMMA FaultHist ==
    ASSUME DiskInv, TreeInv, HistInv, Fault
    PROVE  HistInv'
  <1>1. /\ pc \in {"free", "delete", "mark", "zero", "link", "data", "add", "done"}
        /\ pc' = "failed" /\ bad' = bad \cup {op.path} /\ UNCHANGED <<fat, data, op, view>>
    BY DEF Fault, diskVars
  <1>2. \A p : Clear(bad', p) => Clear(bad, p)
    BY <1>1 DEF Clear
  <1>3. ASSUME op.free = 0
        PROVE  NodeIn(fat[1], data, op.path) \in {view[op.path], [k |-> "absent"], MadeBy(op)}
    <2>1. CASE pc = "delete"
      BY <1>3, <2>1 DEF HistInv
    <2>2. CASE pc # "delete"
      <3>1. Active /\ ~Clearing
        BY <1>1, <1>3, <2>2 DEF HistInv, Active, Clearing
      <3> QED BY <3>1, TargetNode
    <2> QED BY <2>1, <2>2
  <1>4. view = [p \in Paths |-> view[p]] /\ Recalled(op, view[op.path])
        /\ \A p \in Paths : p # op.path /\ Clear(bad, p) => NodeIn(fat[1], data, p) = view[p]
    BY <1>1 DEF HistInv
  <1> QED BY <1>1, <1>2, <1>3, <1>4 DEF HistInv

\* A step in the middle of an operation changes nothing but the target.
LEMMA WorkHist ==
    ASSUME DiskInv, TreeInv, DiskInv', TreeInv', HistInv, Works
    PROVE  HistInv'
  <1>1. /\ Active /\ Active' /\ op' = op /\ bad' = bad /\ view' = view
        /\ Clearing' => pc \in {"free", "freeinfo"}
    BY DEF Works
  <1>2. \A p \in Paths : p # op.path /\ Clear(bad, p) =>
           NodeIn(fat[1], data, p)' = NodeIn(fat[1], data, p)
    BY NodesStay, PathFacts
  <1>3. pc \notin {"idle", "beyond", "failed"} /\ pc' \notin {"idle", "beyond", "failed"}
    BY <1>1 DEF Active
  <1>4. /\ view = [p \in Paths |-> view[p]] /\ Recalled(op, view[op.path])
        /\ pc \in {"free", "freeinfo"} => op.free # 0
    BY <1>3 DEF HistInv
  <1>5. \A p \in Paths : p # op.path /\ Clear(bad, p) => NodeIn(fat[1], data, p) = view[p]
    BY <1>3 DEF HistInv
  <1>6. pc' \in {"free", "freeinfo", "delete"} => op.free # 0
    BY <1>1, <1>4 DEF Clearing
  <1>7. \A p \in Paths : p # op.path /\ Clear(bad, p) => NodeIn(fat'[1], data', p) = view[p]
    BY <1>2, <1>5
  <1> QED BY <1>1, <1>3, <1>4, <1>6, <1>7 DEF HistInv

\* Every step keeps the record.
LEMMA NextHist ==
    NamesFit /\ DiskInv /\ TreeInv /\ DiskInv' /\ TreeInv' /\ HistInv /\ [Next]_vars => HistInv'
  <1>1. SUFFICES ASSUME NamesFit, DiskInv, TreeInv, DiskInv', TreeInv', HistInv, [Next]_vars
                 PROVE  HistInv'
    OBVIOUS
  <1>2. CASE Next
    <2>1. CASE \E ok \in BOOLEAN : (ok \/ faults < MaxFaults) /\ (FreeInfo(ok) \/ AllocInfo(ok))
      <3>1. \E ok \in BOOLEAN : FreeInfo(ok) \/ AllocInfo(ok)
        BY <2>1
      <3> QED BY <1>1, <3>1, WorkSteps, WorkHist
    <2>2. CASE \E r : Returns(r)
      BY <1>1, <2>2, ReturnHist
    <2>3. CASE \/ FreeWrite \/ Deletes \/ MarkEoc \/ ZeroCluster \/ LinkWrite
               \/ WriteCluster \/ AddDirEntry \/ GrowDir
      BY <1>1, <2>3, WorkSteps, WorkHist
    <2>4. ~NotFound
      BY <1>1, EntryIsFound
    <2> QED BY <1>1, <1>2, <2>1, <2>2, <2>3, <2>4, Steps, CallHist, FaultHist
  <1>3. CASE UNCHANGED vars
    BY <1>1, <1>3 DEF vars, diskVars, regVars, histVars, HistInv
  <1> QED BY <1>1, <1>2, <1>3

\* The record of an empty disk.
LEMMA InitHist == Init => HistInv
  <1> SUFFICES ASSUME Init PROVE HistInv
    OBVIOUS
  <1>1. DiskInv /\ pc = "idle" /\ view = View
    BY InitDisk DEF Init
  <1>2. \A p \in Paths : NodeAt(p) = NodeIn(fat[1], data, p)
    BY <1>1, At1, PathFacts, NodeNow
  <1>3. view = [p \in Paths |-> NodeIn(fat[1], data, p)]
    BY <1>1, <1>2 DEF View
  <1> QED BY <1>1, <1>3 DEF HistInv

\* What is recorded of the paths holds throughout.
LEMMA HistInvariant ==
    ASSUME NamesFit
    PROVE  Spec => []HistInv
  <1>1. DiskInv /\ TreeInv /\ DiskInv' /\ TreeInv' /\ HistInv /\ [Next]_vars => HistInv'
    BY NextHist
  <1> QED BY <1>1, InitHist, DiskInvariant, TreeInvariant, PTL DEF Spec

\* The block writes of an operation touch nothing but its target: at every
\* point of it, after a fault and while the kernel goes on, all the undamaged
\* paths read as when the last operation returned.
THEOREM OthersAreLeftAlone ==
    ASSUME NamesFit
    PROVE  Spec => []DamageConfined
  <1>1. DiskInv /\ HistInv => DamageConfined
    <2> SUFFICES ASSUME DiskInv, HistInv, pc # "beyond", NEW p \in Paths, p # op.path, Trusted(p)
                 PROVE  NodeAt(p) = view[p]
      BY DEF DamageConfined
    <2>1. NodeAt(p) = NodeIn(fat[1], data, p)
      BY At1, PathFacts, NodeNow
    <2>2. Clear(bad, p)
      BY DEF Trusted, Clear
    <2> QED BY <2>1, <2>2 DEF HistInv
  <1> QED BY <1>1, DiskInvariant, HistInvariant, PTL

\* The entry is published last: a target that has no old chain is never seen
\* half written, and what returns Ok has been done.
THEOREM NoHalfWrittenTarget ==
    ASSUME NamesFit
    PROVE  Spec => []EntryPublishedLast
  <1>1. DiskInv /\ TreeInv /\ HistInv => EntryPublishedLast
    <2> SUFFICES ASSUME DiskInv, TreeInv, HistInv PROVE EntryPublishedLast
      OBVIOUS
    <2>1. NodeAt(op.path) = NodeIn(fat[1], data, op.path) /\ NewNode = MadeBy(op)
      BY At1, NodeNow DEF NewNode, MadeBy
    <2>2. ASSUME Active, ~Clearing
          PROVE  NodeAt(op.path) = IF pc = "done" THEN MadeBy(op) ELSE [k |-> "absent"]
      BY <2>1, <2>2, TargetNode
    <2>3. ASSUME pc \notin {"idle", "beyond"}, ~IsCluster(op.free)
          PROVE  NodeAt(op.path) \in {view[op.path], [k |-> "absent"], NewNode}
      <3>1. op.free = 0
        BY <2>3, At1, Numbers DEF IsCluster
      <3>2. CASE pc \in {"free", "freeinfo", "delete", "failed"}
        BY <2>1, <3>1, <3>2 DEF HistInv
      <3>3. CASE pc \notin {"free", "freeinfo", "delete", "failed"}
        BY <2>1, <2>2, <2>3, <3>3 DEF Active, Clearing
      <3> QED BY <3>2, <3>3
    <2>4. pc = "done" => NodeAt(op.path) = NewNode
      BY <2>1, <2>2 DEF Active, Clearing
    <2> QED BY <2>3, <2>4 DEF EntryPublishedLast
  <1> QED BY <1>1, DiskInvariant, TreeInvariant, HistInvariant, PTL

-----------------------------------------------------------------------------
(* The store that FatFs implements when no write fails.                    *)

\* The directory that a path is in is itself a path.
PathsClosed == \A p \in Paths : p # <<>> => Parent(p) \in Paths

Unharmed == faults = 0 /\ bad = {} /\ pc \notin {"failed", "beyond"}

\* Without a failing write nothing is damaged.
LEMMA StaysUnharmed ==
    ASSUME MaxFaults = 0
    PROVE  Spec => []Unharmed
  <1>1. Init => Unharmed
    BY DEF Init, Unharmed
  <1>2. DiskInv /\ Unharmed /\ [Next]_vars => Unharmed'
    <2> SUFFICES ASSUME DiskInv, Unharmed, [Next]_vars PROVE Unharmed'
      OBVIOUS
    <2>0. faults = 0 /\ bad = {} /\ pc \notin {"failed", "beyond"} /\ ~(faults < MaxFaults)
      BY DEF Unharmed
    <2>1. CASE UNCHANGED vars
      BY <2>0, <2>1 DEF vars, diskVars, regVars, histVars, Unharmed
    <2>2. CASE \E ok \in BOOLEAN : (ok \/ faults < MaxFaults) /\ (FreeInfo(ok) \/ AllocInfo(ok))
      <3>1. FreeInfo(TRUE) \/ AllocInfo(TRUE)
        BY <2>0, <2>2
      <3>2. UNCHANGED <<faults, bad>> /\ pc' \notin {"failed", "beyond"}
        BY <3>1 DEF FreeInfo, AllocInfo, histVars, AfterFree, AfterDelete
      <3> QED BY <2>0, <3>2 DEF Unharmed
    <2>3. CASE \E r : Returns(r)
      <3>1. PICK r : Returns(r)
        BY <2>3
      <3>2. faults' = faults /\ pc' = "idle" /\ bad' \subseteq bad
        BY <3>1 DEF Returns, Return
      <3> QED BY <2>0, <3>2 DEF Unharmed
    <2>4. CASE Call
      <3>1. ~\E p \in Paths : Beyond(p)
        BY <2>0 DEF Beyond, Tainted
      <3>2. Reject \/ Begins
        BY <2>4, <3>1, At1, CallFound
      <3>3. UNCHANGED <<faults, bad>> /\ pc' \notin {"failed", "beyond"}
        BY <2>0, <3>2 DEF Reject, Begins, Start, histVars, FirstPhase, AfterFree, AfterDelete
      <3> QED BY <2>0, <3>3 DEF Unharmed
    <2>5. CASE \/ FreeWrite \/ Deletes \/ MarkEoc \/ ZeroCluster \/ LinkWrite
               \/ WriteCluster \/ AddDirEntry \/ GrowDir
      <3>1. UNCHANGED <<faults, bad>> /\ pc' \notin {"failed", "beyond"}
        BY <2>5 DEF FreeWrite, Deletes, MarkEoc, ZeroCluster, LinkWrite, Linked,
                    WriteCluster, AddDirEntry, GrowDir, histVars, AfterDelete
      <3> QED BY <2>0, <3>1 DEF Unharmed
    <2>6. ~Fault
      BY <2>0 DEF Fault
    <2>7. CASE NotFound
      <3>1. faults' = faults /\ pc' = "idle" /\ bad' \subseteq bad
        BY <2>7 DEF NotFound, Return
      <3> QED BY <2>0, <3>1 DEF Unharmed
    <2> QED BY <2>1, <2>2, <2>3, <2>4, <2>5, <2>6, <2>7, Steps
  <1> QED BY <1>1, <1>2, DiskInvariant, PTL DEF Spec

\* Steps that neither return nor refuse are not seen.
LEMMA Quiet ==
    ASSUME Next, ~NotFound
    PROVE  UNCHANGED <<view, result>> \/ Call \/ \E r : Returns(r)
  <1>1. CASE \/ FreeWrite \/ Deletes \/ MarkEoc \/ ZeroCluster \/ LinkWrite
             \/ WriteCluster \/ AddDirEntry \/ GrowDir \/ Fault
    BY <1>1 DEF FreeWrite, Deletes, MarkEoc, ZeroCluster, LinkWrite, Linked,
                WriteCluster, AddDirEntry, GrowDir, Fault, histVars
  <1>2. CASE \E ok \in BOOLEAN : (ok \/ faults < MaxFaults) /\ (FreeInfo(ok) \/ AllocInfo(ok))
    BY <1>2 DEF FreeInfo, AllocInfo, histVars
  <1> QED BY <1>1, <1>2, Steps

\* An empty store to begin with.
LEMMA StoreBegins == Init => Store!StoreInit
  <1> SUFFICES ASSUME Init PROVE Store!StoreInit
    OBVIOUS
  <1>1. DiskInv /\ TreeInv /\ HistInv /\ pc = "idle"
    BY InitDisk, InitTree, InitHist DEF Init
  <1>2. PICK f, d, r0 : f = fat[1] /\ d = data /\ r0 = <<>>
    OBVIOUS
  <1>3. f \in Fats /\ d \in DataAreas /\ Acyclic(f) /\ r0 \in Seq(Names)
    BY <1>1, <1>2, At1, PathFacts DEF TreeInv, FatOK
  <1>4. view = [p \in Paths |-> NodeIn(f, d, p)]
    BY <1>1, <1>2 DEF HistInv
  <1>5. Holds(f, d, Root) = {}
    <2>1. \A c \in DataClusters, u \in 1..ClusterUnits :
             d[c][u] = IF c = Root /\ Labelled /\ u = 1 THEN Skip ELSE End
      BY <1>2 DEF Init, Zeros, DataClusters
    <2>2. \A x \in Slots : At(d, x).k # "entry"
      BY <2>1, EntryUnits DEF Slots, At
    <2> QED BY <2>2 DEF Holds, EntrySlots
  <1>6. LookIn(f, d, r0) = RootEntry
    BY <1>2, <1>3, LookChild
  <1>7. RootEntry.k = "entry" /\ RootEntry.dir /\ RootEntry.cluster = Root
    BY DEF RootEntry, Entry
  <1>8. \A q \in Seq(Names) : Below(r0, q) => LookIn(f, d, q).k = "error"
    BY <1>3, <1>5, <1>6, <1>7, Numbers, NothingBelow
  <1>9. ASSUME NEW q \in Paths, q # <<>> PROVE NodeIn(f, d, q) = [k |-> "absent"]
    <2>1. q \in Seq(Names) /\ Len(q) > 0 /\ Len(q) \in Nat
      BY <1>9, PathFacts
    <2>2. SubSeq(q, 1, 0) = <<>>
      BY <2>1
    <2>3. Below(r0, q)
      BY <1>2, <2>1, <2>2 DEF Below
    <2> QED BY <1>8, <2>1, <2>3 DEF NodeIn
  <1>10. NodeIn(f, d, <<>>) = [k |-> "dir"]
    BY <1>2, <1>6, <1>7 DEF NodeIn
  <1> QED BY <1>4, <1>9, <1>10 DEF Store!StoreInit, Store!DirNode, Store!Absent

\* What an operation that returns leaves behind: N at its target.
Leaving(N) ==
    /\ op.path \in Paths /\ op.path # <<>>
    /\ view' = [view EXCEPT ![op.path] = N]
    /\ Store!IsDirIn(view, Store!ParentPath(op.path))
    /\ ~Store!HasKids(view, op.path)

\* An operation that returns changes one path of the view.
LEMMA ReturnLeaves ==
    ASSUME PathsClosed, DiskInv, TreeInv, HistInv, Unharmed, NEW r, Returns(r)
    PROVE  Leaving(IF r = "ok" THEN MadeBy(op) ELSE [k |-> "absent"])
  <1>1. /\ pc \in {"mark", "zero", "done"} /\ view' = View /\ result' = r
        /\ r = "ok" <=> pc = "done"
    BY DEF Returns, Return, Unharmed
  <1>2. Active /\ ~Clearing
    BY <1>1 DEF Active, Clearing
  <1>3. PICK f, d, p0, N : /\ f = fat[1] /\ d = data /\ p0 = op.path
                           /\ N = IF r = "ok" THEN MadeBy(op) ELSE [k |-> "absent"]
    OBVIOUS
  <1>4. /\ f \in Fats /\ d \in DataAreas /\ FatOK(f)
        /\ p0 \in Paths /\ p0 # <<>> /\ p0 \in Seq(Names)
    <2>1. p0 \in Paths
      BY <1>3, At1 DEF Ops
    <2>2. p0 # <<>>
      BY <1>1, <1>3 DEF DiskInv, OpInv, Sound
    <2> QED BY <1>3, <2>1, <2>2, At1 DEF TreeInv
  <1>5. NodeIn(f, d, p0) = N
    BY <1>1, <1>2, <1>3, TargetNode
  <1>6. view' = [p \in Paths |-> NodeIn(f, d, p)]
    <2>1. \A p \in Paths : NodeAt(p) = NodeIn(f, d, p)
      BY <1>3, At1, PathFacts, NodeNow
    <2> QED BY <1>1, <2>1 DEF View
  <1>7. \A p \in Paths : p # p0 => NodeIn(f, d, p) = view[p]
    <2>1. bad = {}
      BY DEF Unharmed
    <2>2. \A p : Clear(bad, p)
      BY <2>1 DEF Clear
    <2>3. \A p \in Paths : p # op.path /\ Clear(bad, p) => NodeIn(fat[1], data, p) = view[p]
      BY <1>1 DEF HistInv
    <2> QED BY <1>3, <2>2, <2>3
  <1>8. view = [p \in Paths |-> view[p]]
    BY DEF HistInv
  <1>9. view' = [view EXCEPT ![p0] = N]
    BY <1>4, <1>5, <1>6, <1>7, <1>8
  <1>10. PICK q : q = Parent(p0) /\ q \in Paths /\ q \in Seq(Names) /\ q # p0
    <2>1. Parent(p0) \in Paths /\ Len(Parent(p0)) # Len(p0)
      BY <1>4, PathFacts DEF PathsClosed
    <2> QED BY <2>1, PathFacts
  <1>11. view[q] = [k |-> "dir"]
    <2>1. PICK T, X : StructInv(T, X)
      BY DEF TreeInv
    <2>2. q \in DOMAIN T /\ Tree(f, d, T, X)
      BY <1>2, <1>3, <1>10, <2>1 DEF StructInv
    <2>3. LookIn(f, d, q).k = "entry" /\ LookIn(f, d, q).dir
      BY <1>4, <2>2, LookTable
    <2>4. NodeIn(f, d, q) = [k |-> "dir"]
      BY <2>3 DEF NodeIn
    <2> QED BY <1>7, <1>10, <2>4
  <1>12. Store!ParentPath(p0) = q
    BY <1>10 DEF Store!ParentPath, Parent
  <1>13. Store!IsDirIn(view, q)
    BY <1>11 DEF Store!IsDirIn, Store!DirNode
  <1>14. ~Store!HasKids(view, p0)
    <2> SUFFICES ASSUME NEW c \in Paths, c # <<>>, Store!ParentPath(c) = p0
                 PROVE  view[c] = Store!Absent
      BY DEF Store!HasKids
    <2>1. c \in Seq(Names) /\ Parent(c) = p0
      BY PathFacts DEF Store!ParentPath, Parent
    <2>2. Below(p0, c) /\ c # p0
      <3>1. Len(Parent(c)) # Len(c)
        BY <2>1, PathFacts
      <3> QED BY <1>4, <2>1, <3>1, BelowParent
    <2>3. LookIn(f, d, c).k = "error"
      BY <1>2, <1>3, <2>1, <2>2, NoneBelow DEF TargetBare
    <2>4. NodeIn(f, d, c) = [k |-> "absent"]
      BY <2>3 DEF NodeIn
    <2> QED BY <1>7, <2>2, <2>4 DEF Store!Absent
  <1> QED BY <1>3, <1>4, <1>9, <1>12, <1>13, <1>14 DEF Leaving

\* An operation that returns does one step of the store.
LEMMA ReturnStores ==
    ASSUME PathsClosed, DiskInv, TreeInv, HistInv, Unharmed, NEW r, Returns(r)
    PROVE  Store!StoreNext
  <1>1. /\ pc \in {"mark", "zero", "done"} /\ result' = r
        /\ r = "ok" <=> pc = "done"
    BY DEF Returns, Return, Unharmed
  <1>2. PICK p0, v : p0 = op.path /\ v = view[op.path]
    OBVIOUS
  <1>3. PICK N : N = (IF r = "ok" THEN MadeBy(op) ELSE [k |-> "absent"]) /\ Leaving(N)
    BY ReturnLeaves
  <1>4. /\ p0 \in Paths /\ p0 # <<>> /\ view' = [view EXCEPT ![p0] = N]
        /\ Store!IsDirIn(view, Store!ParentPath(p0)) /\ ~Store!HasKids(view, p0)
    BY <1>2, <1>3 DEF Leaving
  <1>5. /\ op.del <=> v # Store!Absent
        /\ op.add /\ op.del => v.k = "file"
        /\ op.add /\ ~op.mkdir =>
              \/ op.payload = <<>> \/ op.payload \in Payloads
              \/ op.del /\ \E x \in Payloads : op.payload = v.d \o x
    BY <1>1, <1>2 DEF HistInv, Recalled, Store!Absent
  <1>6. op.add \in BOOLEAN /\ op.del \in BOOLEAN /\ op.mkdir \in BOOLEAN /\ op.need \in Nat
    BY At1 DEF Ops
  <1>7. Sound(op)
    BY <1>1 DEF DiskInv, OpInv
  <1>8. op.add => v # Store!DirNode
    <2>1. Store!DirNode.k = "dir" /\ Store!Absent.k = "absent"
      BY DEF Store!DirNode, Store!Absent
    <2> QED BY <1>5, <1>6, <2>1
  <1>9. op.add => Store!FilePlace(p0)
    BY <1>2, <1>4, <1>8 DEF Store!FilePlace
  <1>10. CASE pc # "done"
    <2>1. op.add
      <3>1. CASE growing
        BY <3>1 DEF DiskInv, PhaseInv
      <3>2. CASE ~growing
        <4>1. op.need > 0
          BY <1>1, <1>10, <3>2 DEF DiskInv, BuildInv
        <4> QED BY <1>6, <1>7, <4>1, At1, AfterFacts
      <3> QED BY <3>1, <3>2
    <2>2. N = Store!Absent /\ result' # "ok"
      BY <1>1, <1>3, <1>10 DEF Store!Absent
    <2>3. CASE op.del
      <3>1. Store!FailLosing(p0)
        BY <1>2, <1>4, <1>5, <1>9, <2>1, <2>2, <2>3 DEF Store!FailLosing
      <3> QED BY <1>4, <3>1 DEF Store!StoreNext
    <2>4. CASE ~op.del
      <3>1. N = view[p0] /\ view = [p \in Paths |-> view[p]]
        BY <1>2, <1>5, <2>2, <2>4 DEF HistInv
      <3>2. UNCHANGED view
        BY <1>4, <3>1
      <3> QED BY <2>2, <3>2 DEF Store!StoreNext, Store!Fail
    <2> QED BY <1>6, <2>3, <2>4
  <1>11. CASE pc = "done"
    <2>1. N = MadeBy(op) /\ result' = "ok" /\ Store!Put(p0, N)
      BY <1>1, <1>3, <1>4, <1>11 DEF Store!Put
    <2>2. CASE ~op.add
      <3>1. op.del /\ N = Store!Absent
        BY <1>7, <2>1, <2>2 DEF Sound, MadeBy, Store!Absent
      <3>2. Store!Remove(p0)
        BY <1>2, <1>4, <1>5, <2>1, <3>1 DEF Store!Remove
      <3> QED BY <1>4, <3>2 DEF Store!StoreNext
    <2>3. CASE op.add /\ op.mkdir
      <3>1. ~op.del /\ N = Store!DirNode
        BY <1>7, <2>1, <2>3 DEF Sound, MadeBy, Store!DirNode
      <3>2. Store!MkDir(p0)
        BY <1>2, <1>5, <1>9, <2>1, <2>3, <3>1 DEF Store!MkDir
      <3> QED BY <1>4, <3>2 DEF Store!StoreNext
    <2>4. CASE op.add /\ ~op.mkdir
      <3>1. N = Store!FileNode(op.payload) /\ Store!FilePlace(p0)
        BY <1>9, <2>1, <2>4 DEF MadeBy, Store!FileNode
      <3>2. CASE op.payload = <<>>
        <4>1. Store!Create(p0)
          BY <2>1, <3>1, <3>2 DEF Store!Create
        <4> QED BY <1>4, <4>1 DEF Store!StoreNext
      <3>3. CASE op.payload \in Payloads
        <4>1. Store!Write(p0, op.payload)
          BY <2>1, <3>1 DEF Store!Write
        <4> QED BY <1>4, <3>3, <4>1 DEF Store!StoreNext
      <3>4. CASE op.del /\ \E x \in Payloads : op.payload = v.d \o x
        <4>1. PICK x \in Payloads : op.payload = v.d \o x
          BY <3>4
        <4>2. view[p0] # Store!Absent
          BY <1>2, <1>5, <3>4
        <4>3. Store!Append_(p0, x)
          BY <1>2, <2>1, <3>1, <4>1, <4>2 DEF Store!Append_
        <4> QED BY <1>4, <4>3 DEF Store!StoreNext
      <3> QED BY <1>5, <2>4, <3>2, <3>3, <3>4
    <2> QED BY <1>6, <2>2, <2>3, <2>4
  <1> QED BY <1>10, <1>11

\* As long as no write fails, FatFs implements the abstract store: whatever the
\* block writes do in between, an operation that returns has done on every path
\* what FileStore says, the full disk included.
THEOREM FatFsImplementsTheStore ==
    ASSUME NamesFit, PathsClosed, MaxFaults = 0
    PROVE  Spec => StoreSpec
  <1>1. DiskInv /\ TreeInv /\ HistInv /\ Unharmed /\ [Next]_vars
           => [Store!StoreNext]_(Store!storeVars)
    <2> SUFFICES ASSUME DiskInv, TreeInv, HistInv, Unharmed, [Next]_vars
                 PROVE  Store!StoreNext \/ UNCHANGED <<view, result>>
      BY DEF Store!storeVars
    <2>1. CASE UNCHANGED vars
      BY <2>1 DEF vars, histVars
    <2>2. CASE Call
      <3>1. CASE Reject
        <4>1. Store!Fail
          BY <3>1 DEF Reject, histVars, Store!Fail
        <4> QED BY <4>1 DEF Store!StoreNext
      <3>2. CASE (\E p \in Paths : Beyond(p)) \/ Begins
        BY <3>2 DEF Beyond, Begins, Start, histVars
      <3> QED BY <2>2, <3>1, <3>2, At1, CallFound
    <2>3. CASE \E r : Returns(r)
      BY <2>3, ReturnStores
    <2>4. ~NotFound
      BY EntryIsFound
    <2> QED BY <2>1, <2>2, <2>3, <2>4, Quiet
  <1> QED BY <1>1, StoreBegins, DiskInvariant, TreeInvariant, HistInvariant, StaysUnharmed, PTL
          DEF Spec, StoreSpec, Store!StoreSpec

\* Without a failing write every chain is whole between operations: allocated,
\* ended by an end-of-chain mark, and as long as the size of its entry.
THEOREM ChainsStayComplete ==
    ASSUME NamesFit, MaxFaults = 0
    PROVE  Spec => []ChainsComplete
  <1>1. DiskInv /\ TreeInv /\ Unharmed => ChainsComplete
    <2> SUFFICES ASSUME DiskInv, TreeInv, Unharmed, pc = "idle", NEW e \in LiveEntries
                 PROVE  LET ch == Chain(e.cluster) IN
                           /\ ch # <<>> => fat[1][ch[Len(ch)]] = EOC
                           /\ ~e.dir => /\ Len(ch) * ClusterUnits >= e.size
                                        /\ (Len(ch) - 1) * ClusterUnits < e.size
                           /\ e.dir => ch # <<>>
      BY DEF ChainsComplete
    <2>1. PICK f, d, h, ch : f = fat[1] /\ d = data /\ h = e.cluster /\ ch = ChainIn(f, h)
      OBVIOUS
    <2>2. f \in Fats /\ d \in DataAreas /\ FatOK(f) /\ Acyclic(f)
      BY <2>1, At1 DEF TreeInv, FatOK
    <2>3. Chain(e.cluster) = ch
      BY <2>1, ChainNow
    <2>4. PICK T, X : StructInv(T, X)
      BY DEF TreeInv
    <2>5. X = {}
      <3>1. Suspects = {}
        BY DEF Unharmed, Suspects, Clearing, Active
      <3>2. Damage(f, d, T, X, {})
        BY <2>1, <2>4, <3>1 DEF StructInv
      <3> QED BY <3>2 DEF Damage
    <2>6. PICK x : x \in EntrySlots(d) \ X /\ e = At(d, x)
      BY <2>1, <2>2, <2>5, LiveHeld
    <2>7. /\ h \in {0} \cup DataClusters /\ e.size \in Nat
          /\ e.dir => h \in DataClusters
      BY <2>1, <2>2, <2>6, EntryAt
    <2>8. Owners(f, d, X)
      BY <2>1, <2>4 DEF StructInv
    <2>9. h # 0 => f[h] # Free
      BY <2>1, <2>6, <2>8 DEF Owners, Owner
    <2>10. ~e.dir => Len(ch) = ClustersFor(e.size)
      BY <2>1, <2>6, <2>8 DEF Owners, Sized
    <2>11. ASSUME h \in DataClusters
           PROVE  ch # <<>> /\ f[ch[Len(ch)]] = EOC
      <3>1. /\ Len(ch) \in Nat /\ Len(ch) >= 1 /\ ch[Len(ch)] \in In(f, h)
            /\ f[ch[Len(ch)]] \notin DataClusters
        BY <2>1, <2>2, <2>11, LastIn
      <3>2. f[ch[Len(ch)]] # Free /\ ch[Len(ch)] \in Clusters
        BY <2>2, <2>9, <2>11, <3>1, OwnerIn, InFacts, Numbers
      <3> QED BY <2>2, <3>1, <3>2 DEF Fats
    <2>12. h = 0 => ch = <<>>
      BY <2>1, NoChain
    <2>13. ~e.dir => /\ Len(ch) * ClusterUnits >= e.size
                     /\ (Len(ch) - 1) * ClusterUnits < e.size
      BY <2>7, <2>10, ClustersForFacts
    <2> QED BY <2>1, <2>3, <2>7, <2>11, <2>12, <2>13
  <1> QED BY <1>1, DiskInvariant, TreeInvariant, StaysUnharmed, PTL

\* All the entries in one chain, also in that of a damaged directory, are in
\* one directory of the tree.
LEMMA OneDirectory ==
    ASSUME NEW f \in Fats, FatOK(f), NEW d \in DataAreas, NEW T, NEW X,
           Tree(f, d, T, X), Owners(f, d, X), NEW h \in DataClusters,
           NEW x \in Holds(f, d, h), NEW y \in Holds(f, d, h)
    PROVE  \E p \in DOMAIN T : x \in Holds(f, d, T[p]) /\ y \in Holds(f, d, T[p])
  <1>1. x \in EntrySlots(d) /\ y \in EntrySlots(d) /\ x[1] \in In(f, h) /\ y[1] \in In(f, h)
    BY DEF Holds
  <1>2. \A z \in EntrySlots(d) : \E p \in DOMAIN T : z \in Holds(f, d, T[p])
    BY DEF Tree
  <1>3. PICK p, q : /\ p \in DOMAIN T /\ x \in Holds(f, d, T[p])
                    /\ q \in DOMAIN T /\ y \in Holds(f, d, T[q])
    BY <1>1, <1>2
  <1>4. PICK l : l = ChainIn(f, h)[Len(ChainIn(f, h))]
    OBVIOUS
  <1>5. \A c \in In(f, h) : f[c] \notin DataClusters => c = l
    BY <1>4, LastIn DEF FatOK
  <1>6. ASSUME NEW g \in DataClusters, NEW c, c \in In(f, g), c \in In(f, h)
        PROVE  l \in In(f, g)
    <2>1. PICK S : S = In(f, g) \cap In(f, h)
      OBVIOUS
    <2>2. S \subseteq Clusters /\ S # {}
      BY <1>6, <2>1, InFacts DEF FatOK
    <2>3. PICK b \in S : f[b] \notin S
      BY <2>2 DEF FatOK, Acyclic
    <2>4. f[b] \notin DataClusters
      BY <2>1, <2>3, InFacts DEF FatOK
    <2> QED BY <1>5, <2>1, <2>3, <2>4
  <1>7. /\ T[p] \in DataClusters /\ T[q] \in DataClusters /\ T[p] # 0 /\ T[q] # 0
        /\ T[p] \in Heads(d, X) /\ T[q] \in Heads(d, X)
    BY <1>3, Structure
  <1>8. l \in In(f, T[p]) /\ l \in In(f, T[q])
    BY <1>1, <1>3, <1>6, <1>7 DEF Holds
  <1>9. T[p] = T[q]
    <2>1. \A g, k \in Heads(d, X) : g # 0 /\ k # 0 /\ g # k => In(f, g) \cap In(f, k) = {}
      BY Structure
    <2> QED BY <1>7, <1>8, <2>1
  <1> QED BY <1>3, <1>9

\* With names that fit 8.3 no directory has two entries of one name, at any
\* point of an operation and after any faults.
THEOREM NamesStayUnique ==
    ASSUME NamesFit
    PROVE  Spec => []NamesUnique
  <1>1. DiskInv /\ TreeInv => NamesUnique
    <2> SUFFICES ASSUME DiskInv, TreeInv,
                        NEW h \in {Root} \cup {e.cluster : e \in {x \in LiveEntries : x.dir}},
                        NEW i \in DOMAIN ReadDir(h), NEW j \in DOMAIN ReadDir(h),
                        ReadDir(h)[i].name = ReadDir(h)[j].name
                 PROVE  i = j
      BY DEF NamesUnique
    <2>1. PICK f, d, D : f = fat[1] /\ d = data /\ D = ReadDir(h)
      OBVIOUS
    <2>2. f \in Fats /\ d \in DataAreas /\ FatOK(f) /\ Acyclic(f)
      BY <2>1, At1 DEF TreeInv, FatOK
    <2>3. h \in DataClusters
      <3>1. \A e \in LiveEntries : \E x \in EntrySlots(data) : e = At(data, x)
        BY <2>1, <2>2, LiveHeld
      <3> QED BY <2>1, <2>2, <3>1, EntryAt, Numbers
    <2>4. D = DirIn(f, d, h)
      BY <2>1, DirNow
    <2>5. PICK x, y : x = Place(ChainIn(f, h), i) /\ y = Place(ChainIn(f, h), j)
      OBVIOUS
    <2>6. /\ x \in Holds(f, d, h) /\ y \in Holds(f, d, h)
          /\ At(d, x).name = At(d, y).name
          /\ x = y => i = j
      BY <2>1, <2>2, <2>3, <2>4, <2>5, DirHolds
    <2>7. PICK T, X : StructInv(T, X)
      BY DEF TreeInv
    <2>8. Tree(f, d, T, X) /\ Owners(f, d, X)
      BY <2>1, <2>7 DEF StructInv
    <2>9. PICK p \in DOMAIN T : x \in Holds(f, d, T[p]) /\ y \in Holds(f, d, T[p])
      BY <2>2, <2>3, <2>6, <2>8, OneDirectory
    <2>10. DirOK(f, d, T[p])
      BY <2>8 DEF Tree
    <2> QED BY <2>6, <2>9, <2>10 DEF DirOK
  <1> QED BY <1>1, DiskInvariant, TreeInvariant, PTL

-----------------------------------------------------------------------------
(* The clusters in use, when no write fails.                               *)

\* The first clusters of what can be found on the disk, but for the target p0 of
\* the operation; the clusters in their chains; and those that the operation
\* has taken or has still to free.
Seen(f, d, p0) ==
    {Root} \cup {LookIn(f, d, q).cluster :
                    q \in {p \in Seq(Names) \ {<<>>, p0} : LookIn(f, d, p).k # "error"}}
Held(f, H) == UNION {In(f, h) : h \in H}
Work == IF pc = "free" THEN In(fat[1], IF copy = 1 THEN cl ELSE nxt)
        ELSE In(fat[1], head) \cup (IF Fresh THEN {cl} \cap DataClusters ELSE {})
Busy == Held(fat[1], Seen(fat[1], data, op.path)) \cup Work

\* No chain starts outside the FAT.
LEMMA NoRest == \A f, h : h \notin Clusters => In(f, h) = {}
  <1> SUFFICES ASSUME NEW f, NEW h, h \notin Clusters PROVE In(f, h) = {}
    OBVIOUS
  <1>1. ChainIn(f, h) = ChainIn(f, 0)
    BY Numbers DEF ChainIn, IsCluster
  <1> QED BY <1>1, NoChain DEF In

\* A chain is its head and the chain from the next cluster.
LEMMA ChainTail ==
    ASSUME NEW f \in Fats, Acyclic(f), NEW c \in DataClusters
    PROVE  In(f, c) = {c} \cup In(f, f[c]) /\ c \notin In(f, f[c])
  <1>1. f[c] \in {Free, EOC} \cup DataClusters
    BY Numbers DEF Fats
  <1>2. CASE f[c] \notin DataClusters
    <2>1. f[c] \notin Clusters
      BY <1>1, <1>2, Numbers
    <2> QED BY <1>2, <2>1, NoRest, ChainOne
  <1>3. CASE f[c] \in DataClusters
    <2>1. PICK h, s : h = f[c] /\ s = ChainIn(f, h)
      OBVIOUS
    <2>2. Run(f, h, s) /\ Ends(f, s)
      BY <1>3, <2>1, ChainEnds
    <2>3. /\ s \in Seq(DataClusters) /\ Len(s) \in Nat /\ Len(s) >= 1 /\ s[1] = h
          /\ \A i \in 1..(Len(s) - 1) : f[s[i]] = s[i + 1]
      BY <2>2 DEF Run
    <2>4. PICK t : t = <<c>> \o s
      OBVIOUS
    <2>5. /\ t \in Seq(DataClusters) /\ Len(t) = Len(s) + 1 /\ t[1] = c
          /\ \A i \in 1..Len(s) : t[i + 1] = s[i]
      BY <2>3, <2>4
    <2>6. ASSUME NEW i \in 1..(Len(t) - 1) PROVE f[t[i]] = t[i + 1]
      <3>1. i \in 1..Len(s)
        BY <2>3, <2>5
      <3>2. CASE i = 1
        BY <2>1, <2>3, <2>5, <3>1, <3>2
      <3>3. CASE i # 1
        <4>1. i - 1 \in 1..(Len(s) - 1) /\ (i - 1) + 1 = i /\ i - 1 \in 1..Len(s)
          BY <2>3, <3>1, <3>3
        <4>2. t[i] = s[i - 1] /\ f[s[i - 1]] = s[i]
          BY <2>3, <2>5, <4>1
        <4> QED BY <2>5, <3>1, <4>2
      <3> QED BY <3>2, <3>3
    <2>7. Run(f, c, t)
      BY <2>3, <2>5, <2>6 DEF Run
    <2>8. Ends(f, t)
      <3>1. t[Len(t)] = s[Len(s)]
        BY <2>3, <2>5
      <3> QED BY <2>2, <3>1 DEF Ends
    <2>9. ChainIn(f, c) = t
      BY <2>7, <2>8, ChainIs
    <2>10. \A i \in 1..Len(s) : s[i] # c
      <3>1. \A i, j \in 1..Len(t) : t[i] = t[j] => i = j
        BY <2>7, RunDistinct
      <3>2. ASSUME NEW i \in 1..Len(s), s[i] = c PROVE FALSE
        <4>1. i + 1 \in 1..Len(t) /\ 1 \in 1..Len(t) /\ i + 1 # 1
          BY <2>3, <2>5
        <4> QED BY <2>5, <3>1, <3>2, <4>1
      <3> QED BY <3>2
    <2>11. In(f, h) = {s[i] : i \in 1..Len(s)} /\ In(f, c) = {t[i] : i \in 1..Len(t)}
      BY <2>1, <2>3, <2>5, <2>9 DEF In, RangeOf
    <2>12. ASSUME NEW i \in 1..Len(t) PROVE t[i] = c \/ t[i] \in In(f, h)
      <3>1. CASE i = 1
        BY <2>5, <3>1
      <3>2. CASE i # 1
        <4>1. i - 1 \in 1..Len(s) /\ (i - 1) + 1 = i
          BY <2>3, <2>5, <3>2
        <4> QED BY <2>5, <2>11, <4>1
      <3> QED BY <3>1, <3>2
    <2>13. \A i \in 1..Len(s) : s[i] \in In(f, c)
      <3>1. \A i \in 1..Len(s) : i + 1 \in 1..Len(t)
        BY <2>3, <2>5
      <3> QED BY <2>5, <2>11, <3>1
    <2>14. c \in In(f, c)
      BY InFacts
    <2> QED BY <2>1, <2>10, <2>11, <2>12, <2>13, <2>14
  <1> QED BY <1>2, <1>3

\* A step in the middle of an operation leaves the entries of the other paths.
LEMMA LooksStay ==
    ASSUME DiskInv, TreeInv, DiskInv', TreeInv', Unharmed, Works,
           NEW q \in Seq(Names), q # op.path
    PROVE  \/ LookIn(fat[1], data, q)' = LookIn(fat[1], data, q)
           \/ LookIn(fat[1], data, q)'.k = "error" /\ LookIn(fat[1], data, q).k = "error"
  <1>1. Active /\ Active' /\ op' = op /\ bad = {}
    BY DEF Works, Unharmed
  <1>2. PICK f, d, g, e : f = fat[1] /\ d = data /\ g = fat'[1] /\ e = data'
    OBVIOUS
  <1>3. f \in Fats /\ d \in DataAreas /\ FatOK(f) /\ op.path \in Seq(Names)
    BY <1>2, At1 DEF TreeInv
  <1>5. CASE UNCHANGED <<fat, data>>
    BY <1>5
  <1>6. CASE Below(op.path, q)
    <2>1. LookIn(f, d, q).k = "error"
      BY <1>1, <1>2, <1>6, NoneBelow DEF TargetBare
    <2>2. (DiskInv /\ TreeInv /\ Active => TargetBare)'
      BY NoneBelow, PTL
    <2>3. LookIn(g, e, q).k = "error"
      BY <1>1, <1>2, <1>6, <2>2 DEF TargetBare
    <2> QED BY <1>2, <2>1, <2>3
  <1>7. CASE Stays /\ ~Below(op.path, q)
    <2>1. PICK B, p0 : B = Suspects /\ p0 = op.path
      OBVIOUS
    <2>2. PICK T, X : Stay(f, d, g, e, T, X, B, p0)
      BY <1>2, <1>7, <2>1 DEF Stays
    <2>3. Clear(B, q) /\ B \subseteq Seq(Names)
      <3>1. \A b \in B : b = op.path
        BY <1>1, <2>1 DEF Suspects
      <3> QED BY <1>3, <1>7, <3>1 DEF Clear
    <2>4. LookIn(g, e, q) = LookIn(f, d, q)
      BY <1>3, <1>7, <2>1, <2>2, <2>3, StayLooks
    <2> QED BY <1>2, <2>4
  <1> QED BY <1>5, <1>6, <1>7 DEF Works

\* A step in the middle of an operation leaves the others their first clusters.
LEMMA SeenStays ==
    ASSUME DiskInv, TreeInv, DiskInv', TreeInv', Unharmed, Works
    PROVE  Seen(fat[1], data, op.path)' = Seen(fat[1], data, op.path)
  <1>1. PICK f, d, g, e, p0 : f = fat[1] /\ d = data /\ g = fat'[1] /\ e = data' /\ p0 = op.path
    OBVIOUS
  <1>2. \A q \in Seq(Names) : q # p0 => \/ LookIn(g, e, q) = LookIn(f, d, q)
                                        \/ LookIn(g, e, q).k = "error" /\ LookIn(f, d, q).k = "error"
    BY <1>1, LooksStay
  <1>3. op'.path = p0
    BY <1>1 DEF Works
  <1>4. Seen(g, e, p0) = Seen(f, d, p0)
    BY <1>2 DEF Seen
  <1> QED BY <1>1, <1>3, <1>4

\* What the count of the clusters rests on.
SeenIn(T, X, f, d, H) ==
    /\ StructInv(T, X) /\ Tree(f, d, T, X) /\ Owners(f, d, X)
    /\ f \in Fats /\ d \in DataAreas /\ FatOK(f) /\ Acyclic(f)
    /\ f = fat[1] /\ d = data /\ H = Seen(f, d, op.path)
    /\ H \subseteq Heads(d, X) /\ \A h \in H : h = 0 \/ h \in DataClusters
    /\ op.parent \in H

\* The first clusters of what can be found are heads of chains.
LEMMA SeenFacts ==
    ASSUME DiskInv, TreeInv, Unharmed, Active
    PROVE  \E T, X, f, d, H : SeenIn(T, X, f, d, H)
  <1>1. PICK T, X : StructInv(T, X)
    BY DEF TreeInv
  <1>2. PICK f, d, p0, H, B : /\ f = fat[1] /\ d = data /\ p0 = op.path /\ H = Seen(f, d, p0)
                              /\ B = Suspects
    OBVIOUS
  <1>3. /\ Tree(f, d, T, X) /\ Owners(f, d, X) /\ Damage(f, d, T, X, B)
        /\ f \in Fats /\ d \in DataAreas /\ FatOK(f) /\ Acyclic(f)
        /\ p0 \in Seq(Names) /\ p0 # <<>>
        /\ Parent(p0) \in DOMAIN T /\ T[Parent(p0)] = op.parent
    <2>1. p0 # <<>>
      BY <1>2 DEF DiskInv, OpInv, Active, Sound
    <2> QED BY <1>1, <1>2, <2>1, At1 DEF StructInv, TreeInv, FatOK
  <1>4. B \subseteq {p0} /\ B \subseteq Seq(Names)
    BY <1>2, <1>3 DEF Suspects, Unharmed
  <1>5. ASSUME NEW q \in Seq(Names), q # <<>>, q # p0, LookIn(f, d, q).k # "error"
        PROVE  LookIn(f, d, q).cluster \in Heads(d, X)
    <2>1. ~Below(p0, q)
      BY <1>2, <1>5, NoneBelow DEF TargetBare
    <2>2. Clear(B, q)
      BY <1>4, <1>5, <2>1 DEF Clear
    <2>3. Sees(f, d, T, X, q)
      BY <1>3, <1>4, <2>2, Leaves
    <2>4. PICK u : u = LookIn(f, d, q)
      OBVIOUS
    <2>5. /\ Parent(q) \in DOMAIN T
          /\ \E x \in Holds(f, d, T[Parent(q)]) \ X :
                At(d, x).name = Last(q) /\ At(d, x).cluster = u.cluster
      BY <1>3, <1>5, <2>3, <2>4, SeenSlot
    <2> QED BY <2>4, <2>5 DEF Heads, Holds
  <1>6. H \subseteq Heads(d, X)
    BY <1>2, <1>5 DEF Seen, Heads
  <1>7. \A h \in H : h = 0 \/ h \in DataClusters
    BY <1>3, <1>6, Structure
  <1>8. op.parent \in H
    <2>1. CASE Parent(p0) = <<>>
      BY <1>2, <1>3, <2>1 DEF Tree, Seen
    <2>2. CASE Parent(p0) # <<>>
      <3>1. /\ LookIn(f, d, Parent(p0)).k = "entry"
            /\ LookIn(f, d, Parent(p0)).cluster = op.parent
        BY <1>3, LookTable
      <3>2. Parent(p0) \in Seq(Names) /\ Parent(p0) # p0
        <4>1. Parent(p0) \in Seq(Names) /\ Len(Parent(p0)) # Len(p0)
          BY <1>3, PathFacts
        <4> QED BY <4>1
      <3> QED BY <1>2, <2>2, <3>1, <3>2 DEF Seen
    <2> QED BY <2>1, <2>2
  <1> QED BY <1>1, <1>2, <1>3, <1>6, <1>7, <1>8 DEF SeenIn

\* The same chains hold the same clusters.
LEMMA HeldSame ==
    ASSUME NEW f, NEW g, NEW H, \A h \in H : In(g, h) = In(f, h)
    PROVE  Held(g, H) = Held(f, H)
  BY DEF Held

\* One write of free_chain: the cluster is given back.
LEMMA FreeBusy ==
    ASSUME DiskInv, TreeInv, DiskInv', TreeInv', Unharmed, Works, FreeWrite
    PROVE  /\ copy = 1 => cl \in Busy /\ Busy' = Busy \ {cl}
           /\ copy # 1 => Busy' = Busy
           /\ FirstCopy(fat[1], copy, cl, Free, fat'[1]) /\ cl \in DataClusters
  <1>0. Active /\ op' = op
    BY DEF Works
  <1>1. PICK T, X, f, d, H, g : SeenIn(T, X, f, d, H) /\ g = fat'[1]
    BY <1>0, SeenFacts
  <1>2. /\ pc = "free" /\ cl \in DataClusters /\ cl \in Clusters /\ copy \in 1..NumFats
        /\ head = 0 /\ fat \in [1..NumFats -> Fats] /\ Clearing
        /\ nxt \in {Free, EOC} \cup DataClusters
    BY At1, Numbers DEF FreeWrite, DiskInv, TypeInv, PhaseInv, Clearing
  <1>3. Wrote(fat, copy, cl, Free, fat')
    BY DEF FreeWrite, Wrote
  <1>4. g \in Fats /\ FirstCopy(f, copy, cl, Free, g)
    BY <1>1, <1>2, <1>3, FatWrite DEF SeenIn
  <1>5. Loose(f, d, X, cl)
    BY <1>1, <1>2 DEF SeenIn, StructInv, ClearInv
  <1> DEFINE next == IF copy = 1 THEN f[cl] ELSE nxt
  <1>6. /\ UNCHANGED <<data, head>>
        /\ \/ copy' = copy + 1 /\ nxt' = next /\ pc' = "free"
           \/ copy' = 1 /\ cl' = next /\ next \in DataClusters /\ pc' = "free"
           \/ pc' = "freeinfo" /\ next \notin Clusters
    BY <1>1, <1>2, Numbers DEF SeenIn, FreeWrite, IsCluster, Fats
  <1>7. Acyclic(g) /\ \A h \in H : In(g, h) = In(f, h)
    <2>1. CASE copy # 1
      BY <1>1, <1>4, <2>1 DEF SeenIn, FirstCopy
    <2>2. CASE copy = 1
      <3>1. Except(f, cl, Free, g) /\ NoPred(f, cl)
        BY <1>4, <1>5, <2>2 DEF FirstCopy, Except, Loose
      <3>2. Acyclic(g)
        BY <1>1, <1>2, <1>4, <3>1, FatFreed DEF SeenIn, FatOK
      <3>3. ASSUME NEW h \in H PROVE In(g, h) = In(f, h)
        <4>1. CASE h = 0
          BY <4>1, NoChain
        <4>2. CASE h # 0
          <5>1. h \in DataClusters /\ cl \notin In(f, h) /\ In(f, h) \subseteq Clusters
            BY <1>1, <1>5, <4>2, LooseHeads, InFacts DEF SeenIn
          <5>2. \A b \in In(f, h) : g[b] = f[b]
            BY <3>1, <5>1 DEF Except
          <5> QED BY <1>1, <1>4, <3>2, <5>1, <5>2, ChainFrame DEF SeenIn
        <4> QED BY <4>1, <4>2
      <3> QED BY <3>2, <3>3
    <2> QED BY <2>1, <2>2
  <1>8. Seen(fat[1], data, op.path)' = H
    BY <1>1, SeenStays DEF SeenIn
  <1>9. Held(g, H) = Held(f, H)
    BY <1>7, HeldSame
  <1>10. Busy' = Held(f, H) \cup In(g, next)
    <2>1. Work' = In(g, next)
      <3>1. CASE pc' = "freeinfo"
        <4>1. ~Fresh' /\ In(g, head') = {} /\ In(g, next) = {}
          BY <1>2, <1>6, <3>1, NoChain, NoRest DEF Fresh
        <4> QED BY <1>1, <3>1, <4>1 DEF Work
      <3>2. CASE pc' = "free"
        <4>1. copy' > 1 \/ copy' = 1
          BY <1>2, <1>6, <3>2, Numbers
        <4> QED BY <1>1, <1>2, <1>6, <3>2, <4>1 DEF Work
      <3> QED BY <1>6, <3>1, <3>2
    <2> QED BY <1>1, <1>8, <1>9, <2>1 DEF Busy
  <1>11. CASE copy = 1
    <2>1. Busy = Held(f, H) \cup In(f, cl)
      BY <1>1, <1>2, <1>11 DEF SeenIn, Busy, Work
    <2>2. In(f, cl) = {cl} \cup In(f, f[cl]) /\ cl \notin In(f, f[cl])
      BY <1>1, <1>2, ChainTail DEF SeenIn
    <2>3. cl \notin Held(f, H)
      <3>1. \A h \in H : cl \notin In(f, h)
        BY <1>1, <1>5, LooseHeads, NoChain DEF SeenIn
      <3> QED BY <3>1 DEF Held
    <2>4. In(g, f[cl]) = In(f, f[cl])
      <3>1. CASE f[cl] \in DataClusters
        <4>1. \A b \in In(f, f[cl]) : g[b] = f[b]
          BY <1>1, <1>4, <2>2, <3>1, InFacts DEF SeenIn, FirstCopy
        <4> QED BY <1>1, <1>4, <1>7, <3>1, <4>1, ChainFrame DEF SeenIn
      <3>2. CASE f[cl] \notin DataClusters
        <4>1. f[cl] \notin Clusters
          BY <1>1, <1>2, <3>2, Numbers DEF SeenIn, Fats
        <4> QED BY <4>1, NoRest
      <3> QED BY <3>1, <3>2
    <2> QED BY <1>1, <1>2, <1>4, <1>10, <1>11, <2>1, <2>2, <2>3, <2>4 DEF SeenIn
  <1>12. CASE copy # 1
    <2>1. g = f
      BY <1>4, <1>12 DEF FirstCopy
    <2>2. Busy = Held(f, H) \cup In(f, nxt)
      BY <1>1, <1>2, <1>12 DEF SeenIn, Busy, Work
    <2> QED BY <1>1, <1>2, <1>4, <1>10, <1>12, <2>1, <2>2 DEF SeenIn
  <1> QED BY <1>11, <1>12

\* A chain that is in use has no free cluster.
LEMMA BusyTaken ==
    ASSUME DiskInv, TreeInv, Unharmed, Active, NEW T, NEW X, NEW f, NEW d, NEW H,
           SeenIn(T, X, f, d, H), ~Clearing
    PROVE  /\ \A h \in H : \A c \in In(f, h) : f[c] # Free
           /\ \A c \in In(f, head) : f[c] # Free
           /\ head # 0 => head \in DataClusters
           /\ head # 0 /\ pc # "done" => Loose(f, d, X, head)
  <1>1. head \in {0} \cup DataClusters
    BY At1
  <1>2. ASSUME NEW h \in H, NEW c \in In(f, h) PROVE f[c] # Free
    <2>1. h # 0
      BY <1>2, NoChain
    <2>2. h \in DataClusters /\ Owner(f, h)
      BY <2>1, Structure DEF SeenIn
    <2> QED BY <1>2, <2>2, OwnerIn DEF SeenIn, Owner
  <1>3. head # 0 /\ pc # "done" => Loose(f, d, X, head) /\ f[head] # Free
    BY DEF SeenIn, StructInv, MakeInv
  <1>4. ASSUME head # 0 PROVE f[head] # Free
    <2>1. CASE pc # "done"
      BY <1>3, <1>4, <2>1
    <2>2. CASE pc = "done"
      <3>1. CASE op.add
        <4>1. PICK x : /\ x \in EntrySlots(d) \ X
                       /\ At(d, x) = Entry(Last(op.path), op.mkdir, head, Len(op.payload))
          BY <2>2, <3>1 DEF SeenIn, StructInv, DoneInv, Holds
        <4>2. At(d, x).cluster = head
          BY <4>1 DEF Entry
        <4>3. Owner(f, head)
          BY <1>4, <4>1, <4>2 DEF SeenIn, Owners
        <4> QED BY <4>3 DEF Owner
      <3>2. CASE ~op.add
        <4>1. op.need = 0
          <5>1. Sound(op) /\ op \in Ops
            BY <2>2, At1 DEF DiskInv, OpInv
          <5>2. op.need \in Nat /\ ~(op.need > 0)
            BY <3>2, <5>1, AfterFacts
          <5> QED BY <5>2
        <4> QED BY <1>4, <2>2, <4>1 DEF DiskInv, PhaseInv
      <3> QED BY <3>1, <3>2
    <2> QED BY <2>1, <2>2
  <1>5. ASSUME NEW c \in In(f, head) PROVE f[c] # Free
    <2>1. head # 0
      BY <1>5, NoChain
    <2> QED BY <1>1, <1>4, <1>5, <2>1, OwnerIn DEF SeenIn
  <1> QED BY <1>1, <1>2, <1>3, <1>5

\* One write of write_fat_entry(c, EOC): the cluster is taken.
LEMMA MarkBusy ==
    ASSUME DiskInv, TreeInv, DiskInv', TreeInv', Unharmed, Works, MarkEoc
    PROVE  /\ copy = 1 => Busy' = Busy \cup ({cl'} \cap DataClusters) /\ fat[1][cl'] = Free
           /\ copy # 1 => Busy' = Busy /\ cl' = cl /\ fat'[1] = fat[1]
           /\ FirstCopy(fat[1], copy, cl', EOC, fat'[1]) /\ cl' \in Clusters
           /\ Fresh' /\ (Fresh <=> copy # 1)
  <1>0. Active /\ op' = op
    BY DEF Works
  <1>1. PICK T, X, f, d, H, g, c : SeenIn(T, X, f, d, H) /\ g = fat'[1] /\ c = cl'
    BY <1>0, SeenFacts
  <1>2. /\ pc = "mark" /\ c \in Clusters /\ copy \in 1..NumFats /\ ~Clearing
        /\ fat \in [1..NumFats -> Fats] /\ f \in Fats /\ Acyclic(f)
        /\ IF copy = 1 THEN f[c] = Free ELSE c = cl
        /\ Wrote(fat, copy, c, EOC, fat')
    BY <1>1, At1, MarkEffect DEF MarkEoc, Clearing, SeenIn
  <1>3. g \in Fats /\ FirstCopy(f, copy, c, EOC, g)
    BY <1>1, <1>2, FatWrite, Numbers DEF SeenIn
  <1>4. /\ head' = head /\ Fresh' /\ pc' # "free" /\ (Fresh <=> copy # 1)
    <2>1. copy' > 1 \/ pc' = "zero"
      BY <1>2, Numbers DEF MarkEoc
    <2>2. copy > 1 <=> copy # 1
      BY <1>2, Numbers
    <2> QED BY <1>2, <2>1, <2>2 DEF MarkEoc, Fresh
  <1>5. Busy = Held(f, H) \cup (In(f, head) \cup (IF Fresh THEN {cl} \cap DataClusters ELSE {}))
    BY <1>1, <1>2 DEF SeenIn, Busy, Work
  <1>6. Busy' = Held(g, H) \cup (In(g, head) \cup ({c} \cap DataClusters))
    BY <1>1, <1>4, SeenStays DEF SeenIn, Busy, Work
  <1>7. CASE copy # 1
    <2>1. g = f /\ c = cl
      BY <1>2, <1>3, <1>7 DEF FirstCopy
    <2> QED BY <1>1, <1>2, <1>3, <1>4, <1>5, <1>6, <1>7, <2>1 DEF SeenIn
  <1>8. CASE copy = 1
    <2>1. Except(f, c, EOC, g) /\ f[c] = Free
      BY <1>2, <1>3, <1>8 DEF FirstCopy, Except
    <2>2. Acyclic(g)
      BY <1>1, <1>2, <1>3, <2>1, FatMarked DEF SeenIn, FatOK
    <2>3. ASSUME NEW h, h = 0 \/ h \in DataClusters, \A b \in In(f, h) : f[b] # Free
          PROVE  In(g, h) = In(f, h)
      <3>1. CASE h = 0
        BY <3>1, NoChain
      <3>2. CASE h \in DataClusters
        <4>1. \A b \in In(f, h) : g[b] = f[b]
          BY <1>2, <2>1, <2>3, <3>2, InFacts DEF Except
        <4> QED BY <1>2, <1>3, <2>2, <3>2, <4>1, ChainFrame
      <3> QED BY <2>3, <3>1, <3>2
    <2>4. /\ \A h \in H : \A b \in In(f, h) : f[b] # Free
          /\ \A b \in In(f, head) : f[b] # Free
          /\ head = 0 \/ head \in DataClusters
      BY <1>0, <1>1, <1>2, BusyTaken
    <2>5. Held(g, H) = Held(f, H)
      <3>1. \A h \in H : In(g, h) = In(f, h)
        BY <1>1, <2>3, <2>4 DEF SeenIn
      <3> QED BY <3>1, HeldSame
    <2>6. In(g, head) = In(f, head)
      BY <2>3, <2>4
    <2>7. Busy' = Busy \cup ({c} \cap DataClusters)
      BY <1>4, <1>5, <1>6, <1>8, <2>5, <2>6
    <2> QED BY <1>1, <1>2, <1>3, <1>4, <1>8, <2>1, <2>7 DEF SeenIn
  <1> QED BY <1>7, <1>8

\* One write of write_fat_entry(prev, c): the new cluster joins its chain.
LEMMA LinkBusy ==
    ASSUME DiskInv, TreeInv, DiskInv', TreeInv', Unharmed, Works, LinkWrite
    PROVE  /\ Busy' = Busy /\ cl' = cl
           /\ \A b \in Clusters : fat'[1][b] = Free <=> fat[1][b] = Free
  <1>0. Active /\ op' = op
    BY DEF Works
  <1>1. PICK T, X, f, d, H, g, c, t, k, par :
           /\ SeenIn(T, X, f, d, H) /\ g = fat'[1] /\ c = cl /\ t = tail /\ k = head
           /\ par = op.parent
    BY <1>0, SeenFacts
  <1>2. /\ f \in Fats /\ d \in DataAreas /\ FatOK(f) /\ Acyclic(f)
        /\ k \in {0} \cup DataClusters /\ growing \in BOOLEAN
        /\ t \in DataClusters /\ pc = "link" /\ c \in DataClusters /\ c \in Clusters
        /\ t \in Clusters /\ copy \in 1..NumFats /\ ~Clearing /\ Fresh
        /\ EOC # Free /\ EOC \notin DataClusters /\ Free \notin DataClusters
    <2>1. t \in DataClusters /\ pc = "link" /\ c \in DataClusters
      BY <1>1, LinkEffect
    <2>2. growing \in BOOLEAN
      BY DEF DiskInv, TypeInv
    <2> QED BY <1>1, <2>1, <2>2, At1, Numbers DEF SeenIn, Clearing, Fresh
  <1>3. g \in Fats /\ FirstCopy(f, copy, t, c, g)
    <2>1. fat' \in [1..NumFats -> Fats] /\ 1 \in 1..NumFats
      BY LinkEffect, Numbers
    <2> QED BY <1>1, <2>1, LinkEffect DEF SeenIn
  <1>4. /\ UNCHANGED <<data, op, cl, head>>
        /\ \/ pc' = "link"
           \/ pc' \in {"mark", "allocinfo"} /\ copy' = 1
    BY <1>2, LinkEffect DEF LinkWrite, Linked, histVars
  <1>5. /\ k # 0 => Loose(f, d, X, k)
        /\ copy = 1 => Loose(f, d, X, c) /\ c # k
        /\ f[c] = EOC
        /\ growing => t \in In(f, par) /\ f[t] = IF copy > 1 THEN c ELSE EOC
    BY <1>0, <1>1, <1>2 DEF SeenIn, StructInv, MakeInv
  <1>6. ~growing => /\ k \in DataClusters /\ t \in In(f, k) /\ t # c
                    /\ f[t] = IF copy > 1 THEN c ELSE EOC
    <2> SUFFICES ASSUME ~growing
                 PROVE  /\ k \in DataClusters /\ t \in In(f, k) /\ t # c
                        /\ f[t] = IF copy > 1 THEN c ELSE EOC
      OBVIOUS
    <2>1. PICK s \in Seq(DataClusters) : Building(s)
      BY <1>2 DEF DiskInv, BuildInv
    <2>2. /\ \A i \in 1..(Len(s) - 1) : f[s[i]] = s[i + 1]
          /\ Len(s) = cnt /\ cnt > 0 /\ t = s[cnt] /\ k = s[1]
          /\ \A i \in 1..Len(s) : s[i] # c
          /\ f[s[Len(s)]] = IF copy > 1 THEN c ELSE EOC
      BY <1>1, <1>2, <2>1 DEF SeenIn, Building
    <2>3. Len(s) \in Nat /\ Len(s) >= 1 /\ Len(s) \in 1..Len(s)
      BY <2>2
    <2>4. Run(f, k, s)
      BY <2>2, <2>3 DEF Run
    <2> QED BY <1>2, <2>2, <2>3, <2>4, RunIn
  <1>7. par \in H /\ par \in DataClusters /\ par # 0
    <2>1. par \in DataClusters
      BY <1>0, <1>1 DEF DiskInv, OpInv, Active, Sound
    <2> QED BY <1>1, <2>1, Numbers DEF SeenIn
  <1>8. Busy = Held(f, H) \cup (In(f, k) \cup {c})
    BY <1>1, <1>2 DEF SeenIn, Busy, Work
  <1>9. Busy' = Held(g, H) \cup (In(g, k) \cup (IF Fresh' THEN {c} ELSE {}))
    BY <1>1, <1>2, <1>4, SeenStays DEF SeenIn, Busy, Work
  <1>10. CASE copy # 1
    <2>1. g = f /\ copy > 1
      BY <1>2, <1>3, <1>10, Numbers DEF FirstCopy
    <2>2. c \in Held(f, H) \cup In(f, k)
      <3>1. CASE growing
        <4>1. c \in In(f, par)
          BY <1>2, <1>5, <1>7, <2>1, <3>1, InFacts
        <4> QED BY <1>7, <4>1 DEF Held
      <3>2. CASE ~growing
        BY <1>2, <1>6, <2>1, <3>2, InFacts
      <3> QED BY <1>2, <3>1, <3>2
    <2> QED BY <1>1, <1>4, <1>8, <1>9, <2>1, <2>2 DEF SeenIn
  <1>11. CASE copy = 1
    <2>1. Except(f, t, c, g) /\ Loose(f, d, X, c) /\ c # k /\ NoPred(f, c)
      BY <1>3, <1>5, <1>11 DEF FirstCopy, Except, Loose
    <2>2. f[t] = EOC /\ t # c
      <3>1. CASE growing
        <4>1. c \notin In(f, par)
          BY <1>1, <1>7, <2>1, LooseHeads DEF SeenIn
        <4> QED BY <1>5, <1>11, <3>1, <4>1
      <3>2. CASE ~growing
        BY <1>6, <1>11, <3>2
      <3> QED BY <1>2, <3>1, <3>2
    <2>3. Acyclic(g)
      BY <1>2, <1>3, <1>5, <2>1, <2>2, FatLinked DEF FatOK
    <2>4. g[t] = c /\ g[c] = EOC /\ \A b \in Clusters : b # t => g[b] = f[b]
      BY <1>2, <1>5, <2>1, <2>2 DEF Except
    <2>5. ASSUME NEW h, h = 0 \/ h \in DataClusters, t \notin In(f, h)
          PROVE  In(g, h) = In(f, h)
      <3>1. CASE h = 0
        BY <3>1, NoChain
      <3>2. CASE h \in DataClusters
        <4>1. \A b \in In(f, h) : g[b] = f[b]
          BY <1>2, <2>4, <2>5, <3>2, InFacts
        <4> QED BY <1>2, <1>3, <2>3, <3>2, <4>1, ChainFrame
      <3> QED BY <2>5, <3>1, <3>2
    <2>6. ASSUME NEW h \in DataClusters, t \in In(f, h), c \notin In(f, h)
          PROVE  In(g, h) = In(f, h) \cup {c}
      <3>1. \A b \in In(f, h) : b # t => g[b] = f[b]
        BY <1>2, <2>4, InFacts
      <3> QED BY <1>2, <1>3, <2>2, <2>3, <2>4, <2>6, <3>1, ChainGrows
    <2>7. /\ \A h \in H : h = 0 \/ h \in DataClusters
          /\ \A h \in H : h \in Heads(d, X)
          /\ \A h \in H : c \notin In(f, h)
      BY <1>1, <2>1, LooseHeads, NoChain DEF SeenIn
    <2>8. CASE growing
      <3>1. t \in In(f, par) /\ In(g, par) = In(f, par) \cup {c}
        BY <1>5, <1>7, <2>6, <2>7, <2>8
      <3>2. \A h \in H : h # par => In(g, h) = In(f, h)
        <4>1. ASSUME NEW h \in H, h # par, t \in In(f, h) PROVE FALSE
          <5>1. h # 0
            BY <4>1, NoChain
          <5>2. In(f, h) \cap In(f, par) = {}
            <6>1. \A a, b \in Heads(d, X) : a # 0 /\ b # 0 /\ a # b => In(f, a) \cap In(f, b) = {}
              BY <1>1, Structure DEF SeenIn
            <6> QED BY <1>7, <2>7, <4>1, <5>1, <6>1
          <5> QED BY <3>1, <4>1, <5>2
        <4> QED BY <2>5, <2>7, <4>1
      <3>3. Held(g, H) = Held(f, H) \cup {c}
        BY <1>7, <3>1, <3>2 DEF Held
      <3>4. In(g, k) = In(f, k)
        <4>1. CASE k = 0
          BY <4>1, NoChain
        <4>2. CASE k # 0
          <5>1. In(f, k) \cap In(f, par) = {}
            BY <1>1, <1>2, <1>5, <1>7, <2>7, <4>2, LooseApart DEF SeenIn
          <5> QED BY <1>2, <2>5, <3>1, <5>1
        <4> QED BY <4>1, <4>2
      <3>5. Busy' = Busy
        BY <1>8, <1>9, <3>3, <3>4
      <3> QED BY <1>1, <1>2, <1>4, <2>2, <2>4, <3>5 DEF SeenIn
    <2>9. CASE ~growing
      <3>1. k \in DataClusters /\ t \in In(f, k) /\ k # 0
        BY <1>6, <2>9, Numbers
      <3>2. c \notin In(f, k)
        BY <1>2, <2>1, <3>1, LooseOut
      <3>3. In(g, k) = In(f, k) \cup {c}
        BY <2>6, <3>1, <3>2
      <3>4. \A h \in H : t \notin In(f, h)
        <4>1. \A h \in Heads(d, X) : h # 0 => In(f, k) \cap In(f, h) = {}
          BY <1>1, <1>5, <3>1, LooseApart DEF SeenIn
        <4> QED BY <2>7, <3>1, <4>1, NoChain
      <3>5. Held(g, H) = Held(f, H)
        <4>1. \A h \in H : In(g, h) = In(f, h)
          BY <2>5, <2>7, <3>4
        <4> QED BY <4>1, HeldSame
      <3>6. Busy' = Busy
        BY <1>8, <1>9, <3>3, <3>5
      <3> QED BY <1>1, <1>2, <1>4, <2>2, <2>4, <3>6 DEF SeenIn
    <2> QED BY <1>2, <2>8, <2>9
  <1> QED BY <1>10, <1>11

\* The steps that write no FAT entry take nothing and free nothing.
LEMMA OtherBusy ==
    ASSUME DiskInv, TreeInv, DiskInv', TreeInv', Unharmed, Works,
           \/ Deletes \/ ZeroCluster \/ WriteCluster \/ AddDirEntry \/ GrowDir
           \/ \E ok \in BOOLEAN : FreeInfo(ok) \/ AllocInfo(ok)
    PROVE  Busy' = Busy /\ fat' = fat
  <1>0. Active /\ op' = op
    BY DEF Works
  <1>1. PICK T, X, f, d, H : SeenIn(T, X, f, d, H)
    BY <1>0, SeenFacts
  <1>2. fat' = fat /\ pc # "free" /\ pc' # "free"
    BY DEF Deletes, ZeroCluster, WriteCluster, AddDirEntry, GrowDir, FreeInfo, AllocInfo,
           AfterFree, AfterDelete, Linked, diskVars
  <1>3. SUFFICES Work' = Work
    BY <1>1, <1>2, SeenStays DEF SeenIn, Busy
  <1>4. copy > 1 => pc \in {"free", "mark", "link", "failed"}
    BY DEF DiskInv, PhaseInv
  <1>5. CASE \/ Deletes \/ WriteCluster \/ AddDirEntry \/ GrowDir
             \/ \E ok \in BOOLEAN : FreeInfo(ok) \/ AllocInfo(ok)
    <2>1. head' = head /\ ~Fresh /\ ~Fresh'
      BY <1>4, <1>5 DEF Deletes, WriteCluster, AddDirEntry, GrowDir, FreeInfo, AllocInfo,
                        AfterFree, AfterDelete, regVars, Fresh
    <2> QED BY <1>2, <2>1 DEF Work
  <1>6. CASE ZeroCluster
    <2>1. /\ pc = "zero" /\ cl \in DataClusters /\ cl' = cl /\ Fresh /\ ~(copy > 1) /\ copy' = copy
          /\ growing \in BOOLEAN /\ EOC \notin DataClusters
      <3>1. cl \in Clusters
        BY <1>6 DEF ZeroCluster, DiskInv, PhaseInv
      <3> QED BY <1>4, <1>6, <3>1, Numbers
              DEF ZeroCluster, DiskInv, TypeInv, Fresh, Clusters, DataClusters
    <2>2. CASE tail # 0
      <3>1. pc' = "link" /\ head' = head
        BY <1>6, <2>2 DEF ZeroCluster
      <3> QED BY <1>2, <2>1, <3>1 DEF Work, Fresh
    <2>3. CASE tail = 0
      <3>1. head' = cl /\ pc' \in {"allocinfo", "mark"}
        BY <1>6, <2>3 DEF ZeroCluster, Linked
      <3>2. ~growing
        BY <2>1, <2>3, Numbers DEF DiskInv, PhaseInv
      <3>3. PICK s \in Seq(DataClusters) : Building(s)
        BY <2>1, <3>2 DEF DiskInv, BuildInv
      <3>4. head = 0
        <4>1. Len(s) = cnt /\ (IF cnt = 0 THEN head = 0 /\ tail = 0 ELSE tail = s[cnt])
          BY <2>1, <3>3 DEF Building
        <4>2. CASE cnt # 0
          <5>1. cnt \in 1..Len(s)
            BY <4>1, <4>2
          <5>2. tail \in DataClusters
            BY <4>1, <4>2, <5>1
          <5> QED BY <2>3, <5>2, Numbers
        <4> QED BY <4>1, <4>2
      <3>5. fat[1][cl] = EOC
        BY <2>1 DEF DiskInv, PhaseInv
      <3>6. In(fat[1], cl) = {cl} /\ In(fat[1], head) = {}
        BY <1>1, <2>1, <3>4, <3>5, ChainOne, NoChain DEF SeenIn
      <3>7. ~Fresh'
        BY <2>1, <3>1 DEF Fresh
      <3> QED BY <1>2, <2>1, <3>1, <3>6, <3>7 DEF Work
    <2> QED BY <2>2, <2>3
  <1> QED BY <1>5, <1>6

\* Counting sets of data clusters.
LEMMA DataSets ==
    /\ \A S : S \subseteq DataClusters => IsFiniteSet(S) /\ Cardinality(S) \in Nat
    /\ \A S, c : S \subseteq DataClusters =>
          Cardinality(S \ {c}) = IF c \in S THEN Cardinality(S) - 1 ELSE Cardinality(S)
    /\ \A S, c : S \subseteq DataClusters => Cardinality(S \cup {c}) <= Cardinality(S) + 1
    /\ \A S, R : S \subseteq DataClusters /\ R \subseteq S => Cardinality(R) <= Cardinality(S)
    /\ \A S, R : S \subseteq DataClusters /\ R \subseteq DataClusters /\ S \cap R = {} =>
          Cardinality(S \cup R) = Cardinality(S) + Cardinality(R)
    /\ Cardinality(DataClusters) = LastData - 1
  <1>1. IsFiniteSet(DataClusters) /\ Cardinality(DataClusters) = LastData - 1
    <2>1. 2 \in Int /\ LastData \in Int /\ ~(2 > LastData)
      BY Numbers, FatAssumption DEF Root
    <2> QED BY <2>1, FS_Interval DEF DataClusters
  <1>2. \A S : S \subseteq DataClusters => IsFiniteSet(S) /\ Cardinality(S) \in Nat
    BY <1>1, FS_Subset, FS_CardinalityType
  <1>3. ASSUME NEW S, NEW c, S \subseteq DataClusters
        PROVE  Cardinality(S \ {c}) = IF c \in S THEN Cardinality(S) - 1 ELSE Cardinality(S)
    BY <1>2, <1>3, FS_RemoveElement
  <1>4. ASSUME NEW S, NEW c, S \subseteq DataClusters
        PROVE  Cardinality(S \cup {c}) <= Cardinality(S) + 1
    <2>1. IsFiniteSet(S) /\ Cardinality(S) \in Nat
      BY <1>2, <1>4
    <2>2. Cardinality(S \cup {c}) = IF c \in S THEN Cardinality(S) ELSE Cardinality(S) + 1
      BY <2>1, FS_AddElement
    <2> QED BY <2>1, <2>2
  <1>5. ASSUME NEW S, NEW R, S \subseteq DataClusters, R \subseteq S
        PROVE  Cardinality(R) <= Cardinality(S)
    BY <1>2, <1>5, FS_Subset
  <1>6. ASSUME NEW S, NEW R, S \subseteq DataClusters, R \subseteq DataClusters, S \cap R = {}
        PROVE  Cardinality(S \cup R) = Cardinality(S) + Cardinality(R)
    <2>1. IsFiniteSet(S) /\ Cardinality(S) \in Nat /\ IsFiniteSet(R) /\ Cardinality(R) \in Nat
      BY <1>2, <1>6
    <2>2. Cardinality(S \cup R) = Cardinality(S) + Cardinality(R) - Cardinality(S \cap R)
      BY <2>1, FS_Union
    <2> QED BY <1>6, <2>1, <2>2, FS_EmptySet
  <1> QED BY <1>1, <1>2, <1>3, <1>4, <1>5, <1>6

\* A chain has as many clusters as it is long.
LEMMA ChainCount ==
    ASSUME NEW f \in Fats, Acyclic(f), NEW h \in DataClusters
    PROVE  Cardinality(In(f, h)) = Len(ChainIn(f, h))
  <1>1. PICK s, n : s = ChainIn(f, h) /\ n = Len(s)
    OBVIOUS
  <1>2. Run(f, h, s)
    BY <1>1, ChainEnds
  <1>3. s \in Seq(DataClusters) /\ n \in Nat /\ DOMAIN s = 1..n
    BY <1>1, <1>2 DEF Run
  <1>4. \A i, j \in 1..n : s[i] = s[j] => i = j
    BY <1>1, <1>2, RunDistinct
  <1>5. In(f, h) = {s[i] : i \in 1..n}
    BY <1>1, <1>3 DEF In, RangeOf
  <1>6. s \in Bijection(1..n, In(f, h))
    <2>1. s \in [1..n -> In(f, h)]
      BY <1>3, <1>5
    <2> QED BY <1>4, <1>5, <2>1 DEF Bijection, Injection, Surjection, IsInjective
  <1>7. ExistsBijection(1..n, In(f, h))
    BY <1>6 DEF ExistsBijection
  <1>8. IsFiniteSet(1..n) /\ Cardinality(1..n) = n
    BY <1>3, FS_Interval
  <1>9. Cardinality(In(f, h)) = n
    BY <1>7, <1>8, FS_Bijection
  <1> QED BY <1>1, <1>9

\* The target counts with the rest as long as its entry is there.
LEMMA SeenSplit ==
    ASSUME NEW f, NEW d, NEW p0 \in Seq(Names), p0 # <<>>
    PROVE  Held(f, Seen(f, d, <<>>)) =
              Held(f, Seen(f, d, p0)) \cup
                 (IF LookIn(f, d, p0).k = "error" THEN {} ELSE In(f, LookIn(f, d, p0).cluster))
  <1>1. PICK u : u = LookIn(f, d, p0)
    OBVIOUS
  <1>2. u.k = "error" => Seen(f, d, <<>>) = Seen(f, d, p0)
    BY <1>1 DEF Seen
  <1>3. u.k # "error" => Seen(f, d, <<>>) = Seen(f, d, p0) \cup {u.cluster}
    BY <1>1 DEF Seen
  <1> QED BY <1>1, <1>2, <1>3 DEF Held

\* Whatever a directory entry owns can be found along some path.
LEMMA OwnedSeen ==
    ASSUME DiskInv, TreeInv
    PROVE  Owned \subseteq Held(fat[1], Seen(fat[1], data, <<>>))
  <1>1. PICK T, X, f, d, H : /\ StructInv(T, X) /\ f = fat[1] /\ d = data
                             /\ H = Seen(f, d, <<>>)
    BY DEF TreeInv
  <1>2. f \in Fats /\ d \in DataAreas /\ FatOK(f) /\ Acyclic(f) /\ Tree(f, d, T, X)
    BY <1>1, At1 DEF TreeInv, FatOK, StructInv
  <1>3. ASSUME NEW e \in LiveEntries PROVE e.cluster \in H
    <2>1. PICK x \in EntrySlots(d) : e = At(d, x)
      BY <1>1, <1>2, LiveHeld
    <2>2. \A y \in EntrySlots(d) : \E p \in DOMAIN T : y \in Holds(f, d, T[p])
      BY <1>2 DEF Tree
    <2>3. PICK p \in DOMAIN T : x \in Holds(f, d, T[p])
      BY <2>2
    <2>4. T[p] \in DataClusters /\ DirOK(f, d, T[p]) /\ p \in Seq(Names)
      BY <1>2 DEF Tree
    <2>5. PICK m : m = e.name /\ m \in Names /\ e.k = "entry"
      BY <1>2, <2>1, EntryAt
    <2>6. FindIn(f, d, T[p], m) = e
      BY <1>2, <2>1, <2>3, <2>4, <2>5, FindBy
    <2>7. PICK q : q = Append(p, m)
      OBVIOUS
    <2>8. q \in Seq(Names) /\ q # <<>> /\ Parent(q) = p /\ Last(q) = m
      BY <2>4, <2>5, <2>7, PathSplit
    <2>9. LookIn(f, d, p).k = "entry" /\ LookIn(f, d, p).dir /\ LookIn(f, d, p).cluster = T[p]
      BY <1>2, LookTable
    <2>10. LookIn(f, d, q) = EnterIn(f, d, LookIn(f, d, p), m)
      BY <1>2, <2>8, LookChild
    <2>11. LookIn(f, d, q) = e
      BY <2>6, <2>9, <2>10 DEF EnterIn
    <2> QED BY <1>1, <2>5, <2>8, <2>11 DEF Seen
  <1>4. \A h : RangeOf(Chain(h)) = In(f, h)
    BY <1>1, ChainNow DEF In
  <1>5. Root \in H
    BY <1>1 DEF Seen
  <1>6. Owned \subseteq Held(f, H)
    BY <1>3, <1>4, <1>5 DEF Owned, Held
  <1> QED BY <1>1, <1>6

\* The clusters that FsInfo does not count yet, or counts although they have
\* been taken.
Half  == IF copy > 1 THEN 1 ELSE 0
Extra == IF Fresh /\ cl \in DataClusters THEN 1 ELSE 0
Credit ==
    IF pc = "free" THEN cnt + Half
    ELSE IF pc = "freeinfo" THEN cnt
    ELSE IF pc \in {"mark", "zero", "link", "allocinfo"} THEN 0 - (cnt + Extra)
    ELSE 0

\* Everything allocated is in use or was leaked by an earlier operation, and
\* FsInfo with what it is owed is between the free clusters and those not in use,
\* unless its count is unknown.
Taken(f) == {c \in DataClusters : f[c] # Free}
Tally(S, B, n) == Cardinality(S) <= n /\ Cardinality(B) + n <= LastData - 1
LeakInv ==
    /\ pc = "idle" => op = NoOp /\ head = 0
    /\ Busy \subseteq DataClusters
    /\ Taken(fat[1]) \subseteq Busy \cup orphans
    /\ freeInfo # Unknown => Tally(FreeData, Busy, freeInfo + Credit)

\* Between operations everything in use can be found.
LEMMA IdleBusy ==
    ASSUME pc = "idle", op = NoOp, head = 0
    PROVE  Busy = Held(fat[1], Seen(fat[1], data, <<>>))
  <1>1. op.path = <<>> /\ ~Fresh
    BY DEF NoOp, Fresh
  <1>2. Work = {}
    BY <1>1, NoChain DEF Work
  <1> QED BY <1>1, <1>2 DEF Busy

\* An operation takes nothing when it begins.
LEMMA BeginLeak ==
    ASSUME DiskInv, TreeInv, LeakInv, Begins
    PROVE  LeakInv'
  <1>1. PICK o \in Ops : /\ pc = "idle" /\ Start(o) /\ Sound(o) /\ Chosen(fat[1], data, o)
    BY DEF Begins
  <1>2. PICK f, d, p0, old, par : /\ f = fat[1] /\ d = data /\ p0 = o.path
                                  /\ old = FindIn(f, d, o.parent, Last(p0))
                                  /\ par = LookIn(f, d, Parent(p0))
    OBVIOUS
  <1>3. /\ UNCHANGED <<fat, data, freeInfo, orphans>> /\ op' = o /\ pc' = FirstPhase(o)
        /\ cl' = o.free /\ copy' = 1 /\ head' = 0 /\ cnt' = 0
    BY <1>1 DEF Start, diskVars, histVars
  <1>4. /\ f \in Fats /\ d \in DataAreas /\ p0 \in Seq(Names) /\ p0 # <<>>
        /\ o.free \in {0} \cup DataClusters /\ o.del \in BOOLEAN
    BY <1>1, <1>2, At1, PathFacts DEF Ops, Sound
  <1>5. /\ par.k # "error" /\ par.dir /\ par.cluster = o.parent
        /\ o.del <=> old.k # "error"
        /\ o.del => o.free = old.cluster
    BY <1>1, <1>2 DEF Chosen
  <1>6. LookIn(f, d, p0) = old
    BY <1>2, <1>4, <1>5, LookChild DEF EnterIn
  <1>7. ~o.del => o.free = 0
    BY <1>1 DEF Sound
  <1>8. Held(f, Seen(f, d, <<>>)) = Held(f, Seen(f, d, p0)) \cup In(f, o.free)
    <2>1. Held(f, Seen(f, d, <<>>)) = Held(f, Seen(f, d, p0)) \cup
             (IF old.k = "error" THEN {} ELSE In(f, old.cluster))
      BY <1>4, <1>6, SeenSplit
    <2>2. CASE o.del
      BY <1>5, <2>1, <2>2
    <2>3. CASE ~o.del
      BY <1>4, <1>5, <1>7, <2>1, <2>3, NoChain
    <2> QED BY <1>4, <2>2, <2>3
  <1>9. /\ pc' \in {"free", "delete", "mark", "add", "done"} /\ ~Fresh'
        /\ pc' = "free" <=> o.free # 0
    <2>1. IsCluster(o.free) <=> o.free # 0
      BY <1>4, Numbers DEF IsCluster
    <2>2. /\ pc' \in {"free", "delete", "mark", "add", "done"}
          /\ pc' = "free" <=> o.free # 0
      BY <1>3, <2>1 DEF FirstPhase, AfterFree, AfterDelete
    <2> QED BY <1>3, <2>2 DEF Fresh
  <1>10. Work' = In(f, o.free)
    <2>1. CASE pc' = "free"
      BY <1>2, <1>3, <2>1 DEF Work
    <2>2. CASE pc' # "free"
      BY <1>2, <1>3, <1>9, <2>2, NoChain DEF Work
    <2> QED BY <2>1, <2>2
  <1>11. Busy' = Held(f, Seen(f, d, p0)) \cup In(f, o.free)
    BY <1>2, <1>3, <1>10 DEF Busy
  <1>12. Busy' = Busy
    BY <1>1, <1>2, <1>8, <1>11, IdleBusy DEF LeakInv
  <1>13. Credit' = 0 /\ Credit = 0
    <2>1. pc' \in {"free", "mark", "delete", "add", "done"} /\ ~(copy' > 1)
      BY <1>3, <1>9
    <2>2. Credit' = 0
      <3>1. CASE pc' = "free"
        <4>1. Half' = 0
          BY <2>1 DEF Half
        <4> QED BY <1>3, <3>1, <4>1 DEF Credit
      <3>2. CASE pc' = "mark"
        <4>1. Extra' = 0
          BY <1>9 DEF Extra
        <4> QED BY <1>3, <3>2, <4>1 DEF Credit
      <3>3. CASE pc' \in {"delete", "add", "done"}
        BY <3>3 DEF Credit
      <3> QED BY <2>1, <3>1, <3>2, <3>3
    <2>3. Credit = 0
      BY <1>1 DEF Credit
    <2> QED BY <2>2, <2>3
  <1>14. FreeData' = FreeData
    BY <1>3 DEF FreeData
  <1> QED BY <1>3, <1>9, <1>12, <1>13, <1>14 DEF LeakInv

\* While the chain is built it has cnt clusters.
LEMMA BuiltCount ==
    ASSUME DiskInv, Acyclic(fat[1]), pc \in {"mark", "zero"}, ~growing, cnt > 0
    PROVE  head \in DataClusters /\ Cardinality(In(fat[1], head)) = cnt
  <1>1. PICK s \in Seq(DataClusters) : Building(s)
    BY DEF DiskInv, BuildInv
  <1>2. PICK f, h : f = fat[1] /\ h = head /\ f \in Fats
    BY At1
  <1>3. /\ \A i \in 1..(Len(s) - 1) : f[s[i]] = s[i + 1]
        /\ Len(s) = cnt /\ h = s[1] /\ f[s[Len(s)]] = EOC
    BY <1>1, <1>2 DEF Building
  <1>4. Len(s) \in Nat /\ Len(s) >= 1
    BY <1>3, At1
  <1>5. Run(f, h, s)
    BY <1>3, <1>4 DEF Run
  <1>6. Ends(f, s)
    BY <1>3, Numbers DEF Ends
  <1>7. h \in DataClusters /\ ChainIn(f, h) = s
    BY <1>2, <1>5, <1>6, ChainIs
  <1>8. Cardinality(In(f, h)) = cnt
    BY <1>2, <1>3, <1>7, ChainCount
  <1> QED BY <1>2, <1>7, <1>8

\* When an operation is done all it took can be found.
LEMMA DoneBusy ==
    ASSUME DiskInv, TreeInv, Unharmed, pc = "done"
    PROVE  Busy = Held(fat[1], Seen(fat[1], data, <<>>))
  <1>1. Active /\ ~Clearing /\ ~Fresh
    BY DEF Active, Clearing, Fresh
  <1>2. PICK T, X, f, d, H, p0, u : /\ SeenIn(T, X, f, d, H) /\ p0 = op.path
                                    /\ u = LookIn(f, d, p0)
    BY <1>1, SeenFacts
  <1>3. /\ FatOK(f) /\ f = fat[1] /\ d = data /\ H = Seen(f, d, p0)
        /\ p0 \in Seq(Names) /\ p0 # <<>> /\ op \in Ops /\ Sound(op)
    <2>1. Sound(op)
      BY <1>1 DEF DiskInv, OpInv, Active
    <2> QED BY <1>2, <2>1, At1 DEF SeenIn, Sound
  <1>4. Target(f, d, X, u)
    BY <1>1, <1>2, <1>3, TargetIs DEF SeenIn
  <1>5. Busy = Held(f, H) \cup In(f, head)
    BY <1>1, <1>2, <1>3 DEF Busy, Work
  <1>6. Held(f, Seen(f, d, <<>>)) =
           Held(f, H) \cup (IF u.k = "error" THEN {} ELSE In(f, u.cluster))
    BY <1>2, <1>3, SeenSplit
  <1>7. CASE op.add
    <2>1. u = Entry(Last(op.path), op.mkdir, head, Len(op.payload))
      BY <1>4, <1>7 DEF Target
    <2>2. u.k # "error" /\ u.cluster = head
      BY <2>1 DEF Entry
    <2> QED BY <1>3, <1>5, <1>6, <2>2
  <1>8. CASE ~op.add
    <2>1. u.k = "error"
      BY <1>1, <1>4, <1>8, FoundFacts DEF Target
    <2>2. op.need \in Nat /\ ~(op.need > 0)
      BY <1>3, <1>8, AfterFacts
    <2>3. head = 0
      BY <2>2 DEF DiskInv, PhaseInv
    <2> QED BY <1>3, <1>5, <1>6, <2>1, <2>3, NoChain
  <1> QED BY <1>7, <1>8

\* An operation that succeeds keeps all it took; one that gives up leaks what
\* it took, and FsInfo has not been told of that.
LEMMA ReturnLeak ==
    ASSUME DiskInv, TreeInv, Unharmed, LeakInv, NEW r, Returns(r)
    PROVE  LeakInv'
  <1>1. /\ pc \in {"mark", "zero", "done"} /\ (pc = "mark" => copy = 1)
        /\ (pc = "zero" => cl > LastData) /\ UNCHANGED <<fat, data, freeInfo>>
        /\ pc' = "idle" /\ op' = NoOp /\ head' = 0 /\ orphans' = Orphans
    BY DEF Returns, Return, Unharmed, diskVars
  <1>2. Active /\ ~Clearing
    BY <1>1 DEF Active, Clearing
  <1>3. PICK T, X, f, d, H, p0, u : /\ SeenIn(T, X, f, d, H) /\ p0 = op.path
                                    /\ u = LookIn(f, d, p0)
    BY <1>2, SeenFacts
  <1>4. /\ f \in Fats /\ d \in DataAreas /\ FatOK(f) /\ Acyclic(f) /\ f = fat[1] /\ d = data
        /\ H = Seen(f, d, p0) /\ p0 \in Seq(Names) /\ p0 # <<>> /\ cnt \in Nat
        /\ H \subseteq Heads(d, X) /\ (freeInfo # Unknown => freeInfo \in Nat)
    <2>1. p0 # <<>>
      BY <1>2, <1>3 DEF DiskInv, OpInv, Active, Sound
    <2>2. freeInfo # Unknown => freeInfo \in Nat
      BY DEF DiskInv, TypeInv
    <2> QED BY <1>3, <2>1, <2>2, At1 DEF SeenIn
  <1>5. Busy' = Held(f, Seen(f, d, <<>>))
    <2>1. ~Fresh' /\ op'.path = <<>>
      BY <1>1 DEF Fresh, NoOp
    <2>2. Work' = {}
      BY <1>1, <2>1, NoChain DEF Work
    <2> QED BY <1>1, <1>4, <2>1, <2>2 DEF Busy
  <1>6. Busy' = Held(f, H) \cup (IF u.k = "error" THEN {} ELSE In(f, u.cluster))
    BY <1>3, <1>4, <1>5, SeenSplit
  <1>7. Extra = 0 /\ Busy = Held(f, H) \cup In(f, head)
    <2>1. Fresh => cl \notin DataClusters
      BY <1>1, Numbers DEF Fresh, DataClusters
    <2> QED BY <1>1, <1>3, <1>4, <2>1 DEF Extra, Busy, Work
  <1>8. Target(f, d, X, u)
    BY <1>2, <1>3, <1>4, TargetIs DEF SeenIn
  <1>9. Taken(f) \subseteq Busy' \cup Orphans
    <2>1. Owned \subseteq Busy'
      BY <1>4, <1>5, OwnedSeen
    <2> QED BY <1>4, <2>1 DEF Taken, Orphans, DataClusters
  <1>10. FreeData' = FreeData /\ Credit' = 0
    BY <1>1 DEF FreeData, Credit
  <1>11. /\ Busy \subseteq DataClusters
         /\ freeInfo # Unknown => Tally(FreeData, Busy, freeInfo + Credit)
    BY DEF LeakInv
  <1>12. CASE pc = "done"
    <2>1. Credit = 0
      BY <1>12 DEF Credit
    <2>2. Busy' = Busy
      BY <1>4, <1>5, <1>12, DoneBusy
    <2>3. freeInfo # Unknown => Tally(FreeData, Busy, freeInfo)
      BY <1>4, <1>11, <2>1
    <2>4. (freeInfo # Unknown => Tally(FreeData, Busy, freeInfo + Credit))'
      BY <1>1, <1>4, <1>10, <2>2, <2>3
    <2> QED BY <1>1, <1>4, <1>9, <1>11, <2>2, <2>4 DEF LeakInv
  <1>13. CASE pc # "done"
    <2>1. pc \in {"mark", "zero"} /\ Credit = 0 - cnt
      <3>1. pc \in {"mark", "zero"}
        BY <1>1, <1>13
      <3> QED BY <1>4, <1>7, <3>1 DEF Credit
    <2>2. u.k = "error"
      BY <1>2, <1>8, <1>13, FoundFacts DEF Target
    <2>3. PICK B : B = Held(f, H) /\ Busy' = B /\ Busy = B \cup In(f, head)
      BY <1>6, <1>7, <2>2
    <2>4. B \subseteq Busy /\ B \subseteq DataClusters /\ In(f, head) \subseteq DataClusters
      BY <1>11, <2>3
    <2>5. Cardinality(B) + cnt <= Cardinality(Busy)
      <3>1. CASE cnt = 0
        BY <1>11, <2>4, <3>1, DataSets
      <3>2. CASE cnt > 0
        <4>1. ~growing
          BY <2>1, <3>2 DEF DiskInv, PhaseInv
        <4>2. head \in DataClusters /\ Cardinality(In(f, head)) = cnt
          BY <1>4, <2>1, <3>2, <4>1, BuiltCount
        <4>3. Loose(f, d, X, head)
          <5>1. head # 0
            BY <4>2, Numbers
          <5> QED BY <1>2, <1>3, <1>13, <5>1, BusyTaken
        <4>4. In(f, head) \cap B = {}
          <5>1. \A h \in Heads(d, X) : h # 0 => In(f, head) \cap In(f, h) = {}
            BY <1>3, <1>4, <4>2, <4>3, LooseApart DEF SeenIn
          <5>2. \A h \in H : In(f, head) \cap In(f, h) = {}
            BY <1>4, <5>1, NoChain
          <5> QED BY <2>3, <5>2 DEF Held
        <4>5. Cardinality(B \cup In(f, head)) = Cardinality(B) + cnt
          BY <2>4, <4>2, <4>4, DataSets
        <4>6. Cardinality(B) \in Nat
          BY <2>4, DataSets
        <4> QED BY <1>4, <2>3, <4>5, <4>6
      <3> QED BY <1>4, <3>1, <3>2
    <2>6. ASSUME freeInfo # Unknown PROVE Tally(FreeData, B, freeInfo)
      <3>1. FreeData \subseteq DataClusters
        BY DEF FreeData, DataClusters
      <3>2. Cardinality(FreeData) \in Nat /\ Cardinality(B) \in Nat /\ Cardinality(Busy) \in Nat
        BY <1>11, <2>4, <3>1, DataSets
      <3>3. freeInfo \in Nat /\ cnt \in Nat
        BY <1>4, <2>6
      <3>4. Tally(FreeData, Busy, freeInfo + (0 - cnt))
        BY <1>11, <2>1, <2>6
      <3> QED BY <2>5, <3>2, <3>3, <3>4, Numbers DEF Tally
    <2>7. (freeInfo # Unknown => Tally(FreeData, Busy, freeInfo + Credit))'
      BY <1>1, <1>4, <1>10, <2>3, <2>6
    <2> QED BY <1>1, <1>4, <1>9, <2>3, <2>4, <2>7 DEF LeakInv
  <1> QED BY <1>12, <1>13

\* What the count needs of a step in the middle of an operation.
LEMMA TallySteps ==
    ASSUME Works, orphans' = orphans, Busy' \subseteq DataClusters,
           Taken(fat'[1]) \subseteq Busy' \cup orphans,
           freeInfo' # Unknown => Tally(FreeData', Busy', freeInfo' + Credit')
    PROVE  LeakInv'
  <1>1. pc' # "idle"
    BY DEF Works, Active
  <1> QED BY <1>1 DEF LeakInv

\* free_chain: what it has freed is owed to FsInfo.
LEMMA FreeLeak ==
    ASSUME DiskInv, TreeInv, DiskInv', TreeInv', Unharmed, Works, LeakInv, FreeWrite
    PROVE  LeakInv'
  <1>1. /\ copy = 1 => cl \in Busy /\ Busy' = Busy \ {cl}
        /\ copy # 1 => Busy' = Busy
        /\ FirstCopy(fat[1], copy, cl, Free, fat'[1]) /\ cl \in DataClusters
    BY FreeBusy
  <1>2. /\ pc = "free" /\ orphans' = orphans /\ freeInfo' = freeInfo
        /\ \/ copy' = copy + 1 /\ cnt' = cnt /\ pc' = "free"
           \/ copy' = 1 /\ cnt' = cnt + 1 /\ pc' \in {"free", "freeinfo"}
    BY DEF FreeWrite, histVars
  <1>3. /\ Busy \subseteq DataClusters /\ Taken(fat[1]) \subseteq Busy \cup orphans
        /\ freeInfo # Unknown => Tally(FreeData, Busy, freeInfo + Credit)
    BY DEF LeakInv
  <1>4. copy \in 1..NumFats /\ cnt \in Nat /\ (freeInfo # Unknown => freeInfo \in Nat)
    BY At1 DEF DiskInv, TypeInv
  <1>5. Credit = cnt + (IF copy = 1 THEN 0 ELSE 1)
    <2>1. copy > 1 <=> copy # 1
      BY <1>4, Numbers
    <2>2. Half = IF copy = 1 THEN 0 ELSE 1
      BY <2>1 DEF Half
    <2> QED BY <1>2, <2>2 DEF Credit
  <1>6. Credit' = cnt + 1
    <2>1. CASE copy' = copy + 1 /\ cnt' = cnt /\ pc' = "free"
      <3>1. copy' > 1
        BY <1>4, <2>1, Numbers
      <3>2. Half' = 1
        BY <3>1 DEF Half
      <3> QED BY <2>1, <3>2 DEF Credit
    <2>2. CASE copy' = 1 /\ cnt' = cnt + 1 /\ pc' \in {"free", "freeinfo"}
      <3>1. Half' = 0
        BY <2>2 DEF Half
      <3> QED BY <1>4, <2>2, <3>1 DEF Credit
    <2> QED BY <1>2, <2>1, <2>2
  <1>7. PICK S, S2, B, B2, f, g, c : /\ S = FreeData /\ S2 = FreeData' /\ B = Busy /\ B2 = Busy'
                                     /\ f = fat[1] /\ g = fat'[1] /\ c = cl
    OBVIOUS
  <1>8. S = {b \in DataClusters : f[b] = Free} /\ S2 = {b \in DataClusters : g[b] = Free}
    BY <1>7 DEF FreeData, DataClusters
  <1>9. c \in Clusters /\ DataClusters \subseteq Clusters
    BY <1>1, <1>7, Numbers
  <1>10. Cardinality(S) \in Nat /\ Cardinality(B) \in Nat
    BY <1>3, <1>7, <1>8, DataSets
  <1>11. CASE copy = 1
    <2>1. g[c] = Free /\ \A b \in Clusters : b # c => g[b] = f[b]
      BY <1>1, <1>7, <1>11 DEF FirstCopy
    <2>2. S2 = S \cup {c} /\ Taken(g) = Taken(f) \ {c} /\ B2 = B \ {c} /\ c \in B
      BY <1>1, <1>7, <1>8, <1>9, <1>11, <2>1 DEF Taken
    <2>3. Cardinality(S2) <= Cardinality(S) + 1 /\ Cardinality(B2) = Cardinality(B) - 1
      BY <1>3, <1>7, <1>8, <2>2, DataSets
    <2>4. Cardinality(S2) \in Nat /\ Cardinality(B2) \in Nat
      <3>1. S2 \subseteq DataClusters /\ B2 \subseteq DataClusters
        BY <1>3, <1>7, <1>8, <2>2
      <3> QED BY <3>1, DataSets
    <2>5. ASSUME freeInfo # Unknown PROVE Tally(S2, B2, freeInfo + (cnt + 1))
      <3>1. Credit = cnt
        BY <1>4, <1>5, <1>11
      <3>2. Tally(S, B, freeInfo + cnt)
        BY <1>3, <1>7, <2>5, <3>1
      <3> QED BY <1>4, <1>10, <2>3, <2>4, <2>5, <3>2, Numbers DEF Tally
    <2> QED BY <1>2, <1>3, <1>6, <1>7, <2>2, <2>5, TallySteps
  <1>12. CASE copy # 1
    <2>1. g = f /\ B2 = B
      BY <1>1, <1>7, <1>12 DEF FirstCopy
    <2>2. Credit' = Credit /\ S2 = S
      BY <1>5, <1>6, <1>8, <1>12, <2>1
    <2> QED BY <1>2, <1>3, <1>7, <2>1, <2>2, TallySteps
  <1> QED BY <1>11, <1>12

\* write_fat_entry(c, EOC): FsInfo has one cluster too many.
LEMMA MarkLeak ==
    ASSUME DiskInv, TreeInv, DiskInv', TreeInv', Unharmed, Works, LeakInv, MarkEoc
    PROVE  LeakInv'
  <1>1. /\ copy = 1 => Busy' = Busy \cup ({cl'} \cap DataClusters) /\ fat[1][cl'] = Free
        /\ copy # 1 => Busy' = Busy /\ cl' = cl /\ fat'[1] = fat[1]
        /\ FirstCopy(fat[1], copy, cl', EOC, fat'[1]) /\ cl' \in Clusters
        /\ Fresh' /\ (Fresh <=> copy # 1)
    BY MarkBusy
  <1>2. /\ pc = "mark" /\ orphans' = orphans /\ freeInfo' = freeInfo
        /\ pc' \in {"mark", "zero"} /\ cnt' = cnt
    BY DEF MarkEoc
  <1>3. /\ Busy \subseteq DataClusters /\ Taken(fat[1]) \subseteq Busy \cup orphans
        /\ freeInfo # Unknown => Tally(FreeData, Busy, freeInfo + Credit)
    BY DEF LeakInv
  <1>4. copy \in 1..NumFats /\ cnt \in Nat /\ (freeInfo # Unknown => freeInfo \in Nat)
    BY At1 DEF DiskInv, TypeInv
  <1>5. Credit = 0 - (cnt + Extra) /\ Credit' = 0 - (cnt + Extra')
    BY <1>2 DEF Credit
  <1>6. PICK S, S2, B, B2, f, g, c : /\ S = FreeData /\ S2 = FreeData' /\ B = Busy /\ B2 = Busy'
                                     /\ f = fat[1] /\ g = fat'[1] /\ c = cl'
    OBVIOUS
  <1>7. S = {b \in DataClusters : f[b] = Free} /\ S2 = {b \in DataClusters : g[b] = Free}
    BY <1>6 DEF FreeData, DataClusters
  <1>8. Extra' = IF c \in DataClusters THEN 1 ELSE 0
    BY <1>1, <1>6 DEF Extra
  <1>9. Cardinality(S) \in Nat /\ Cardinality(B) \in Nat
    BY <1>3, <1>6, <1>7, DataSets
  <1>10. CASE copy = 1
    <2>0. Extra = 0
      BY <1>1, <1>10 DEF Extra
    <2>1. /\ f[c] = Free /\ g[c] = EOC /\ EOC # Free
          /\ \A b \in Clusters : b # c => g[b] = f[b]
      BY <1>1, <1>6, <1>10, Numbers DEF FirstCopy
    <2>2. CASE c \in DataClusters
      <3>1. /\ S2 = S \ {c} /\ c \in S /\ B2 = B \cup {c}
            /\ Taken(g) \subseteq Taken(f) \cup {c}
        <4>1. c \in S /\ S2 = S \ {c}
          BY <1>7, <2>1, <2>2, Numbers
        <4>2. B2 = B \cup {c}
          BY <1>1, <1>6, <1>10, <2>2
        <4>3. Taken(g) \subseteq Taken(f) \cup {c}
          BY <2>1, Numbers DEF Taken
        <4> QED BY <4>1, <4>2, <4>3
      <3>2. B2 \subseteq DataClusters /\ Taken(g) \subseteq B2 \cup orphans /\ S \subseteq DataClusters
        BY <1>3, <1>6, <1>7, <2>2, <3>1
      <3>3. Cardinality(S2) = Cardinality(S) - 1 /\ Cardinality(B2) <= Cardinality(B) + 1
        BY <1>3, <1>6, <3>1, <3>2, DataSets
      <3>4. Cardinality(B2) \in Nat
        BY <3>2, DataSets
      <3>5. ASSUME freeInfo # Unknown PROVE Tally(S2, B2, freeInfo + (0 - (cnt + 1)))
        <4>1. Tally(S, B, freeInfo + (0 - (cnt + 0)))
          BY <1>3, <1>5, <1>6, <2>0, <3>5
        <4> QED BY <1>4, <1>9, <3>3, <3>4, <3>5, <4>1, Numbers DEF Tally
      <3> QED BY <1>2, <1>5, <1>6, <1>8, <2>2, <3>2, <3>5, TallySteps
    <2>3. CASE c \notin DataClusters
      <3>0. \A b \in DataClusters : g[b] = f[b]
        BY <2>1, <2>3, Numbers
      <3>1. S2 = S /\ B2 = B /\ Taken(g) = Taken(f)
        <4>1. B2 = B
          BY <1>1, <1>6, <1>10, <2>3
        <4> QED BY <1>7, <3>0, <4>1 DEF Taken
      <3>2. Credit' = Credit
        BY <1>5, <1>8, <2>0, <2>3
      <3> QED BY <1>2, <1>3, <1>6, <3>1, <3>2, TallySteps
    <2> QED BY <2>2, <2>3
  <1>11. CASE copy # 1
    <2>1. g = f /\ B2 = B /\ c = cl /\ Fresh
      BY <1>1, <1>6, <1>11
    <2>2. Extra = IF c \in DataClusters THEN 1 ELSE 0
      BY <2>1 DEF Extra
    <2>3. Credit' = Credit /\ S2 = S
      BY <1>5, <1>7, <1>8, <2>1, <2>2
    <2> QED BY <1>2, <1>3, <1>6, <2>1, <2>3, TallySteps
  <1> QED BY <1>10, <1>11

\* write_fat_entry(prev, c) neither takes nor frees a cluster.
LEMMA LinkLeak ==
    ASSUME DiskInv, TreeInv, DiskInv', TreeInv', Unharmed, Works, LeakInv, LinkWrite
    PROVE  LeakInv'
  <1>1. /\ Busy' = Busy /\ cl' = cl
        /\ \A b \in Clusters : fat'[1][b] = Free <=> fat[1][b] = Free
    BY LinkBusy
  <1>2. /\ pc = "link" /\ orphans' = orphans /\ freeInfo' = freeInfo
        /\ \/ pc' = "link" /\ cnt' = cnt
           \/ pc' \in {"mark", "allocinfo"} /\ cnt' = cnt + 1 /\ copy' = 1
    BY DEF LinkWrite, Linked, histVars
  <1>3. cnt \in Nat /\ cl \in DataClusters
    BY <1>2, At1 DEF DiskInv, PhaseInv
  <1>4. Credit = 0 - (cnt + 1)
    <2>1. Extra = 1
      BY <1>2, <1>3 DEF Extra, Fresh
    <2> QED BY <1>2, <2>1 DEF Credit
  <1>5. Credit' = 0 - (cnt + 1)
    <2>1. CASE pc' = "link" /\ cnt' = cnt
      <3>1. Extra' = 1
        BY <1>1, <1>3, <2>1 DEF Extra, Fresh
      <3> QED BY <2>1, <3>1 DEF Credit
    <2>2. CASE pc' \in {"mark", "allocinfo"} /\ cnt' = cnt + 1 /\ copy' = 1
      <3>1. ~Fresh'
        BY <2>2 DEF Fresh
      <3>2. Extra' = 0
        BY <3>1 DEF Extra
      <3> QED BY <1>3, <2>2, <3>2 DEF Credit
    <2> QED BY <1>2, <2>1, <2>2
  <1>6. FreeData' = FreeData /\ Taken(fat'[1]) = Taken(fat[1])
    <2>1. DataClusters \subseteq Clusters
      BY Numbers
    <2> QED BY <1>1, <2>1 DEF FreeData, Taken, DataClusters
  <1>7. /\ Busy \subseteq DataClusters /\ Taken(fat[1]) \subseteq Busy \cup orphans
        /\ freeInfo # Unknown => Tally(FreeData, Busy, freeInfo + Credit)
    BY DEF LeakInv
  <1> QED BY <1>1, <1>2, <1>4, <1>5, <1>6, <1>7, TallySteps

\* Phases that owe FsInfo nothing.
Settled == \/ pc \in {"delete", "data", "add", "done"}
           \/ pc = "mark" /\ cnt = 0 /\ copy = 1

\* In those phases FsInfo is owed nothing.
LEMMA NoCredit == Settled => Credit = 0
  <1> SUFFICES ASSUME Settled PROVE Credit = 0
    OBVIOUS
  <1>1. CASE pc \in {"delete", "data", "add", "done"}
    BY <1>1 DEF Credit
  <1>2. CASE pc = "mark" /\ cnt = 0 /\ copy = 1
    <2>1. ~Fresh
      BY <1>2 DEF Fresh
    <2>2. Extra = 0
      BY <2>1 DEF Extra
    <2> QED BY <1>2, <2>2 DEF Credit
  <1> QED BY <1>1, <1>2 DEF Settled

\* update_fsinfo settles the account, the other steps leave it.
LEMMA OtherLeak ==
    ASSUME DiskInv, TreeInv, DiskInv', TreeInv', Unharmed, Works, LeakInv,
           \/ Deletes \/ ZeroCluster \/ WriteCluster \/ AddDirEntry \/ GrowDir
           \/ FreeInfo(TRUE) \/ AllocInfo(TRUE)
    PROVE  LeakInv'
  <1>1. Busy' = Busy /\ fat' = fat
    BY OtherBusy
  <1>2. /\ Busy \subseteq DataClusters /\ Taken(fat[1]) \subseteq Busy \cup orphans
        /\ freeInfo # Unknown => Tally(FreeData, Busy, freeInfo + Credit)
    BY DEF LeakInv
  <1>3. orphans' = orphans /\ FreeData' = FreeData
    BY <1>1 DEF Deletes, ZeroCluster, WriteCluster, AddDirEntry, GrowDir, FreeInfo,
                AllocInfo, histVars, FreeData
  <1>4. SUFFICES ASSUME freeInfo' # Unknown
                 PROVE  Tally(FreeData, Busy, freeInfo' + Credit')
    BY <1>1, <1>2, <1>3, TallySteps
  <1>5. cnt \in Nat /\ copy \in 1..NumFats /\ freeInfo \in Nat /\ op \in Ops
        /\ freeInfo # Unknown
    <2>1. freeInfo # Unknown
      BY <1>4 DEF Deletes, ZeroCluster, WriteCluster, AddDirEntry, GrowDir, FreeInfo,
                  AllocInfo, UpdateFsinfo, diskVars
    <2> QED BY <2>1, At1 DEF DiskInv, TypeInv
  <1>6. copy > 1 => pc \in {"free", "mark", "link", "failed"}
    BY DEF DiskInv, PhaseInv
  <1>7. (Settled => Credit = 0)'
    BY NoCredit, PTL
  <1>8. Cardinality(FreeData) \in Nat /\ Cardinality(Busy) \in Nat
        /\ Cardinality(Busy) <= LastData - 1
    <2>1. FreeData \subseteq DataClusters /\ Busy \subseteq DataClusters
      BY <1>2 DEF FreeData, DataClusters
    <2> QED BY <2>1, DataSets
  <1>9. CASE Deletes
    <2>1. /\ pc = "delete" /\ pc' \in {"mark", "add", "done"} /\ cnt' = cnt /\ copy' = copy
          /\ cnt = 0 /\ freeInfo' = freeInfo
      BY <1>9 DEF Deletes, regVars, AfterDelete, DiskInv, PhaseInv
    <2>2. copy' = 1
      BY <1>5, <1>6, <2>1, Numbers
    <2>3. Credit = 0 /\ Credit' = 0
      BY <1>7, <2>1, <2>2, NoCredit DEF Settled
    <2> QED BY <1>2, <1>5, <2>1, <2>3
  <1>10. CASE WriteCluster
    <2>1. pc = "data" /\ pc' \in {"data", "add"} /\ freeInfo' = freeInfo
      BY <1>10 DEF WriteCluster
    <2>2. Credit = 0 /\ Credit' = 0
      BY <1>7, <2>1, NoCredit DEF Settled
    <2> QED BY <1>2, <1>5, <2>1, <2>2
  <1>11. CASE AddDirEntry
    <2>1. pc = "add" /\ pc' = "done" /\ freeInfo' = freeInfo
      BY <1>11 DEF AddDirEntry
    <2>2. Credit = 0 /\ Credit' = 0
      BY <1>7, <2>1, NoCredit DEF Settled
    <2> QED BY <1>2, <1>5, <2>1, <2>2
  <1>12. CASE GrowDir
    <2>1. /\ pc = "add" /\ pc' = "mark" /\ freeInfo' = freeInfo /\ cnt' = cnt /\ copy' = copy
          /\ cnt = 0
      BY <1>12 DEF GrowDir, diskVars, DiskInv, PhaseInv
    <2>2. copy' = 1
      BY <1>5, <1>6, <2>1, Numbers
    <2>3. Credit = 0 /\ Credit' = 0
      BY <1>7, <2>1, <2>2, NoCredit DEF Settled
    <2> QED BY <1>2, <1>5, <2>1, <2>3
  <1>13. CASE ZeroCluster
    <2>1. /\ pc = "zero" /\ cl \in DataClusters /\ cl' = cl /\ copy' = copy /\ ~(copy > 1)
          /\ freeInfo' = freeInfo
          /\ \/ pc' = "link" /\ cnt' = cnt
             \/ pc' \in {"mark", "allocinfo"} /\ cnt' = cnt + 1
      <3>1. cl \in Clusters /\ cl <= LastData /\ pc = "zero"
        BY <1>13 DEF ZeroCluster, DiskInv, PhaseInv
      <3>2. cl \in DataClusters
        BY <3>1, Numbers DEF Clusters, DataClusters
      <3> QED BY <1>6, <1>13, <3>1, <3>2 DEF ZeroCluster, Linked
    <2>2. Credit = 0 - (cnt + 1)
      <3>1. Extra = 1
        BY <2>1 DEF Extra, Fresh
      <3> QED BY <2>1, <3>1 DEF Credit
    <2>3. Credit' = 0 - (cnt + 1)
      <3>1. CASE pc' = "link" /\ cnt' = cnt
        <4>1. Extra' = 1
          BY <2>1, <3>1 DEF Extra, Fresh
        <4> QED BY <3>1, <4>1 DEF Credit
      <3>2. CASE pc' \in {"mark", "allocinfo"} /\ cnt' = cnt + 1
        <4>1. ~Fresh'
          BY <2>1, <3>2 DEF Fresh
        <4>2. Extra' = 0
          BY <4>1 DEF Extra
        <4> QED BY <1>5, <3>2, <4>2 DEF Credit
      <3> QED BY <2>1, <3>1, <3>2
    <2> QED BY <1>2, <1>5, <2>1, <2>2, <2>3
  <1>14. CASE FreeInfo(TRUE)
    <2>1. /\ pc = "freeinfo" /\ freeInfo' = freeInfo + cnt /\ cnt' = 0 /\ copy' = copy
          /\ pc' \in {"delete", "mark", "add", "done"}
      <3>1. ~(freeInfo + cnt < 0)
        BY <1>5
      <3> QED BY <1>5, <1>14, <3>1 DEF FreeInfo, UpdateFsinfo, AfterFree, AfterDelete
    <2>2. copy' = 1
      BY <1>5, <1>6, <2>1, Numbers
    <2>3. Credit = cnt /\ Credit' = 0
      BY <1>7, <2>1, <2>2 DEF Credit, Settled
    <2> QED BY <1>2, <1>5, <2>1, <2>3
  <1>15. CASE AllocInfo(TRUE)
    <2>1. /\ pc = "allocinfo" /\ pc' \in {"add", "data"}
          /\ freeInfo' = IF freeInfo + (-cnt) < 0 THEN 0 ELSE freeInfo + (-cnt)
      BY <1>5, <1>15 DEF AllocInfo, UpdateFsinfo
    <2>2. freeInfo' = IF freeInfo - cnt < 0 THEN 0 ELSE freeInfo - cnt
      BY <1>5, <2>1
    <2>3. Credit = 0 - cnt
      <3>1. ~Fresh
        BY <2>1 DEF Fresh
      <3>2. Extra = 0
        BY <3>1 DEF Extra
      <3> QED BY <1>5, <2>1, <3>2 DEF Credit
    <2>4. Credit' = 0
      BY <1>7, <2>1 DEF Settled
    <2> QED BY <1>2, <1>5, <1>8, <2>2, <2>3, <2>4, Numbers DEF Tally
  <1> QED BY <1>9, <1>10, <1>11, <1>12, <1>13, <1>14, <1>15

\* An empty disk: the root, and FsInfo counts the others.
LEMMA InitLeak == Init => LeakInv
  <1> SUFFICES ASSUME Init PROVE LeakInv
    OBVIOUS
  <1>1. DiskInv /\ TreeInv /\ pc = "idle" /\ op = NoOp /\ head = 0
        /\ freeInfo \in {LastData - 2, Unknown} /\ orphans = {}
    BY InitDisk, InitTree, FatAssumption DEF Init, Root
  <1>2. PICK f, d : f = fat[1] /\ d = data
    OBVIOUS
  <1>3. f \in Fats /\ d \in DataAreas /\ FatOK(f) /\ Acyclic(f)
    BY <1>1, <1>2, At1 DEF TreeInv, FatOK
  <1>4. \A c \in Clusters : f[c] = IF c = Root THEN EOC ELSE Free
    BY <1>2, Numbers DEF Init
  <1>5. PICK H : H = Seen(f, d, <<>>)
    OBVIOUS
  <1>6. ASSUME NEW h \in H PROVE h = Root \/ h = 0
    <2>1. PICK T, X : StructInv(T, X)
      BY <1>1 DEF TreeInv
    <2>2. Tree(f, d, T, X) /\ Owners(f, d, X) /\ Damage(f, d, T, X, {})
      <3>1. Suspects = {}
        BY <1>1 DEF Suspects, Clearing, Active, Init
      <3> QED BY <1>2, <2>1, <3>1 DEF StructInv
    <2>3. CASE h # Root
      <3>1. PICK q \in Seq(Names) \ {<<>>} : LookIn(f, d, q).k # "error" /\ h = LookIn(f, d, q).cluster
        BY <1>5, <2>3 DEF Seen
      <3>2. Clear({}, q)
        BY DEF Clear
      <3>3. Sees(f, d, T, X, q)
        BY <1>3, <2>2, <3>2, Leaves
      <3>4. PICK x \in Holds(f, d, T[Parent(q)]) \ X : At(d, x).cluster = h
        BY <1>3, <2>2, <3>1, <3>3, SeenSlot
      <3>5. h \in Heads(d, X)
        BY <3>4 DEF Heads, Holds
      <3>6. h # 0 => h \in DataClusters /\ Owner(f, h)
        BY <1>3, <2>2, <3>5, Structure
      <3> QED BY <1>4, <2>3, <3>6, Numbers DEF Owner
    <2> QED BY <2>3
  <1>7. In(f, Root) = {Root}
    BY <1>3, <1>4, Numbers, ChainOne
  <1>8. Busy = {Root}
    <2>1. Root \in H
      BY <1>5 DEF Seen
    <2>2. Held(f, H) = {Root}
      BY <1>6, <1>7, <2>1, NoChain DEF Held
    <2> QED BY <1>1, <1>2, <1>5, <2>2, IdleBusy
  <1>9. /\ Root \in DataClusters /\ Taken(f) = {Root}
        /\ FreeData = DataClusters \ {Root}
    <2>1. \A c \in DataClusters : f[c] = Free <=> c # Root
      BY <1>4, Numbers
    <2> QED BY <1>2, <2>1, Numbers DEF Taken, FreeData, DataClusters
  <1>10. Credit = 0
    BY <1>1 DEF Credit
  <1>11. ASSUME freeInfo # Unknown PROVE Tally(FreeData, Busy, freeInfo + Credit)
    <2>1. Cardinality(FreeData) = LastData - 2
      <3>1. Cardinality(DataClusters \ {Root}) = Cardinality(DataClusters) - 1
        BY <1>9, DataSets
      <3> QED BY <1>9, <3>1, DataSets, Numbers
    <2>2. Cardinality(Busy) = 1
      BY <1>8, FS_Singleton
    <2> QED BY <1>1, <1>10, <1>11, <2>1, <2>2, Numbers DEF Tally
  <1> QED BY <1>1, <1>2, <1>8, <1>9, <1>11 DEF LeakInv

\* Every step keeps the account.
LEMMA NextLeak ==
    ASSUME NamesFit, MaxFaults = 0
    PROVE  DiskInv /\ TreeInv /\ Unharmed /\ LeakInv /\ [Next]_vars => LeakInv'
  <1> SUFFICES ASSUME DiskInv, TreeInv, Unharmed, LeakInv, [Next]_vars PROVE LeakInv'
    OBVIOUS
  <1>1. DiskInv' /\ TreeInv'
    BY NextDisk, NextTree
  <1>2. faults = 0 /\ bad = {} /\ pc \notin {"failed", "beyond"} /\ ~(faults < MaxFaults)
    BY DEF Unharmed
  <1>3. CASE UNCHANGED vars
    BY <1>3 DEF vars, diskVars, regVars, histVars, LeakInv, Busy, Work, Fresh, Credit, Half,
                Extra, FreeData
  <1>4. CASE Call
    <2>1. ~\E p \in Paths : Beyond(p)
      BY <1>2 DEF Beyond, Tainted
    <2>2. CASE Reject
      BY <2>2 DEF Reject, diskVars, regVars, histVars, LeakInv, Busy, Work, Fresh, Credit, Half,
                  Extra, FreeData
    <2>3. CASE Begins
      BY <2>3, BeginLeak
    <2> QED BY <1>4, <2>1, <2>2, <2>3, At1, CallFound
  <1>5. CASE \E r : Returns(r)
    BY <1>5, ReturnLeak
  <1>6. CASE \E ok \in BOOLEAN : (ok \/ faults < MaxFaults) /\ (FreeInfo(ok) \/ AllocInfo(ok))
    <2>1. FreeInfo(TRUE) \/ AllocInfo(TRUE)
      BY <1>2, <1>6
    <2>2. Works
      BY <2>1, WorkSteps
    <2> QED BY <1>1, <2>1, <2>2, OtherLeak
  <1>7. CASE \/ FreeWrite \/ Deletes \/ MarkEoc \/ ZeroCluster \/ LinkWrite
             \/ WriteCluster \/ AddDirEntry \/ GrowDir
    <2>1. Works
      BY <1>7, WorkSteps
    <2> QED BY <1>1, <1>7, <2>1, FreeLeak, MarkLeak, LinkLeak, OtherLeak
  <1>8. ~Fault
    BY <1>2 DEF Fault
  <1>9. ~NotFound
    BY EntryIsFound
  <1> QED BY <1>3, <1>4, <1>5, <1>6, <1>7, <1>8, <1>9, Steps

\* Without a failing write the account is kept throughout.
LEMMA LeakInvariant ==
    ASSUME NamesFit, MaxFaults = 0
    PROVE  Spec => []LeakInv
  BY InitLeak, NextLeak, DiskInvariant, TreeInvariant, StaysUnharmed, PTL DEF Spec

\* As long as no write fails, FsInfo never claims fewer free clusters than there
\* are, and is too high by leaked clusters only, unless its count was unknown to
\* begin with.
THEOREM FsInfoStaysBounded ==
    ASSUME NamesFit, MaxFaults = 0
    PROVE  Spec => []FsInfoBounds
  <1>1. DiskInv /\ TreeInv /\ LeakInv => FsInfoBounds
    <2> SUFFICES ASSUME DiskInv, TreeInv, LeakInv, pc = "idle", freeInfo # Unknown
                 PROVE  /\ Cardinality(FreeData) <= freeInfo
                        /\ freeInfo <= Cardinality(FreeData) + Cardinality(Orphans)
      BY DEF FsInfoBounds
    <2>1. PICK S, P, B, R : /\ S = FreeData /\ P = Orphans /\ B = Busy
                            /\ R = Taken(fat[1]) \cap Owned
      OBVIOUS
    <2>2. Credit = 0 /\ freeInfo \in Nat
      BY DEF Credit, DiskInv, TypeInv
    <2>3. Tally(S, B, freeInfo) /\ B \subseteq DataClusters
      BY <2>1, <2>2 DEF LeakInv
    <2>4. R \subseteq B
      <3>1. op = NoOp /\ head = 0
        BY DEF LeakInv
      <3> QED BY <2>1, <3>1, IdleBusy, OwnedSeen
    <2>5. /\ S \subseteq DataClusters /\ P \subseteq DataClusters /\ R \subseteq DataClusters
          /\ S \cap P = {} /\ (S \cup P) \cap R = {} /\ (S \cup P) \cup R = DataClusters
      BY <2>1 DEF FreeData, Orphans, Taken, DataClusters
    <2>6. Cardinality(S \cup P) = Cardinality(S) + Cardinality(P)
      BY <2>5, DataSets
    <2>7. Cardinality(DataClusters) = Cardinality(S \cup P) + Cardinality(R)
      <3>1. S \cup P \subseteq DataClusters
        BY <2>5
      <3> QED BY <2>5, <3>1, DataSets
    <2>8. /\ Cardinality(R) <= Cardinality(B) /\ Cardinality(DataClusters) = LastData - 1
          /\ Cardinality(R) \in Nat /\ Cardinality(B) \in Nat
          /\ Cardinality(S) \in Nat /\ Cardinality(P) \in Nat
      BY <2>3, <2>4, <2>5, DataSets
    <2> QED BY <2>1, <2>2, <2>3, <2>6, <2>7, <2>8, Numbers DEF Tally
  <1> QED BY <1>1, DiskInvariant, TreeInvariant, LeakInvariant, PTL

\* The callers use no path longer than two names, as LiveEntries has it, and so
\* nothing lies deeper.
ShortPaths == \A p \in Paths : Len(p) <= 2
Shallow == \A q \in Seq(Names) : LookIn(fat[1], data, q).k # "error" => Len(q) <= 2

\* Nothing can be found along more than two names.
LEMMA StaysShallow ==
    ASSUME NamesFit, MaxFaults = 0, ShortPaths
    PROVE  Spec => []Shallow
  <1>1. Init => Shallow
    <2> SUFFICES ASSUME Init, NEW q \in Seq(Names), LookIn(fat[1], data, q).k # "error"
                 PROVE  Len(q) <= 2
      BY DEF Shallow
    <2>1. DiskInv /\ TreeInv
      BY InitDisk, InitTree
    <2>2. PICK f, d, r0 : f = fat[1] /\ d = data /\ r0 = <<>>
      OBVIOUS
    <2>3. f \in Fats /\ d \in DataAreas /\ Acyclic(f) /\ r0 \in Seq(Names)
      BY <2>1, <2>2, At1, PathFacts DEF TreeInv, FatOK
    <2>4. LookIn(f, d, r0) = RootEntry
      BY <2>2, <2>3, LookChild
    <2>5. Holds(f, d, Root) = {}
      <3>1. \A c \in DataClusters, u \in 1..ClusterUnits :
               d[c][u] = IF c = Root /\ Labelled /\ u = 1 THEN Skip ELSE End
        BY <2>2 DEF Init, Zeros, DataClusters
      <3>2. \A x \in Slots : At(d, x).k # "entry"
        BY <3>1, EntryUnits DEF Slots, At
      <3> QED BY <3>2 DEF Holds, EntrySlots
    <2>6. \A p \in Seq(Names) : Below(r0, p) => LookIn(f, d, p).k = "error"
      BY <2>3, <2>4, <2>5, FoundFacts, Numbers, NothingBelow
    <2>7. CASE q = <<>>
      BY <2>7
    <2>8. CASE q # <<>>
      <3>1. Len(q) \in Nat /\ Len(q) >= 1 /\ SubSeq(q, 1, 0) = <<>>
        BY <2>8, PathFacts
      <3>2. Below(r0, q)
        BY <2>2, <3>1 DEF Below
      <3> QED BY <2>2, <2>6, <3>2
    <2> QED BY <2>7, <2>8
  <1>2. DiskInv /\ TreeInv /\ Unharmed /\ Shallow /\ [Next]_vars => Shallow'
    <2> SUFFICES ASSUME DiskInv, TreeInv, Unharmed, Shallow, [Next]_vars PROVE Shallow'
      OBVIOUS
    <2>1. DiskInv' /\ TreeInv'
      BY NextDisk, NextTree
    <2>2. CASE UNCHANGED <<fat, data>>
      BY <2>2 DEF Shallow
    <2>3. CASE Works
      <3>1. PICK f, d, g, e : f = fat[1] /\ d = data /\ g = fat'[1] /\ e = data'
        OBVIOUS
      <3>2. ASSUME NEW q \in Seq(Names), LookIn(g, e, q).k # "error" PROVE Len(q) <= 2
        <4>1. CASE q = op.path
          <5>1. op.path \in Paths
            BY At1 DEF Ops
          <5> QED BY <4>1, <5>1 DEF ShortPaths
        <4>2. CASE q # op.path
          <5>1. LookIn(f, d, q).k # "error"
            BY <2>1, <2>3, <3>1, <3>2, <4>2, LooksStay
          <5> QED BY <3>1, <5>1 DEF Shallow
        <4> QED BY <4>1, <4>2
      <3> QED BY <3>1, <3>2 DEF Shallow
    <2>4. CASE UNCHANGED vars
      BY <2>2, <2>4 DEF vars, diskVars
    <2>5. CASE Call
      <3>1. Reject \/ (\E p \in Paths : Beyond(p)) \/ Begins
        BY <2>5, At1, CallFound
      <3> QED BY <2>2, <3>1 DEF Reject, Beyond, Begins, Start, diskVars
    <2>6. CASE (\E r : Returns(r)) \/ Fault
      BY <2>2, <2>6 DEF Returns, Return, Fault, diskVars
    <2>7. ~NotFound
      BY EntryIsFound
    <2> QED BY <2>3, <2>4, <2>5, <2>6, <2>7, Steps, WorkSteps
  <1> QED BY <1>1, <1>2, DiskInvariant, TreeInvariant, StaysUnharmed, PTL DEF Spec

\* What is found in a directory is read from it.
LEMMA FindRead ==
    ASSUME NEW f \in Fats, NEW d \in DataAreas, NEW h \in DataClusters, NEW n,
           FindIn(f, d, h, n).k # "error"
    PROVE  FindIn(f, d, h, n) \in RangeOf(DirIn(f, d, h))
  <1>1. PICK s, u, k : s = UnitsIn(f, d, h) /\ u = FindIn(f, d, h, n) /\ k = FirstIndex(s, {End})
    OBVIOUS
  <1>2. PICK j : Hit(f, d, h, n, j) /\ u = s[j]
    BY <1>1, FindFacts, FoundFacts
  <1>3. j \in 1..Len(s) /\ s[j].k = "entry" /\ \A i \in 1..(j - 1) : s[i] # End
    BY <1>1, <1>2 DEF Hit
  <1>4. Len(s) \in Nat
    BY <1>1, UnitsFacts
  <1>5. /\ k \in 1..(Len(s) + 1)
        /\ k <= Len(s) => s[k] \in {End}
    BY <1>1, <1>4, FirstFacts
  <1>6. j \in 1..(k - 1)
    <2>1. k # j
      BY <1>3, <1>5, EntryUnits
    <2>2. ~(k < j)
      <3>1. k < j => k \in 1..(j - 1) /\ k <= Len(s)
        BY <1>3, <1>4, <1>5
      <3> QED BY <1>3, <1>5, <3>1
    <2> QED BY <1>3, <1>4, <1>5, <2>1, <2>2
  <1>7. j \in DOMAIN DirIn(f, d, h) /\ DirIn(f, d, h)[j] = s[j]
    BY <1>1, <1>3, <1>6 DEF DirIn, IsEntry
  <1> QED BY <1>1, <1>2, <1>7 DEF RangeOf

\* What can be found along a path of at most two names is in Owned.
LEMMA SeenOwned ==
    ASSUME DiskInv, TreeInv, Shallow
    PROVE  Held(fat[1], Seen(fat[1], data, <<>>)) \subseteq Owned
  <1>1. PICK f, d, H : f = fat[1] /\ d = data /\ H = Seen(f, d, <<>>)
    OBVIOUS
  <1>2. f \in Fats /\ d \in DataAreas
    BY <1>1, At1
  <1>3. \A h : RangeOf(Chain(h)) = In(f, h) /\ ReadDir(h) = DirIn(f, d, h)
    BY <1>1, ChainNow, DirNow DEF In
  <1>4. ASSUME NEW q \in Seq(Names), q # <<>>, LookIn(f, d, q).k # "error"
        PROVE  \E p : /\ p = LookIn(f, d, Parent(q)) /\ p.k # "error" /\ p.dir
                      /\ p.cluster \in DataClusters
                      /\ LookIn(f, d, q) \in RangeOf(ReadDir(p.cluster))
    <2>1. PICK p : p = LookIn(f, d, Parent(q))
      OBVIOUS
    <2>2. p \in Found /\ LookIn(f, d, q) = EnterIn(f, d, p, Last(q))
      BY <1>2, <1>4, <2>1, LookChild, PathFacts
    <2>3. p.k # "error" /\ p.dir
      BY <1>4, <2>2, FoundFacts DEF EnterIn
    <2>4. p.cluster \in DataClusters
      BY <2>2, <2>3, FoundFacts
    <2>5. LookIn(f, d, q) = FindIn(f, d, p.cluster, Last(q))
      BY <2>2, <2>3 DEF EnterIn
    <2>6. LookIn(f, d, q) \in RangeOf(DirIn(f, d, p.cluster))
      BY <1>2, <1>4, <2>4, <2>5, FindRead
    <2> QED BY <1>3, <2>1, <2>3, <2>4, <2>6
  <1>5. ASSUME NEW q \in Seq(Names), q # <<>>, Parent(q) = <<>>, LookIn(f, d, q).k # "error"
        PROVE  LookIn(f, d, q) \in RangeOf(ReadDir(Root))
    <2>1. LookIn(f, d, Parent(q)).cluster = Root
      BY <1>2, <1>5, LookChild, FoundFacts
    <2> QED BY <1>4, <1>5, <2>1
  <1>6. ASSUME NEW q \in Seq(Names), q # <<>>, LookIn(f, d, q).k # "error"
        PROVE  LookIn(f, d, q) \in LiveEntries
    <2>1. Len(q) \in Nat /\ Len(q) >= 1 /\ Len(q) <= 2 /\ Len(Parent(q)) = Len(q) - 1
          /\ Parent(q) \in Seq(Names)
      BY <1>1, <1>6, PathFacts DEF Shallow
    <2>2. CASE Len(q) = 1
      <3>1. Parent(q) = <<>>
        BY <2>1, <2>2
      <3> QED BY <1>5, <1>6, <3>1 DEF LiveEntries
    <2>3. CASE Len(q) = 2
      <3>1. PICK q1 : q1 = Parent(q) /\ q1 \in Seq(Names) /\ Len(q1) = 1 /\ q1 # <<>>
        BY <2>1, <2>3
      <3>2. Parent(q1) = <<>>
        <4>1. Len(Parent(q1)) = 0 /\ Parent(q1) \in Seq(Names)
          BY <3>1, PathFacts
        <4> QED BY <4>1
      <3>3. PICK p : /\ p = LookIn(f, d, q1) /\ p.k # "error" /\ p.dir
                     /\ LookIn(f, d, q) \in RangeOf(ReadDir(p.cluster))
        BY <1>4, <1>6, <3>1
      <3>4. p \in RangeOf(ReadDir(Root))
        BY <1>5, <3>1, <3>2, <3>3
      <3> QED BY <3>3, <3>4 DEF LiveEntries
    <2> QED BY <2>1, <2>2, <2>3
  <1>7. \A h \in H : In(f, h) \subseteq Owned
    BY <1>1, <1>3, <1>6 DEF Seen, Owned
  <1> QED BY <1>1, <1>7 DEF Held

\* As long as no write fails, an operation that succeeds leaks no cluster.
THEOREM SuccessLeaksNothing ==
    ASSUME NamesFit, MaxFaults = 0, ShortPaths
    PROVE  Spec => NoLeakOnSuccess
  <1>1. DiskInv /\ TreeInv /\ Unharmed /\ LeakInv /\ Shallow
           => (pc = "done" => Orphans \subseteq orphans)
    <2> SUFFICES ASSUME DiskInv, TreeInv, Unharmed, LeakInv, Shallow, pc = "done"
                 PROVE  Orphans \subseteq orphans
      OBVIOUS
    <2>1. Busy \subseteq Owned
      BY DoneBusy, SeenOwned
    <2>2. Taken(fat[1]) \subseteq Busy \cup orphans
      BY DEF LeakInv
    <2> QED BY <2>1, <2>2 DEF Orphans, Taken, DataClusters
  <1> QED BY <1>1, DiskInvariant, TreeInvariant, StaysUnharmed, LeakInvariant, StaysShallow, PTL
          DEF NoLeakOnSuccess
=============================================================================

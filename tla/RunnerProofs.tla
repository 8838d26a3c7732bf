---------------------------- MODULE RunnerProofs ----------------------------
(***************************************************************************)
(* Proofs about the host runner, for every number of processes and every   *)
(* set of process ids: a guest always has complete images, and the files   *)
(* on the persistent disk survive.                                         *)
(***************************************************************************)
EXTENDS Runner, FiniteSetTheorems, TLAPS

Pcs == {"gone", "boot", "choose", "unlink", "create", "format", "launch", "guest",
        "remove", "removedata"}
Persists(p) == proc[p].env.persist

RunnerTyped ==
    /\ starts \in 0..MaxStarts
    /\ proc \in [Pids -> [pc : Pcs, env : Envs, img : 0..MaxStarts]]
    /\ boot \in [Pids -> {"absent", "partial", "built"}]
    /\ path \in [Pids \cup {Sticky} -> 0..MaxStarts]
    /\ image \in [Images -> {"absent", "partial", "seeded"}]
    /\ user \subseteq Images
    /\ overlap \in BOOLEAN /\ broken \in BOOLEAN

\* The images there are, and the processes that can still create one.
Used == {i \in Images : image[i] # "absent"}
Early == {p \in Pids : proc[p].pc \in {"boot", "choose", "unlink", "create"}}

\* A name and a process know only images that exist; there are no more of
\* them than processes that have come past create_new.
UseInv ==
    /\ \A f \in Pids \cup {Sticky} : path[f] \in Used \cup {None}
    /\ \A p \in Pids : proc[p].img \in Used \cup {None}
    /\ \A p \in Pids : proc[p].pc \in {"format", "guest"} => proc[p].img # None
    /\ Cardinality(Used) + Cardinality(Early) <= starts

\* A process has its boot image once create_disk_image has returned, until it
\* deletes it.
BootInv ==
    \A p \in Pids :
        proc[p].pc \notin {"gone", "boot", "removedata"} => boot[p] = "built"

\* The disk of a run without WILLO_PERSIST is known to nobody else.
PrivateInv ==
    \A p \in Pids :
        (~Persists(p) /\ proc[p].pc \in {"format", "launch", "guest"}) =>
            /\ proc[p].img # None /\ path[p] = proc[p].img
            /\ image[proc[p].img] = "seeded" \/ proc[p].pc = "format"
            /\ \A f \in (Pids \cup {Sticky}) \ {p} : path[f] # proc[p].img
            /\ \A q \in Pids \ {p} : proc[q].img # proc[p].img

\* As long as no two runs with WILLO_PERSIST have met there is at most one; it
\* builds a disk only where there is none, and what it leaves is complete
\* unless it ended in the middle of build_data_disk.
SharedInv ==
    /\ ~overlap =>
          /\ \A p, q \in Pids : Persists(p) /\ Persists(q) => p = q
          /\ \A p \in Pids : Persists(p) /\ proc[p].pc \in {"unlink", "create"}
                                => path[Sticky] = None
          /\ (~broken /\ path[Sticky] # None) =>
                \/ image[path[Sticky]] = "seeded"
                \/ \E p \in Pids : Persists(p) /\ proc[p].pc = "format"
                                      /\ proc[p].img = path[Sticky]
    /\ \A p \in Pids : Persists(p) /\ proc[p].pc = "guest" =>
          image[proc[p].img] = "seeded" \/ broken \/ overlap

IndInv == RunnerTyped /\ UseInv /\ BootInv /\ PrivateInv /\ SharedInv

-----------------------------------------------------------------------------
(* Counting the images.                                                    *)

\* The sets counted are finite.
LEMMA CountFacts ==
    ASSUME RunnerTyped
    PROVE  /\ IsFiniteSet(Images) /\ Cardinality(Images) = MaxStarts
           /\ IsFiniteSet(Used) /\ Cardinality(Used) \in Nat
           /\ IsFiniteSet(Early) /\ Cardinality(Early) \in Nat
<1>1. IsFiniteSet(Images) /\ Cardinality(Images) = MaxStarts
    <2>1. \A n \in Nat : IsFiniteSet(1..n) /\ Cardinality(1..n) = n
        BY FS_Interval
    <2> QED BY <2>1, RunnerAssumption DEF Images
<1>2. Used \subseteq Images /\ Early \subseteq Pids
    BY DEF Used, Early
<1>3. IsFiniteSet(Used) /\ IsFiniteSet(Early)
    BY <1>1, <1>2, FS_Subset, RunnerAssumption
<1> QED BY <1>1, <1>3, FS_CardinalityType

\* create_new always finds a number for the image that has not been used.
LEMMA FreshImage ==
    ASSUME RunnerTyped, UseInv, NEW p \in Early
    PROVE  \E i \in Images : image[i] = "absent"
<1> SUFFICES ASSUME Used = Images PROVE FALSE
    BY DEF Used
<1>1. Cardinality(Early) # 0
    <2>1. Early # {}
        OBVIOUS
    <2> QED BY <2>1, CountFacts, FS_EmptySet
<1>2. Cardinality(Used) = MaxStarts
    BY CountFacts
<1>3. /\ Cardinality(Used) + Cardinality(Early) <= starts /\ starts <= MaxStarts
      /\ starts \in Nat /\ MaxStarts \in Nat
    BY RunnerAssumption DEF UseInv, RunnerTyped
<1>4. Cardinality(Used) \in Nat /\ Cardinality(Early) \in Nat
    BY CountFacts
<1> QED BY <1>1, <1>2, <1>3, <1>4

\* A process gets on, or ends, without a new image.
LEMMA CountLess ==
    ASSUME RunnerTyped, UseInv, Early' \subseteq Early, Used' = Used, starts' = starts
    PROVE  Cardinality(Used') + Cardinality(Early') <= starts'
<1>1. Cardinality(Early') \in Nat /\ Cardinality(Early') <= Cardinality(Early)
    BY CountFacts, FS_Subset, FS_CardinalityType
<1> QED BY <1>1, CountFacts DEF UseInv, RunnerTyped

-----------------------------------------------------------------------------
(* The inductive invariant, one lemma per kind of step.                    *)

\* A step of one process.
Becomes(p, r) == proc' = [proc EXCEPT ![p] = r]

\* It leaves the other processes alone.
LEMMA BecomesFacts ==
    ASSUME RunnerTyped, NEW p \in Pids, NEW r \in [pc : Pcs, env : Envs, img : 0..MaxStarts],
           Becomes(p, r)
    PROVE  /\ proc' \in [Pids -> [pc : Pcs, env : Envs, img : 0..MaxStarts]]
           /\ proc'[p] = r /\ \A q \in Pids \ {p} : proc'[q] = proc[q]
BY DEF RunnerTyped, Becomes

\* The process of a pid.
LEMMA ProcFacts ==
    ASSUME RunnerTyped, NEW p \in Pids
    PROVE  /\ proc[p] \in [pc : Pcs, env : Envs, img : 0..MaxStarts]
           /\ proc[p].pc \in Pcs /\ proc[p].env \in Envs /\ proc[p].img \in 0..MaxStarts
           /\ Persists(p) \in BOOLEAN
           /\ Data(p) \in Pids \cup {Sticky}
           /\ Persists(p) => Data(p) = Sticky
           /\ ~Persists(p) => Data(p) = p
           /\ Gone \in [pc : Pcs, env : Envs, img : 0..MaxStarts]
           /\ Gone.pc = "gone" /\ ~Gone.env.persist /\ Gone.img = None
BY RunnerAssumption DEF RunnerTyped, Persists, Data, Envs, Gone, Pcs, None

\* A process ends, by itself or killed, and may delete its own disk.
LEMMA ExitInd ==
    ASSUME IndInv, NEW p \in Pids, Exit(p),
           boot' \in {boot, [boot EXCEPT ![p] = "partial"], [boot EXCEPT ![p] = "absent"]},
           path' \in {path, [path EXCEPT ![p] = None]},
           UNCHANGED <<starts, image, user, overlap>>
    PROVE  IndInv'
<1> USE RunnerAssumption DEF IndInv
<1>1. Becomes(p, Gone) /\ broken' = (broken \/ (At(p, "format") /\ proc[p].env.persist))
    BY DEF Exit, Becomes
<1>2. /\ proc' \in [Pids -> [pc : Pcs, env : Envs, img : 0..MaxStarts]]
      /\ proc'[p] = Gone /\ \A q \in Pids \ {p} : proc'[q] = proc[q]
      /\ proc'[p].pc = "gone" /\ proc'[p].img = None /\ ~proc'[p].env.persist
    BY <1>1, BecomesFacts, ProcFacts
<1>3. /\ path' \in [Pids \cup {Sticky} -> 0..MaxStarts] /\ path'[Sticky] = path[Sticky]
      /\ path'[p] \in {path[p], None}
      /\ \A q \in Pids \ {p} : path'[q] = path[q]
    BY DEF RunnerTyped, None
<1>4. RunnerTyped'
    <2>1. broken' \in BOOLEAN
        BY <1>1
    <2> QED BY <1>2, <1>3, <2>1 DEF RunnerTyped
<1>5. Used' = Used /\ Early' \subseteq Early
    BY <1>2 DEF Used, Early
<1>6. UseInv'
    BY <1>2, <1>3, <1>5, CountLess DEF UseInv
<1>7. BootInv'
    BY <1>2 DEF BootInv, RunnerTyped
<1>8. PrivateInv'
    BY <1>2, <1>3 DEF PrivateInv, Persists
<1>9. SharedInv'
    <2>1. broken => broken'
        BY <1>1
    <2>2. (Persists(p) /\ proc[p].pc = "format") => broken'
        BY <1>1 DEF At, Persists
    <2> QED BY <1>2, <1>3, <2>1, <2>2 DEF SharedInv, Persists
<1> QED BY <1>4, <1>6, <1>7, <1>8, <1>9

\* cargo starts a process.
LEMMA StartInd ==
    ASSUME IndInv, NEW p \in Pids, NEW env \in Envs, Start(p, env)
    PROVE  IndInv'
<1> USE RunnerAssumption DEF IndInv
<1> DEFINE r == [pc |-> "boot", env |-> env, img |-> None]
<1>1. /\ proc[p].pc = "gone" /\ starts < MaxStarts /\ starts' = starts + 1
      /\ Becomes(p, r) /\ UNCHANGED <<boot, path, image, user, broken>>
      /\ overlap' = (overlap \/ (env.persist /\ \E q \in Pids \ {p} : proc[q].env.persist))
    BY DEF Start, Live, Becomes
<1>2. /\ proc' \in [Pids -> [pc : Pcs, env : Envs, img : 0..MaxStarts]]
      /\ proc'[p] = r /\ \A q \in Pids \ {p} : proc'[q] = proc[q]
      /\ proc'[p].pc = "boot" /\ proc'[p].img = None /\ proc'[p].env = env
    <2>1. r \in [pc : Pcs, env : Envs, img : 0..MaxStarts]
        BY DEF Pcs, None
    <2> QED BY <1>1, <2>1, BecomesFacts
<1>3. RunnerTyped'
    <2>1. overlap' \in BOOLEAN
        BY <1>1
    <2>2. starts' \in 0..MaxStarts
        BY <1>1 DEF RunnerTyped
    <2> QED BY <1>1, <1>2, <2>1, <2>2 DEF RunnerTyped
<1>4. UseInv'
    <2>1. Used' = Used
        BY <1>1 DEF Used
    <2>2. Early' = Early \cup {p} /\ p \notin Early
        BY <1>1, <1>2 DEF Early
    <2>3. Cardinality(Early') = Cardinality(Early) + 1
        BY <2>2, CountFacts, FS_AddElement
    <2>4. Cardinality(Used') + Cardinality(Early') <= starts'
        BY <1>1, <2>1, <2>3, CountFacts DEF UseInv, RunnerTyped
    <2> QED BY <1>1, <1>2, <2>1, <2>4 DEF UseInv
<1>5. BootInv'
    BY <1>1, <1>2 DEF BootInv
<1>6. PrivateInv'
    BY <1>1, <1>2 DEF PrivateInv, Persists
<1>7. SharedInv'
    <2>1. ~overlap' => ~overlap /\ (env.persist => \A q \in Pids \ {p} : ~Persists(q))
        BY <1>1 DEF Persists
    <2>2. \A q \in Pids : Persists(q)' <=> IF q = p THEN env.persist ELSE Persists(q)
        BY <1>2 DEF Persists
    <2>3. overlap => overlap'
        BY <1>1
    <2>4. \A q \in Pids : Persists(q) /\ proc[q].pc # "gone" => q # p
        BY <1>1
    <2> QED BY <1>1, <1>2, <2>1, <2>2, <2>3, <2>4 DEF SharedInv
<1> QED BY <1>3, <1>4, <1>5, <1>6, <1>7

\* A process gets on to its next place.
LEMMA GotoFacts ==
    ASSUME RunnerTyped, NEW p \in Pids, NEW l \in Pcs, proc' = [proc EXCEPT ![p].pc = l]
    PROVE  /\ proc' \in [Pids -> [pc : Pcs, env : Envs, img : 0..MaxStarts]]
           /\ proc'[p].pc = l /\ proc'[p].env = proc[p].env /\ proc'[p].img = proc[p].img
           /\ \A q \in Pids \ {p} : proc'[q] = proc[q]
           /\ \A q \in Pids : Persists(q)' <=> Persists(q)
<1>1. proc[p] \in [pc : Pcs, env : Envs, img : 0..MaxStarts]
    BY ProcFacts
<1>2. /\ proc' \in [Pids -> [pc : Pcs, env : Envs, img : 0..MaxStarts]]
      /\ proc'[p].pc = l /\ proc'[p].env = proc[p].env /\ proc'[p].img = proc[p].img
      /\ \A q \in Pids \ {p} : proc'[q] = proc[q]
    BY <1>1 DEF RunnerTyped
<1> QED BY <1>2 DEF Persists

\* create_disk_image has returned, or it is known whether a disk is to be built.
LEMMA ChooseInd ==
    ASSUME IndInv, NEW p \in Pids,
           \/ /\ At(p, "boot") /\ Goto(p, "choose") /\ boot' = [boot EXCEPT ![p] = "built"]
              /\ UNCHANGED <<starts, path, image, user, overlap>>
           \/ ChooseData(p)
    PROVE  IndInv'
<1> USE RunnerAssumption DEF IndInv
<1>1. /\ UNCHANGED <<starts, path, image, user, overlap, broken>>
      /\ proc[p].pc \in {"boot", "choose"}
      /\ boot' \in [Pids -> {"absent", "partial", "built"}]
      /\ boot'[p] = "built" /\ \A q \in Pids \ {p} : boot'[q] = boot[q]
    BY DEF Goto, At, ChooseData, BootInv, RunnerTyped
<1>2. PICK l \in {"choose", "unlink", "launch"} :
        /\ proc' = [proc EXCEPT ![p].pc = l]
        /\ l = "launch" => Persists(p)
        /\ (l = "unlink" /\ Persists(p)) => path[Sticky] = None
    BY ProcFacts DEF Goto, ChooseData, Persists
<1>3. /\ proc' \in [Pids -> [pc : Pcs, env : Envs, img : 0..MaxStarts]]
      /\ proc'[p].pc = l /\ proc'[p].env = proc[p].env /\ proc'[p].img = proc[p].img
      /\ \A q \in Pids \ {p} : proc'[q] = proc[q]
      /\ \A q \in Pids : Persists(q)' <=> Persists(q)
    <2>1. l \in Pcs /\ proc[p].img \in 0..MaxStarts
        BY ProcFacts DEF Pcs
    <2> QED BY <1>2, <2>1, GotoFacts
<1>4. RunnerTyped'
    BY <1>1, <1>3 DEF RunnerTyped
<1>5. Used' = Used /\ Early' \subseteq Early
    BY <1>1, <1>3 DEF Used, Early
<1>6. UseInv'
    BY <1>1, <1>2, <1>3, <1>5, CountLess DEF UseInv
<1>7. BootInv'
    BY <1>1, <1>3 DEF BootInv
<1>8. PrivateInv'
    BY <1>1, <1>2, <1>3 DEF PrivateInv
<1>9. SharedInv'
    BY <1>1, <1>2, <1>3 DEF SharedInv
<1> QED BY <1>4, <1>6, <1>7, <1>8, <1>9

\* build_data_disk removes what its name names.
LEMMA UnlinkInd ==
    ASSUME IndInv, NEW p \in Pids, UnlinkData(p)
    PROVE  IndInv'
<1> USE RunnerAssumption DEF IndInv
<1>1. /\ proc[p].pc = "unlink" /\ proc' = [proc EXCEPT ![p].pc = "create"]
      /\ path' \in {path, [path EXCEPT ![Data(p)] = None]}
      /\ UNCHANGED <<starts, boot, image, user, overlap, broken>>
    BY DEF UnlinkData, At, Goto
<1>2. /\ proc' \in [Pids -> [pc : Pcs, env : Envs, img : 0..MaxStarts]]
      /\ proc'[p].pc = "create" /\ proc'[p].img = proc[p].img
      /\ \A q \in Pids \ {p} : proc'[q] = proc[q]
      /\ \A q \in Pids : Persists(q)' <=> Persists(q)
    <2>1. "create" \in Pcs /\ proc[p].img \in 0..MaxStarts
        BY ProcFacts DEF Pcs
    <2> QED BY <1>1, <2>1, GotoFacts
<1>3. /\ path' \in [Pids \cup {Sticky} -> 0..MaxStarts]
      /\ path'[Data(p)] \in {path[Data(p)], None}
      /\ \A f \in (Pids \cup {Sticky}) \ {Data(p)} : path'[f] = path[f]
    BY <1>1, ProcFacts DEF RunnerTyped, None
<1>4. RunnerTyped'
    BY <1>1, <1>2, <1>3 DEF RunnerTyped
<1>5. Used' = Used /\ Early' \subseteq Early
    BY <1>1, <1>2 DEF Used, Early
<1>6. UseInv'
    BY <1>1, <1>2, <1>3, <1>5, CountLess DEF UseInv
<1>7. BootInv'
    BY <1>1, <1>2 DEF BootInv
<1>8. PrivateInv'
    <2> SUFFICES ASSUME NEW q \in Pids, ~Persists(q)',
                        proc'[q].pc \in {"format", "launch", "guest"}
                 PROVE  /\ proc'[q].img # None /\ path'[q] = proc'[q].img
                        /\ image'[proc'[q].img] = "seeded" \/ proc'[q].pc = "format"
                        /\ \A f \in (Pids \cup {Sticky}) \ {q} : path'[f] # proc'[q].img
                        /\ \A o \in Pids \ {q} : proc'[o].img # proc'[q].img
        BY DEF PrivateInv
    <2>1. q # p /\ q # Data(p)
        BY <1>2, ProcFacts
    <2> QED BY <1>1, <1>2, <1>3, <2>1 DEF PrivateInv
<1>9. SharedInv'
    <2>1. CASE Persists(p)
        BY <1>1, <1>2, <1>3, <2>1, ProcFacts DEF SharedInv
    <2>2. CASE ~Persists(p)
        <3>1. path'[Sticky] = path[Sticky]
            BY <1>3, <2>2, ProcFacts
        <3> QED BY <1>1, <1>2, <2>2, <3>1 DEF SharedInv
    <2> QED BY <2>1, <2>2
<1> QED BY <1>4, <1>6, <1>7, <1>8, <1>9

\* create_new succeeds: an image nobody has known before.
LEMMA CreateInd ==
    ASSUME IndInv, NEW p \in Pids, At(p, "create"),
           NEW i \in Images, image[i] = "absent",
           path[Data(p)] = None,
           proc' = [proc EXCEPT ![p].pc = "format", ![p].img = i],
           path' = [path EXCEPT ![Data(p)] = i],
           image' = [image EXCEPT ![i] = "partial"],
           UNCHANGED <<starts, boot, user, overlap, broken>>
    PROVE  IndInv'
<1> USE RunnerAssumption DEF IndInv
<1>0. p \in Early
    BY DEF Early, At
<1>1. i \in 0..MaxStarts /\ i # None /\ i \notin Used
    BY DEF Images, None, Used
<1>2. /\ proc' \in [Pids -> [pc : Pcs, env : Envs, img : 0..MaxStarts]]
      /\ proc'[p].pc = "format" /\ proc'[p].img = i
      /\ \A q \in Pids \ {p} : proc'[q] = proc[q]
      /\ \A q \in Pids : Persists(q)' <=> Persists(q)
    <2>1. "format" \in Pcs /\ proc[p] \in [pc : Pcs, env : Envs, img : 0..MaxStarts]
        BY ProcFacts DEF Pcs
    <2>2. /\ proc' \in [Pids -> [pc : Pcs, env : Envs, img : 0..MaxStarts]]
          /\ proc'[p].pc = "format" /\ proc'[p].img = i
          /\ proc'[p].env = proc[p].env
          /\ \A q \in Pids \ {p} : proc'[q] = proc[q]
        BY <1>1, <2>1 DEF RunnerTyped
    <2> QED BY <2>2 DEF Persists
<1>3. /\ path' \in [Pids \cup {Sticky} -> 0..MaxStarts]
      /\ path'[Data(p)] = i
      /\ \A f \in (Pids \cup {Sticky}) \ {Data(p)} : path'[f] = path[f]
    BY <1>1, ProcFacts DEF RunnerTyped
<1>4. /\ image' \in [Images -> {"absent", "partial", "seeded"}]
      /\ image'[i] = "partial" /\ \A j \in Images \ {i} : image'[j] = image[j]
    BY <1>1 DEF RunnerTyped
<1>5. RunnerTyped'
    BY <1>2, <1>3, <1>4 DEF RunnerTyped
<1>6. Used' = Used \cup {i} /\ Early' = Early \ {p}
    <2>1. Used' = Used \cup {i}
        BY <1>1, <1>4 DEF Used
    <2>2. Early' = Early \ {p}
        BY <1>2 DEF Early
    <2> QED BY <2>1, <2>2
<1>7. UseInv'
    <2>1. Cardinality(Used') = Cardinality(Used) + 1
        BY <1>1, <1>6, CountFacts, FS_AddElement
    <2>2. Cardinality(Early') = Cardinality(Early) - 1
        BY <1>0, <1>6, CountFacts, FS_RemoveElement
    <2>3. Cardinality(Used') + Cardinality(Early') <= starts'
        BY <2>1, <2>2, CountFacts DEF UseInv, RunnerTyped
    <2>4. \A f \in Pids \cup {Sticky} : path'[f] \in Used' \cup {None}
        BY <1>3, <1>6 DEF UseInv
    <2>5. \A q \in Pids : proc'[q].img \in Used' \cup {None}
        BY <1>2, <1>6 DEF UseInv
    <2> QED BY <1>1, <1>2, <2>3, <2>4, <2>5 DEF UseInv
<1>8. BootInv'
    BY <1>2 DEF BootInv, At
<1>9. PrivateInv'
    <2> SUFFICES ASSUME NEW q \in Pids, ~Persists(q),
                        proc'[q].pc \in {"format", "launch", "guest"}
                 PROVE  /\ proc'[q].img # None /\ path'[q] = proc'[q].img
                        /\ image'[proc'[q].img] = "seeded" \/ proc'[q].pc = "format"
                        /\ \A f \in (Pids \cup {Sticky}) \ {q} : path'[f] # proc'[q].img
                        /\ \A o \in Pids \ {q} : proc'[o].img # proc'[q].img
        BY <1>2 DEF PrivateInv
    <2>1. CASE q = p
        <3>1. Data(p) = p
            BY <2>1, ProcFacts
        <3>2. \A f \in (Pids \cup {Sticky}) \ {p} : path'[f] # i
            BY <1>1, <1>3, <3>1 DEF UseInv
        <3>3. \A o \in Pids \ {p} : proc'[o].img # i
            BY <1>1, <1>2 DEF UseInv
        <3> QED BY <1>1, <1>2, <1>3, <2>1, <3>1, <3>2, <3>3
    <2>2. CASE q # p
        <3>1. q # Data(p) /\ proc'[q] = proc[q] /\ proc[q].img \in Used
              /\ proc[q].img # i /\ proc[q].img \in Images
            BY <1>1, <1>2, <2>2, ProcFacts DEF PrivateInv, UseInv, Used
        <3> QED BY <1>2, <1>3, <1>4, <2>2, <3>1 DEF PrivateInv
    <2> QED BY <2>1, <2>2
<1>10. SharedInv'
    <2>1. \A q \in Pids : proc'[q].pc = "guest" =>
            q # p /\ proc'[q] = proc[q] /\ image'[proc[q].img] = image[proc[q].img]
        BY <1>1, <1>2, <1>4 DEF UseInv, Used
    <2>2. \A q \in Pids : proc'[q].pc \in {"unlink", "create"} =>
            q # p /\ proc'[q] = proc[q]
        BY <1>2
    <2>3. CASE Persists(p)
        <3>1. path'[Sticky] = i
            BY <1>3, <2>3, ProcFacts
        <3>2. \E q \in Pids : Persists(q)' /\ proc'[q].pc = "format" /\ proc'[q].img = i
            BY <1>2, <2>3
        <3> QED BY <1>2, <2>1, <2>2, <2>3, <3>1, <3>2 DEF SharedInv
    <2>4. CASE ~Persists(p)
        <3>1. path'[Sticky] = path[Sticky]
            BY <1>3, <2>4, ProcFacts
        <3>2. path[Sticky] # None => image'[path[Sticky]] = image[path[Sticky]]
            BY <1>1, <1>4 DEF UseInv, Used
        <3>3. \A q \in Pids : Persists(q) => proc'[q] = proc[q]
            BY <1>2, <2>4
        <3> QED BY <1>2, <2>1, <2>2, <2>4, <3>1, <3>2, <3>3 DEF SharedInv
    <2> QED BY <2>3, <2>4
<1> QED BY <1>5, <1>7, <1>8, <1>9, <1>10

\* build_data_disk reaches its end.
LEMMA FormatInd ==
    ASSUME IndInv, NEW p \in Pids, At(p, "format"), Goto(p, "launch"),
           image' = [image EXCEPT ![proc[p].img] = "seeded"],
           UNCHANGED <<starts, boot, path, user, overlap>>
    PROVE  IndInv'
<1> USE RunnerAssumption DEF IndInv
<1>0. proc[p].pc = "format" /\ proc' = [proc EXCEPT ![p].pc = "launch"] /\ broken' = broken
    BY DEF At, Goto
<1>1. /\ proc' \in [Pids -> [pc : Pcs, env : Envs, img : 0..MaxStarts]]
      /\ proc'[p].pc = "launch" /\ proc'[p].img = proc[p].img
      /\ \A q \in Pids \ {p} : proc'[q] = proc[q]
      /\ \A q \in Pids : Persists(q)' <=> Persists(q)
    <2>1. "launch" \in Pcs
        BY DEF Pcs
    <2> QED BY <1>0, <2>1, GotoFacts
<1>2. proc[p].img \in Used /\ proc[p].img \in Images /\ image[proc[p].img] # "absent"
    BY <1>0 DEF UseInv, Used
<1>3. /\ image' \in [Images -> {"absent", "partial", "seeded"}]
      /\ image'[proc[p].img] = "seeded"
      /\ \A j \in Images : image'[j] \in {image[j], "seeded"}
    BY <1>2 DEF RunnerTyped
<1>4. RunnerTyped'
    BY <1>0, <1>1, <1>3 DEF RunnerTyped
<1>5. Used' = Used /\ Early' \subseteq Early
    <2>1. \A j \in Images : image'[j] = "absent" <=> image[j] = "absent"
        BY <1>2, <1>3 DEF RunnerTyped
    <2> QED BY <1>1, <2>1 DEF Used, Early
<1>6. UseInv'
    BY <1>1, <1>5, CountLess DEF UseInv
<1>7. BootInv'
    BY <1>0, <1>1 DEF BootInv
<1>8. \A q \in Pids : proc'[q].img = proc[q].img
    BY <1>1
<1>9. PrivateInv'
    <2> SUFFICES ASSUME NEW q \in Pids, ~Persists(q),
                        proc'[q].pc \in {"format", "launch", "guest"}
                 PROVE  /\ proc[q].img # None /\ path[q] = proc[q].img
                        /\ image'[proc[q].img] = "seeded" \/ proc'[q].pc = "format"
                        /\ \A f \in (Pids \cup {Sticky}) \ {q} : path[f] # proc[q].img
                        /\ \A o \in Pids \ {q} : proc[o].img # proc[q].img
        BY <1>1, <1>8 DEF PrivateInv
    <2>1. proc[q].pc \in {"format", "launch", "guest"}
        BY <1>0, <1>1
    <2>2. image'[proc[q].img] = "seeded" \/ proc'[q].pc = "format"
        <3>1. CASE q = p
            BY <1>3, <3>1
        <3>2. CASE q # p
            <4>1. proc[q].img \in Images
                BY <2>1 DEF PrivateInv, UseInv, Used
            <4> QED BY <1>1, <1>3, <2>1, <3>2, <4>1 DEF PrivateInv
        <3> QED BY <3>1, <3>2
    <2> QED BY <2>1, <2>2 DEF PrivateInv
<1>10. SharedInv'
    <2>1. \A j \in Images : image[j] = "seeded" => image'[j] = "seeded"
        BY <1>3
    <2>2. path[Sticky] # None => path[Sticky] \in Images
        BY DEF UseInv, Used
    <2>3. \A q \in Pids : proc'[q].pc = "guest" =>
            proc[q].pc = "guest" /\ proc[q].img \in Images
        BY <1>1 DEF UseInv, Used
    <2>4. \A q \in Pids : proc'[q].pc \in {"unlink", "create"} => proc'[q].pc = proc[q].pc
        BY <1>1
    <2>5. ASSUME ~overlap, ~broken, path[Sticky] # None
          PROVE  \/ image'[path[Sticky]] = "seeded"
                 \/ \E q \in Pids : Persists(q) /\ proc'[q].pc = "format"
                                       /\ proc'[q].img = path[Sticky]
        <3>1. CASE image[path[Sticky]] = "seeded"
            BY <2>1, <2>2, <2>5, <3>1
        <3>2. CASE \E q \in Pids : Persists(q) /\ proc[q].pc = "format"
                                       /\ proc[q].img = path[Sticky]
            BY <1>1, <1>3, <3>2
        <3> QED BY <2>5, <3>1, <3>2 DEF SharedInv
    <2> QED BY <1>0, <1>1, <1>8, <2>1, <2>3, <2>4, <2>5 DEF SharedInv
<1> QED BY <1>4, <1>6, <1>7, <1>9, <1>10

\* QEMU opens the disk that the name names.
LEMMA LaunchInd ==
    ASSUME IndInv, NEW p \in Pids, At(p, "launch"), path[Data(p)] # None,
           proc' = [proc EXCEPT ![p].pc = "guest", ![p].img = path[Data(p)]],
           UNCHANGED <<starts, boot, path, image, user, overlap, broken>>
    PROVE  IndInv'
<1> USE RunnerAssumption DEF IndInv
<1> DEFINE i == path[Data(p)]
<1>0. proc[p].pc = "launch" /\ i \in 0..MaxStarts /\ i \in Used /\ i \in Images
    BY ProcFacts DEF At, RunnerTyped, UseInv, Used
<1>1. /\ proc' \in [Pids -> [pc : Pcs, env : Envs, img : 0..MaxStarts]]
      /\ proc'[p].pc = "guest" /\ proc'[p].img = i
      /\ \A q \in Pids \ {p} : proc'[q] = proc[q]
      /\ \A q \in Pids : Persists(q)' <=> Persists(q)
    <2>1. "guest" \in Pcs /\ proc[p] \in [pc : Pcs, env : Envs, img : 0..MaxStarts]
        BY ProcFacts DEF Pcs
    <2>2. /\ proc' \in [Pids -> [pc : Pcs, env : Envs, img : 0..MaxStarts]]
          /\ proc'[p].pc = "guest" /\ proc'[p].img = i
          /\ proc'[p].env = proc[p].env
          /\ \A q \in Pids \ {p} : proc'[q] = proc[q]
        BY <1>0, <2>1 DEF RunnerTyped
    <2> QED BY <2>2 DEF Persists
<1>4. RunnerTyped'
    BY <1>1 DEF RunnerTyped
<1>5. Used' = Used /\ Early' \subseteq Early
    BY <1>1 DEF Used, Early
<1>6. UseInv'
    BY <1>0, <1>1, <1>5, CountLess DEF UseInv
<1>7. BootInv'
    BY <1>0, <1>1 DEF BootInv
<1>8. PrivateInv'
    <2> SUFFICES ASSUME NEW q \in Pids, ~Persists(q),
                        proc'[q].pc \in {"format", "launch", "guest"}
                 PROVE  /\ proc'[q].img # None /\ path[q] = proc'[q].img
                        /\ image[proc'[q].img] = "seeded" \/ proc'[q].pc = "format"
                        /\ \A f \in (Pids \cup {Sticky}) \ {q} : path[f] # proc'[q].img
                        /\ \A o \in Pids \ {q} : proc'[o].img # proc'[q].img
        BY <1>1 DEF PrivateInv
    <2>1. CASE q = p
        <3>1. Data(p) = p /\ proc[p].img = i
            BY <1>0, <2>1, ProcFacts DEF PrivateInv
        <3> QED BY <1>0, <1>1, <2>1, <3>1 DEF PrivateInv
    <2>2. CASE q # p
        <3>1. Data(p) # q /\ proc'[q] = proc[q] /\ Data(p) \in Pids \cup {Sticky}
            BY <1>1, <2>2, ProcFacts
        <3>2. i # proc[q].img
            BY <2>2, <3>1 DEF PrivateInv
        <3> QED BY <1>1, <2>2, <3>1, <3>2 DEF PrivateInv
    <2> QED BY <2>1, <2>2
<1>9. SharedInv'
    <2>1. ASSUME Persists(p), ~broken, ~overlap
          PROVE  image[i] = "seeded"
        <3>1. i = path[Sticky]
            BY <2>1, ProcFacts
        <3> QED BY <1>0, <2>1, <3>1 DEF SharedInv
    <2>2. \A q \in Pids : proc'[q].pc \in {"unlink", "create"} => proc'[q] = proc[q]
        BY <1>1
    <2>3. \A q \in Pids : proc[q].pc = "format" => proc'[q] = proc[q]
        BY <1>0, <1>1
    <2>4. \A q \in Pids : proc'[q].pc = "guest" => q = p \/ proc'[q] = proc[q]
        BY <1>1
    <2> QED BY <1>1, <2>1, <2>2, <2>3, <2>4 DEF SharedInv
<1> QED BY <1>4, <1>6, <1>7, <1>8, <1>9

\* The guest has ended or never begun, and its images are deleted.
LEMMA RemoveInd ==
    ASSUME IndInv, NEW p \in Pids, NEW l \in {"remove", "removedata"},
           proc[p].pc # "format", Goto(p, l),
           \/ boot' = boot
           \/ l = "removedata" /\ boot' = [boot EXCEPT ![p] = "absent"],
           l = "remove" => boot[p] = "built",
           UNCHANGED <<starts, path, image, user, overlap>>
    PROVE  IndInv'
<1> USE RunnerAssumption DEF IndInv
<1>1. proc' = [proc EXCEPT ![p].pc = l] /\ broken' = broken
    BY DEF Goto
<1>2. /\ proc' \in [Pids -> [pc : Pcs, env : Envs, img : 0..MaxStarts]]
      /\ proc'[p].pc = l /\ proc'[p].img = proc[p].img
      /\ \A q \in Pids \ {p} : proc'[q] = proc[q]
      /\ \A q \in Pids : Persists(q)' <=> Persists(q)
    <2>1. l \in Pcs
        BY DEF Pcs
    <2> QED BY <1>1, <2>1, GotoFacts
<1>3. /\ boot' \in [Pids -> {"absent", "partial", "built"}]
      /\ l = "remove" => boot'[p] = "built"
      /\ \A q \in Pids \ {p} : boot'[q] = boot[q]
    BY DEF RunnerTyped
<1>4. RunnerTyped'
    BY <1>1, <1>2, <1>3 DEF RunnerTyped
<1>5. Used' = Used /\ Early' \subseteq Early
    BY <1>2 DEF Used, Early
<1>6. UseInv'
    BY <1>2, <1>5, CountLess DEF UseInv
<1>7. BootInv'
    BY <1>2, <1>3 DEF BootInv
<1>8. \A q \in Pids : proc'[q].img = proc[q].img
    BY <1>2
<1>9. PrivateInv'
    BY <1>2, <1>8 DEF PrivateInv
<1>10. SharedInv'
    BY <1>1, <1>2 DEF SharedInv
<1> QED BY <1>4, <1>6, <1>7, <1>9, <1>10

\* Its images are deleted, or kept.
LEMMA CleanUpInd ==
    ASSUME IndInv, NEW p \in Pids, At(p, "launch") \/ At(p, "guest"), CleanUp(p),
           UNCHANGED <<starts, boot, path, image, user, overlap>>
    PROVE  IndInv'
<1>1. boot[p] = "built" /\ proc[p].pc # "format"
    BY DEF At, IndInv, BootInv
<1>2. CASE Exit(p)
    BY <1>2, ExitInd
<1>3. CASE Goto(p, "remove")
    BY <1>1, <1>3, RemoveInd
<1> QED BY <1>2, <1>3 DEF CleanUp

\* A guest writes, or nothing happens.
LEMMA QuietInd ==
    ASSUME IndInv,
           (\E p \in Pids : GuestWrites(p)) \/ UNCHANGED vars
    PROVE  IndInv'
<1> USE RunnerAssumption DEF IndInv, vars
<1>1. UNCHANGED <<starts, proc, boot, path, image, overlap, broken>>
    BY DEF GuestWrites
<1>2. user' \subseteq Images
    <2>1. CASE UNCHANGED vars
        BY <2>1 DEF RunnerTyped
    <2>2. ASSUME NEW p \in Pids, GuestWrites(p)
          PROVE  user' \subseteq Images
        <3>1. proc[p].img \in Images
            BY <2>2 DEF GuestWrites, At, UseInv, Used
        <3> QED BY <2>2, <3>1 DEF GuestWrites, RunnerTyped
    <2> QED BY <2>1, <2>2
<1>3. RunnerTyped'
    BY <1>1, <1>2 DEF RunnerTyped
<1>4. Used' = Used /\ Early' = Early /\ \A q \in Pids : Persists(q)' <=> Persists(q)
    BY <1>1 DEF Used, Early, Persists
<1>5. UseInv' /\ BootInv'
    BY <1>1, <1>4 DEF UseInv, BootInv
<1>6. PrivateInv' /\ SharedInv'
    BY <1>1, <1>4 DEF PrivateInv, SharedInv
<1> QED BY <1>3, <1>5, <1>6

\* Nobody has run yet.
LEMMA InitInd == Init => IndInv
<1> SUFFICES ASSUME Init PROVE IndInv
    OBVIOUS
<1> USE RunnerAssumption DEF Init
<1>0. Gone \in [pc : Pcs, env : Envs, img : 0..MaxStarts]
      /\ Gone.pc = "gone" /\ ~Gone.env.persist /\ Gone.img = None
    BY DEF Gone, Envs, Pcs, None
<1>1. RunnerTyped
    <2>1. overlap \in BOOLEAN /\ broken \in BOOLEAN
        BY Zenon
    <2> QED BY <1>0, <2>1 DEF RunnerTyped, None
<1>2. \A p \in Pids : proc[p].pc = "gone" /\ proc[p].img = None /\ ~Persists(p)
    BY <1>0 DEF Persists
<1>3. UseInv
    <2>1. Used = {} /\ Early = {}
        BY <1>2 DEF Used, Early
    <2> QED BY <1>2, <2>1, FS_EmptySet DEF UseInv
<1>4. BootInv /\ PrivateInv /\ SharedInv
    BY <1>2 DEF BootInv, PrivateInv, SharedInv
<1> QED BY <1>1, <1>3, <1>4 DEF IndInv

\* Every step of every process.
LEMMA NextInd ==
    ASSUME IndInv, [Next]_vars
    PROVE  IndInv'
<1>1. CASE UNCHANGED vars
    BY <1>1, QuietInd
<1>2. ASSUME NEW p \in Pids,
             \/ \E env \in Envs : Start(p, env)
             \/ BuildBoot(p) \/ ChooseData(p) \/ UnlinkData(p) \/ CreateData(p)
             \/ FormatData(p) \/ VBox(p) \/ Launch(p) \/ GuestWrites(p)
             \/ Finish(p) \/ RemoveBoot(p) \/ RemoveData(p) \/ Killed(p)
      PROVE  IndInv'
    <2>1. CASE \E env \in Envs : Start(p, env)
        BY <2>1, StartInd
    <2>2. CASE BuildBoot(p)
        BY <2>2, ChooseInd, ExitInd DEF BuildBoot
    <2>3. CASE ChooseData(p)
        BY <2>3, ChooseInd
    <2>4. CASE UnlinkData(p)
        BY <2>4, UnlinkInd
    <2>5. CASE CreateData(p)
        <3>1. CASE Exit(p) /\ UNCHANGED <<path, image>>
            BY <2>5, <3>1, ExitInd DEF CreateData
        <3>2. CASE ~(Exit(p) /\ UNCHANGED <<path, image>>)
            <4>1. RunnerTyped /\ UseInv /\ p \in Early
                BY <2>5 DEF IndInv, CreateData, At, Early
            <4>2. \E j \in Images : image[j] = "absent"
                BY <4>1, FreshImage
            <4>3. PICK i : i = CHOOSE j \in Images : image[j] = "absent"
                OBVIOUS
            <4>4. i \in Images /\ image[i] = "absent"
                BY <4>2, <4>3
            <4>5. /\ At(p, "create") /\ path[Data(p)] = None
                  /\ proc' = [proc EXCEPT ![p].pc = "format", ![p].img = i]
                  /\ path' = [path EXCEPT ![Data(p)] = i]
                  /\ image' = [image EXCEPT ![i] = "partial"]
                  /\ UNCHANGED <<starts, boot, user, overlap, broken>>
                BY <2>5, <3>2, <4>3 DEF CreateData
            <4> QED BY <4>4, <4>5, CreateInd
        <3> QED BY <3>1, <3>2
    <2>6. CASE FormatData(p)
        BY <2>6, FormatInd, ExitInd DEF FormatData
    <2>7. CASE VBox(p) \/ Killed(p)
        BY <2>7, ExitInd DEF VBox, Killed
    <2>8. CASE Launch(p)
        <3>1. CASE CleanUp(p)
            BY <2>8, <3>1, CleanUpInd DEF Launch
        <3>2. CASE ~CleanUp(p)
            <4>1. /\ At(p, "launch") /\ path[Data(p)] # None
                  /\ proc' = [proc EXCEPT ![p].pc = "guest", ![p].img = path[Data(p)]]
                  /\ UNCHANGED <<starts, boot, path, image, user, overlap, broken>>
                BY <2>8, <3>2 DEF Launch
            <4> QED BY <4>1, LaunchInd
        <3> QED BY <3>1, <3>2
    <2>9. CASE GuestWrites(p)
        BY <2>9, QuietInd
    <2>10. CASE Finish(p)
        BY <2>10, CleanUpInd DEF Finish
    <2>11. CASE RemoveBoot(p)
        BY <2>11, ExitInd, RemoveInd DEF RemoveBoot, At
    <2>12. CASE RemoveData(p)
        BY <2>12, ExitInd DEF RemoveData
    <2> QED BY <1>2, <2>1, <2>2, <2>3, <2>4, <2>5, <2>6, <2>7, <2>8, <2>9, <2>10, <2>11, <2>12
<1> QED BY <1>1, <1>2 DEF Next

-----------------------------------------------------------------------------
\* Wherever processes start, meet, fail and are killed.
THEOREM Inductive == Spec => []IndInv
<1>1. Init => IndInv
    BY InitInd
<1>2. IndInv /\ [Next]_vars => IndInv'
    BY NextInd
<1> QED BY <1>1, <1>2, PTL DEF Spec

\* Every guest has a boot image and a data disk it can mount.
THEOREM GuestsCanMount == Spec => []SomethingToMount
<1>1. IndInv => SomethingToMount
    <2> SUFFICES ASSUME IndInv, NEW p \in Pids, proc[p].pc = "guest"
                 PROVE  /\ boot[p] = "built"
                        /\ \/ image[proc[p].img] = "seeded"
                           \/ proc[p].env.persist /\ (broken \/ overlap)
                        /\ ~proc[p].env.persist =>
                              /\ path[p] = proc[p].img
                              /\ \A q \in Pids \ {p} : proc[q].img # proc[p].img
        BY DEF SomethingToMount, At
    <2>1. boot[p] = "built"
        BY DEF IndInv, BootInv
    <2>2. CASE Persists(p)
        BY <2>1, <2>2 DEF IndInv, SharedInv, Persists
    <2>3. CASE ~Persists(p)
        BY <2>1, <2>3 DEF IndInv, PrivateInv, Persists
    <2> QED BY <2>2, <2>3
<1> QED BY <1>1, Inductive, PTL

\* Of one process, only build_data_disk and the clean-up touch a name, and the
\* persistent name is touched only where there is no disk.
LEMMA StickyStep ==
    ASSUME IndInv, [Next]_vars, path[Sticky] \in user, ~overlap
    PROVE  path'[Sticky] = path[Sticky]
<1> USE RunnerAssumption DEF IndInv
<1>0. path[Sticky] # None
    BY DEF RunnerTyped, Images, None
<1>1. CASE UNCHANGED vars
    BY <1>1 DEF vars
<1>2. ASSUME NEW p \in Pids, UnlinkData(p) \/ CreateData(p)
      PROVE  path'[Sticky] = path[Sticky]
    <2>1. CASE Persists(p)
        BY <1>0, <1>2, <2>1 DEF SharedInv, UnlinkData, CreateData, At, Persists, Exit
    <2>2. CASE ~Persists(p)
        <3>1. Data(p) # Sticky /\ Data(p) \in Pids
            BY <2>2, ProcFacts
        <3> QED BY <1>2, <3>1 DEF UnlinkData, CreateData, RunnerTyped
    <2> QED BY <2>1, <2>2
<1>3. ASSUME NEW p \in Pids, RemoveData(p)
      PROVE  path'[Sticky] = path[Sticky]
    BY <1>3 DEF RemoveData, RunnerTyped
<1>4. ASSUME NEW p \in Pids,
             \/ \E env \in Envs : Start(p, env)
             \/ BuildBoot(p) \/ ChooseData(p) \/ FormatData(p) \/ VBox(p)
             \/ Launch(p) \/ GuestWrites(p) \/ Finish(p) \/ RemoveBoot(p) \/ Killed(p)
      PROVE  path'[Sticky] = path[Sticky]
    BY <1>4 DEF Start, BuildBoot, ChooseData, FormatData, VBox, Launch, GuestWrites, Finish,
                RemoveBoot, Killed
<1> QED BY <1>1, <1>2, <1>3, <1>4 DEF Next

\* No run replaces or deletes the persistent disk once it holds files.
THEOREM PersistentFilesKept == Spec => UserFilesKept
<1>1. IndInv /\ [Next]_vars =>
        [(path[Sticky] \in user /\ ~overlap) => path'[Sticky] = path[Sticky]]_vars
    BY StickyStep
<1> QED BY <1>1, Inductive, PTL DEF Spec, UserFilesKept
=============================================================================

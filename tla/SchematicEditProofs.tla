-------------------------- MODULE SchematicEditProofs --------------------------
(* Proofs about the edits of schematic files: that a call which fails leaves the *)
(* files as they were (FailureRestores), that a call which is accepted did what  *)
(* its commands say and nothing else (OnlyTheNamedChange), that no two symbols   *)
(* come to share a reference (ReferencesStayApart), and that an added label is   *)
(* on the net of the labels it shares its name with (LabelsStayTogether).  They  *)
(* hold for every set of projects, commands and bounds that meets the            *)
(* assumptions of SchematicEdit.                                                 *)
EXTENDS SchematicEdit, FiniteSetTheorems, FunctionTheorems, WellFoundedInduction, TLAPS

-----------------------------------------------------------------------------
(* Induction over numbers. *)

\* A nonempty set of natural numbers has a least element.
LEMMA Smallest ==
  ASSUME NEW T, T \subseteq Nat, T # {}
  PROVE  \E n \in T : \A m \in T : ~(m < n)
<1>1. PICK n \in T : \A m \in T : ~(<<m, n>> \in OpToRel(<, Nat))
  BY WFMin, NatLessThanWellFounded
<1>2. \A m \in T : <<m, n>> \in OpToRel(<, Nat) <=> m < n
  BY DEF OpToRel
<1> QED BY <1>1, <1>2

\* What holds of 1 and of the successor of every number it holds of holds up to N.
LEMMA UpTo ==
  ASSUME NEW N \in Nat, NEW G, 1 \in G, \A n \in 1 .. N - 1 : n \in G => n + 1 \in G
  PROVE  1 .. N \subseteq G
<1> SUFFICES ASSUME ~(1 .. N \subseteq G) PROVE FALSE
  OBVIOUS
<1> DEFINE T == (1 .. N) \ G
<1>1. T # {} /\ T \subseteq Nat
  OBVIOUS
<1>2. PICK n \in T : \A m \in T : ~(m < n)
  BY <1>1, Smallest
<1>3. n # 1 /\ n - 1 \in 1 .. N - 1
  OBVIOUS
<1>4. n - 1 \in G
  BY <1>2, <1>3
<1> QED BY <1>4, <1>3

-----------------------------------------------------------------------------
(* The hierarchy of a project that can be read. *)

\* The instances one level below a set of instances.
Below(files, insts) == UNION {ChildrenOf(files, inst) : inst \in insts}

IsLevels(files, level, n) ==
  level = [m \in 1 .. n |-> IF m = 1 THEN {Top(files)} ELSE Below(files, level[m - 1])]

\* There are levels down to every depth.
LEMMA LevelsExist ==
  ASSUME NEW files, NEW N \in Nat
  PROVE  \E level : IsLevels(files, level, N)
<1> DEFINE G == {n \in Nat : \E level : IsLevels(files, level, n)}
<1>1. 1 \in G
  <2> DEFINE level == [m \in 1 .. 1 |-> {Top(files)}]
  <2>1. \A m \in 1 .. 1 : m = 1
    OBVIOUS
  <2>2. IsLevels(files, level, 1)
    BY <2>1 DEF IsLevels
  <2> QED BY <2>2
<1>2. ASSUME NEW n \in Nat, n \in G, n > 0 PROVE n + 1 \in G
  <2>1. PICK level : IsLevels(files, level, n)
    BY <1>2
  <2> DEFINE next == [m \in 1 .. n + 1 |-> IF m = n + 1 THEN Below(files, level[n]) ELSE level[m]]
  <2>2. \A m \in 1 .. n : level[m] = IF m = 1 THEN {Top(files)} ELSE Below(files, level[m - 1])
    BY <2>1 DEF IsLevels
  <2>3. ASSUME NEW m \in 1 .. n + 1
        PROVE  next[m] = IF m = 1 THEN {Top(files)} ELSE Below(files, next[m - 1])
    <3>1. CASE m = n + 1
      BY <3>1, <1>2
    <3>2. CASE m # n + 1
      <4>1. m \in 1 .. n /\ next[m] = level[m]
        BY <3>2
      <4>2. m # 1 => m - 1 \in 1 .. n /\ next[m - 1] = level[m - 1]
        BY <4>1
      <4> QED BY <2>2, <4>1, <4>2
    <3> QED BY <3>1, <3>2
  <2>4. next = [m \in 1 .. n + 1 |-> next[m]]
    OBVIOUS
  <2> HIDE DEF next
  <2>5. IsLevels(files, next, n + 1)
    BY <2>3, <2>4 DEF IsLevels
  <2> QED BY <2>5
<1>3. 0 \in G
  <2>1. IsLevels(files, [m \in 1 .. 0 |-> {}], 0)
    BY DEF IsLevels
  <2> QED BY <2>1
<1>4. N = 0 \/ N \in 1 .. N
  OBVIOUS
<1> HIDE DEF G
<1>5. 1 .. N \subseteq G
  BY <1>1, <1>2, UpTo
<1>6. N \in G
  BY <1>3, <1>4, <1>5
<1> QED BY <1>6 DEF G

\* The levels the code walks through are these.
LEMMA LevelsAre ==
  ASSUME NEW files, IsFiniteSet(Present(files))
  PROVE  IsLevels(files, Levels(files), Cardinality(Present(files)))
<1> DEFINE N == Cardinality(Present(files))
<1>1. N \in Nat
  BY FS_CardinalityType
<1>2. Levels(files) = CHOOSE level : IsLevels(files, level, N)
  BY DEF Levels, IsLevels, Below
<1>3. \E level : IsLevels(files, level, N)
  BY <1>1, LevelsExist
<1> QED BY <1>2, <1>3

\* The root sheet is that of a file that is there.
LEMMA TopIs ==
  ASSUME NEW files, Parsable(files)
  PROVE  /\ Top(files).file \in Roots(files) /\ Top(files).file \in Present(files)
         /\ Top(files).trail = {Top(files).file}
<1>1. Roots(files) # {}
  BY FS_EmptySet DEF Parsable
<1> DEFINE root == CHOOSE f \in Roots(files) : TRUE
<1>2. root \in Roots(files)
  BY <1>1
<1>3. Top(files).file = root /\ Top(files).trail = {root}
  BY DEF Top
<1> QED BY <1>2, <1>3 DEF Roots

\* At depth n, n different files have been passed.
LEMMA TrailsGrow ==
  ASSUME NEW files, IsFiniteSet(Present(files)), Parsable(files),
         NEW n \in 1 .. Cardinality(Present(files)), NEW inst \in Levels(files)[n]
  PROVE  /\ inst.file \in Present(files) /\ inst.trail \subseteq Present(files)
         /\ Cardinality(inst.trail) = n
<1> DEFINE N == Cardinality(Present(files))
           level == Levels(files)
           Good(i, m) == /\ i.file \in Present(files) /\ i.trail \subseteq Present(files)
                         /\ Cardinality(i.trail) = m
           G == {m \in 1 .. N : \A i \in level[m] : Good(i, m)}
<1>1. N \in Nat /\ 1 \in 1 .. N
  BY FS_CardinalityType
<1>2. \A m \in 1 .. N : level[m] = IF m = 1 THEN {Top(files)} ELSE Below(files, level[m - 1])
  BY LevelsAre DEF IsLevels
<1>3. ChildFiles(files) \subseteq Present(files)
  BY DEF Parsable
<1> HIDE DEF N, level
<1>4. 1 \in G
  <2>1. Cardinality({Top(files).file}) = 1
    BY FS_Singleton
  <2>2. level[1] = {Top(files)}
    BY <1>1, <1>2
  <2> QED BY <1>1, <2>1, <2>2, TopIs
<1>5. ASSUME NEW m \in 1 .. N - 1, m \in G PROVE m + 1 \in G
  <2>1. m + 1 \in 1 .. N /\ m \in 1 .. N
    BY <1>1, <1>5
  <2>2. level[m + 1] = Below(files, level[m])
    BY <1>1, <1>2, <2>1
  <2>3. ASSUME NEW i \in level[m + 1] PROVE Good(i, m + 1)
    <3>1. PICK p \in level[m] : i \in ChildrenOf(files, p)
      BY <2>2, <2>3 DEF Below
    <3>2. PICK s \in files[p.file].sheets : /\ s.file \notin p.trail /\ i.file = s.file
                                           /\ i.trail = p.trail \cup {s.file}
      BY <3>1 DEF ChildrenOf
    <3>3. Good(p, m)
      BY <1>5
    <3>4. s.file \in Present(files)
      BY <1>3, <3>2, <3>3 DEF ChildFiles
    <3>5. IsFiniteSet(p.trail)
      BY <3>3, FS_Subset
    <3>6. Cardinality(i.trail) = m + 1
      BY <3>2, <3>3, <3>5, FS_AddElement
    <3> QED BY <3>2, <3>3, <3>4, <3>6
  <2> QED BY <2>1, <2>3
<1> HIDE DEF G
<1>6. 1 .. N \subseteq G
  BY <1>1, <1>4, <1>5, UpTo
<1> QED BY <1>6 DEF G, N, level

\* The instances are closed: what an instance places is an instance.  No instance is deeper
\* than there are files, as one of that depth has passed every file.
LEMMA InstancesAreClosed ==
  ASSUME NEW files, IsFiniteSet(Present(files)), Parsable(files)
  PROVE  /\ Top(files) \in Instances(files)
         /\ \A inst \in Instances(files) :
              inst.file \in Present(files) /\ ChildrenOf(files, inst) \subseteq Instances(files)
<1> DEFINE N == Cardinality(Present(files))
           level == Levels(files)
<1>1. N \in Nat
  BY FS_CardinalityType
<1>2. \A m \in 1 .. N : level[m] = IF m = 1 THEN {Top(files)} ELSE Below(files, level[m - 1])
  BY LevelsAre DEF IsLevels
<1>3. N # 0
  BY TopIs, FS_EmptySet
<1>4. \A inst : inst \in Instances(files) <=> \E n \in 1 .. N : inst \in level[n]
  BY DEF Instances
<1>5. ASSUME NEW n \in 1 .. N, NEW inst \in level[n]
      PROVE  inst.file \in Present(files) /\ inst.trail \subseteq Present(files) /\ Cardinality(inst.trail) = n
  BY <1>5, TrailsGrow
<1>6. ChildFiles(files) \subseteq Present(files)
  BY DEF Parsable
<1> HIDE DEF level
<1>7. ASSUME NEW inst \in Instances(files), NEW i \in ChildrenOf(files, inst)
      PROVE  i \in Instances(files)
  <2>1. PICK n \in 1 .. N : inst \in level[n]
    BY <1>4
  <2>2. CASE n = N
    <3>1. inst.trail = Present(files)
      BY <1>5, <2>1, <2>2, FS_Subset
    <3>2. PICK s \in files[inst.file].sheets : s.file \notin inst.trail
      BY <1>7 DEF ChildrenOf
    <3>3. s.file \in Present(files)
      BY <1>5, <1>6, <2>1, <3>2 DEF ChildFiles
    <3> QED BY <3>1, <3>2, <3>3
  <2>3. CASE n # N
    <3>1. n + 1 \in 1 .. N /\ n + 1 # 1 /\ (n + 1) - 1 = n
      BY <1>1, <2>3
    <3>2. level[n + 1] = Below(files, level[n])
      BY <1>2, <3>1
    <3>3. i \in level[n + 1]
      BY <2>1, <3>2 DEF Below
    <3> QED BY <1>4, <3>1, <3>3
  <2> QED BY <2>2, <2>3
<1>8. Top(files) \in Instances(files)
  BY <1>1, <1>2, <1>3, <1>4
<1>9. \A inst \in Instances(files) : inst.file \in Present(files)
  BY <1>4, <1>5
<1> QED BY <1>7, <1>8, <1>9

\* The instances a schematic is read as (the levels of _sheet_instances) are the least set with the
\* root that holds the children of its members.
THEOREM InstancesAreLeast ==
  ASSUME NEW files, IsFiniteSet(Present(files)), NEW G, Top(files) \in G,
         \A inst \in G : ChildrenOf(files, inst) \subseteq G
  PROVE  Instances(files) \subseteq G
<1> DEFINE N == Cardinality(Present(files))
           level == Levels(files)
           D == {n \in 1 .. N : level[n] \subseteq G}
<1>1. N \in Nat
  BY FS_CardinalityType
<1>2. \A m \in 1 .. N : level[m] = IF m = 1 THEN {Top(files)} ELSE Below(files, level[m - 1])
  BY LevelsAre DEF IsLevels
<1>3. \A inst : inst \in Instances(files) <=> \E n \in 1 .. N : inst \in level[n]
  BY DEF Instances
<1> HIDE DEF N, level
<1>4. CASE N = 0
  BY <1>3, <1>4
<1>5. CASE N # 0
  <2>1. 1 \in D
    BY <1>1, <1>2, <1>5
  <2>2. ASSUME NEW m \in 1 .. N - 1, m \in D PROVE m + 1 \in D
    <3>1. m + 1 \in 1 .. N /\ m + 1 # 1 /\ (m + 1) - 1 = m
      BY <1>1, <2>2
    <3>2. level[m + 1] = Below(files, level[m])
      BY <1>2, <3>1
    <3>3. level[m + 1] \subseteq G
      BY <2>2, <3>2 DEF Below
    <3> QED BY <3>1, <3>3
  <2> HIDE DEF D
  <2>3. 1 .. N \subseteq D
    BY <1>1, <2>1, <2>2, UpTo
  <2> QED BY <1>3, <2>3 DEF D
<1> QED BY <1>4, <1>5

\* Files whose sheets and whose root are as they were have the instances they had.
LEMMA SameHierarchy ==
  ASSUME NEW before, NEW after, IsFiniteSet(Present(before)), Parsable(before), Parsable(after),
         Present(after) = Present(before),
         \A f \in Present(before) : after[f].id = before[f].id /\ after[f].sheets = before[f].sheets
  PROVE  Instances(after) = Instances(before)
<1>1. ChildFiles(after) = ChildFiles(before)
  BY DEF ChildFiles
<1>2. Roots(after) = Roots(before)
  BY <1>1 DEF Roots
<1>3. Top(after) = Top(before)
  <2> DEFINE root == CHOOSE f \in Roots(before) : TRUE
  <2>1. root \in Present(before)
    BY TopIs DEF Top
  <2> HIDE DEF root
  <2>2. after[root].id = before[root].id
    BY <2>1
  <2> QED BY <1>2, <2>2 DEF Top, root
<1>4. \A inst : inst.file \in Present(before) => ChildrenOf(after, inst) = ChildrenOf(before, inst)
  BY DEF ChildrenOf
<1>5. /\ Top(before) \in Instances(before) /\ Top(after) \in Instances(after)
      /\ \A inst \in Instances(before) :
           inst.file \in Present(before) /\ ChildrenOf(before, inst) \subseteq Instances(before)
      /\ \A inst \in Instances(after) :
           inst.file \in Present(before) /\ ChildrenOf(after, inst) \subseteq Instances(after)
  BY InstancesAreClosed
<1>6. Instances(before) \subseteq Instances(after)
  BY <1>3, <1>4, <1>5, InstancesAreLeast
<1>7. Instances(after) \subseteq Instances(before)
  BY <1>3, <1>4, <1>5, InstancesAreLeast
<1> QED BY <1>6, <1>7

\* A sheet added to a file that one instance uses adds one instance, if the file it names
\* has none below it.
LEMMA OneMoreInstance ==
  ASSUME NEW before, NEW after, IsFiniteSet(Present(before)), Parsable(before), Parsable(after),
         NEW child, child \notin Present(before), NEW target \in Instances(before), NEW sheet,
         Present(after) = Present(before) \cup {child}, after[child].sheets = {},
         sheet.file = child, after[target.file].sheets = before[target.file].sheets \cup {sheet},
         \A inst \in Instances(before) : inst.file = target.file => inst = target,
         \A f \in Present(before) : after[f].id = before[f].id,
         \A f \in Present(before) \ {target.file} : after[f].sheets = before[f].sheets
  PROVE  Instances(after) = Instances(before) \cup
           {[sheet |-> sheet.id, parent |-> target.sheet, file |-> child, owner |-> target.file,
             trail |-> target.trail \cup {child}]}
<1> DEFINE new == [sheet |-> sheet.id, parent |-> target.sheet, file |-> child, owner |-> target.file,
                   trail |-> target.trail \cup {child}]
<1>0. target.file \in Present(before)
  BY InstancesAreClosed
<1>1. ChildFiles(after) = ChildFiles(before) \cup {child}
  <2>1. \A f \in Present(after) : \A s \in after[f].sheets :
          s.file = child \/ \E g \in Present(before) : \E t \in before[g].sheets : s.file = t.file
    BY <1>0
  <2>2. \A f \in Present(before) : before[f].sheets \subseteq after[f].sheets
    BY <1>0
  <2>3. \A x : x \in ChildFiles(after) <=> \E f \in Present(after) : \E s \in after[f].sheets : x = s.file
    BY DEF ChildFiles
  <2>4. \A x : x \in ChildFiles(before) <=> \E f \in Present(before) : \E s \in before[f].sheets : x = s.file
    BY DEF ChildFiles
  <2>5. child \in ChildFiles(after)
    BY <1>0, <2>3
  <2>6. ASSUME NEW x \in ChildFiles(before) PROVE x \in ChildFiles(after)
    BY <2>2, <2>3, <2>4
  <2>7. ASSUME NEW x \in ChildFiles(after) PROVE x = child \/ x \in ChildFiles(before)
    BY <2>1, <2>3, <2>4
  <2> QED BY <2>5, <2>6, <2>7
<1>2. Roots(after) = Roots(before)
  BY <1>1 DEF Roots
<1>3. Top(after) = Top(before)
  <2> DEFINE root == CHOOSE f \in Roots(before) : TRUE
  <2>1. root \in Present(before)
    BY TopIs DEF Top
  <2> HIDE DEF root
  <2>2. after[root].id = before[root].id
    BY <2>1
  <2> QED BY <1>2, <2>2 DEF Top, root
<1>4. /\ Top(before) \in Instances(before)
      /\ \A inst \in Instances(before) :
           inst.file \in Present(before) /\ ChildrenOf(before, inst) \subseteq Instances(before)
  BY InstancesAreClosed
<1>5. IsFiniteSet(Present(after))
  BY FS_AddElement
<1>6. /\ Top(after) \in Instances(after)
      /\ \A inst \in Instances(after) : ChildrenOf(after, inst) \subseteq Instances(after)
  BY <1>5, InstancesAreClosed
<1>7. \A inst : inst.file \in Present(before) \ {target.file} =>
        ChildrenOf(after, inst) = ChildrenOf(before, inst)
  BY DEF ChildrenOf
<1>8. ChildrenOf(before, target) \subseteq ChildrenOf(after, target)
  BY DEF ChildrenOf
<1>9. \A i \in ChildrenOf(after, target) : i = new \/ i \in ChildrenOf(before, target)
  BY DEF ChildrenOf
<1>10. Instances(before) \subseteq Instances(after)
  <2> DEFINE G == Instances(before) \cap Instances(after)
  <2>1. ASSUME NEW inst \in G PROVE ChildrenOf(before, inst) \subseteq G
    <3>1. ChildrenOf(before, inst) \subseteq ChildrenOf(after, inst)
      BY <1>4, <1>7, <1>8
    <3> QED BY <1>4, <1>6, <3>1
  <2>2. Top(before) \in G
    BY <1>3, <1>4, <1>6
  <2> HIDE DEF G
  <2>3. Instances(before) \subseteq G
    BY <2>1, <2>2, InstancesAreLeast
  <2> QED BY <2>3 DEF G
<1>11. new \in Instances(after)
  <2>1. target \in Instances(after)
    BY <1>10
  <2>2. sheet \in after[target.file].sheets
    OBVIOUS
  <2>3. sheet.file \notin target.trail
    BY <2>1, <2>2 DEF Parsable
  <2>4. new \in ChildrenOf(after, target)
    BY <2>2, <2>3 DEF ChildrenOf
  <2> QED BY <1>6, <2>1, <2>4
<1>12. Instances(after) \subseteq Instances(before) \cup {new}
  <2> DEFINE G == Instances(before) \cup {new}
  <2>1. Top(after) \in G
    BY <1>3, <1>4
  <2>2. ASSUME NEW inst \in Instances(before) PROVE ChildrenOf(after, inst) \subseteq G
    <3>1. CASE inst.file = target.file
      BY <1>4, <1>9, <3>1
    <3>2. CASE inst.file # target.file
      BY <1>4, <1>7, <3>2
    <3> QED BY <3>1, <3>2
  <2>3. ChildrenOf(after, new) = {}
    <3>1. new.file = child
      OBVIOUS
    <3> HIDE DEF new
    <3> QED BY <3>1 DEF ChildrenOf
  <2> HIDE DEF new
  <2>4. \A inst \in G : ChildrenOf(after, inst) \subseteq G
    BY <2>2, <2>3
  <2> HIDE DEF G
  <2>5. Instances(after) \subseteq G
    BY <1>5, <2>1, <2>4, InstancesAreLeast
  <2> QED BY <2>5 DEF G
<1> HIDE DEF new
<1>13. Instances(after) = Instances(before) \cup {new}
  BY <1>10, <1>11, <1>12
<1> QED BY <1>13 DEF new

-----------------------------------------------------------------------------
(* The inductive invariant. *)

\* What is known of the files: a name keeps its place in the table, whatever it maps to.
IsDisk(files) ==
  /\ files = [f \in DOMAIN files |-> files[f]] /\ IsFiniteSet(DOMAIN files)
  /\ \A f \in DOMAIN files : files[f] = Absent \/ IsFile(files[f])

IsJob(j) == DOMAIN j = {"module", "batch", "uuid", "before", "new", "todo"}

\* A call is what ApplyEdits or Instantiate planned for the files it found.
PlannedEdits(j) ==
  LET doc == Document(j.before)
  IN  /\ j.batch \in Batches
      /\ Plannable(doc, j.before, j.batch)
      /\ FreshUuids(doc, j.batch, j.uuid)
      /\ j.new = EditedFiles(doc, j.before, j.batch, j.uuid)

PlannedModule(j) ==
  LET doc == Document(j.before)
  IN  /\ Spare(j.before) # {}
      /\ \E c \in Modules, base \in ModuleUuids : \E inst \in TargetSheets(doc, c) :
           /\ \A n \in doc.insts : n.sheet # Uuid(base, "sheet", 0)
           /\ j.new = ModuleFiles(doc, j.before, c, base, inst.file,
                                  CHOOSE f \in Spare(j.before) : TRUE)

Planned(j) ==
  /\ Parsable(j.before)
  /\ j.module \in BOOLEAN
  /\ IF j.module THEN PlannedModule(j) ELSE PlannedEdits(j)

\* What the disk holds when the files not in todo have been replaced.
IsWritten(files, j) ==
  \A f \in DOMAIN files :
    files[f] = IF f \in DOMAIN j.new \ j.todo THEN j.new[f] ELSE j.before[f]

TypeOK ==
  /\ phase \in {"idle", "writing", "restoring"}
  /\ verdict \in {"none", "accepted", "failed"}
  /\ lost \in BOOLEAN
  /\ IsDisk(disk) /\ IsDisk(job.before) /\ DOMAIN job.before = DOMAIN disk
  /\ IsJob(job) /\ job.todo \subseteq DOMAIN job.new
  /\ \A f \in DOMAIN job.new : job.new[f] = Absent \/ IsFile(job.new[f])

CallIsPlanned == phase # "idle" \/ verdict # "none" => Planned(job)

WritingIsKnown == phase = "writing" => IsWritten(disk, job)

\* What the rollback has not yet reached is all that may differ from before.
RestoringIsKnown ==
  phase = "restoring" /\ ~lost => \A f \in DOMAIN disk \ job.todo : disk[f] = job.before[f]

AcceptedIsJudged ==
  Over("accepted") =>
    job.todo = {} /\ IsWritten(disk, job) /\ Parsable(disk) /\ Accepted(job, Document(job.before), Read)

IInv ==
  /\ TypeOK /\ CallIsPlanned /\ WritingIsKnown /\ RestoringIsKnown /\ AcceptedIsJudged
  /\ FailureRestores

-----------------------------------------------------------------------------
(* The files a call is about to write. *)

\* What an edit makes of a symbol: everything but the properties is as it was.
LEMMA EditedSymbolIs ==
  ASSUME NEW doc, NEW b, NEW f, NEW s, IsSymbol(s)
  PROVE  LET t == EditedSymbol(doc, b, f, s)
         IN  /\ IsSymbol(t)
             /\ t.id = s.id /\ t.pins = s.pins /\ t.at = s.at /\ t.angle = s.angle /\ t.mirror = s.mirror
             /\ t.props = [n \in PropertyNames |-> Written(s.props[n], ValuesFor(doc, b, <<f, s.id, n>>))]
BY DEF IsSymbol, EditedSymbol

\* What a batch makes of a file: its labels and the properties of its symbols change.
LEMMA EditedIs ==
  ASSUME NEW doc, NEW files, NEW b, NEW uuid, NEW f, IsFile(files[f])
  PROVE  LET new == Edited(doc, files, b, uuid, f)
         IN  /\ IsFile(new) /\ new # Absent
             /\ new.id = files[f].id /\ new.sheets = files[f].sheets
             /\ new.wires = files[f].wires /\ new.junctions = files[f].junctions
             /\ new.labels = files[f].labels \cup NewLabels(doc, files, b, uuid, f)
             /\ new.symbols = {EditedSymbol(doc, b, f, s) : s \in files[f].symbols}
<1> DEFINE new == Edited(doc, files, b, uuid, f)
           symbols == {EditedSymbol(doc, b, f, s) : s \in files[f].symbols}
<1>1. /\ new.id = files[f].id /\ new.sheets = files[f].sheets
      /\ new.wires = files[f].wires /\ new.junctions = files[f].junctions
      /\ new.labels = files[f].labels \cup NewLabels(doc, files, b, uuid, f)
      /\ new.symbols = symbols
      /\ DOMAIN new = DOMAIN files[f]
  BY DEF IsFile, Edited
<1>2. ASSUME NEW s \in files[f].symbols PROVE IsSymbol(EditedSymbol(doc, b, f, s))
  <2>1. IsSymbol(s)
    BY DEF IsFile
  <2> QED BY <2>1, EditedSymbolIs
<1>3. new # Absent
  BY <1>1 DEF Absent, IsFile
<1> HIDE DEF new
<1>4. IsFile(new)
  BY <1>1, <1>2 DEF IsFile
<1> QED BY <1>1, <1>3, <1>4 DEF new

\* What a module makes of the file it is placed in: a sheet, labels and wires are added.
LEMMA WithSheetIs ==
  ASSUME NEW doc, NEW files, NEW c, NEW base, NEW f, NEW child, IsFile(files[f])
  PROVE  LET new == WithSheet(doc, files, c, base, f, child)
         IN  /\ IsFile(new) /\ new # Absent
             /\ new.id = files[f].id /\ new.symbols = files[f].symbols
             /\ files[f].labels \subseteq new.labels
             /\ \E s : /\ new.sheets = files[f].sheets \cup {s}
                      /\ s.id = Uuid(base, "sheet", 0) /\ s.file = child
<1> DEFINE new == WithSheet(doc, files, c, base, f, child)
           place == Placement(files[f])
           all == DOMAIN c.ports
           ports == {[id |-> Uuid(base, "port", i), at |-> PortPoint(place, i)] : i \in all}
           sheet == [id |-> Uuid(base, "sheet", 0), file |-> child, at |-> place, ports |-> ports]
<1> HIDE DEF place, all, ports
<1>1. /\ new.id = files[f].id /\ new.symbols = files[f].symbols
      /\ files[f].labels \subseteq new.labels
      /\ new.sheets = files[f].sheets \cup {sheet}
      /\ DOMAIN new = DOMAIN files[f]
  BY DEF IsFile, WithSheet, place, all, ports
<1>2. sheet.id = Uuid(base, "sheet", 0) /\ sheet.file = child
  OBVIOUS
<1> HIDE DEF new, sheet
<1>3. new # Absent /\ IsFile(new)
  BY <1>1 DEF Absent, IsFile
<1> QED BY <1>1, <1>2, <1>3 DEF new

\* The file of a module has no sheets of its own.
LEMMA TemplateIs ==
  ASSUME NEW c, NEW base
  PROVE  LET new == Template(c, base)
         IN  IsFile(new) /\ new # Absent /\ new.sheets = {} /\ new.id = Uuid(base, "root", 0)
<1> DEFINE new == Template(c, base)
<1>1. /\ DOMAIN new = {"id", "sheets", "symbols", "labels", "wires", "junctions"}
      /\ new.sheets = {} /\ new.id = Uuid(base, "root", 0)
      /\ \A s \in new.symbols : IsSymbol(s)
  BY DEF Template, IsSymbol
<1> HIDE DEF new
<1> QED BY <1>1 DEF IsFile, Absent, new

\* A place for a label is in the file of an instance.
LEMMA PlacesAreOnSheets ==
  ASSUME NEW doc, NEW files, NEW ref, NEW p \in PlacesOf(doc, files, ref)
  PROVE  \E inst \in doc.insts : p.file = inst.file
<1>1. \/ p \in PointPlaces(doc, files, ref)
      \/ p \in WirePlaces(doc, files, ref)
      \/ p \in NetPlaces(doc, files, ref)
  BY DEF PlacesOf
<1>2. CASE p \in PointPlaces(doc, files, ref)
  BY <1>2 DEF PointPlaces, Place, OnSheet
<1>3. CASE p \in WirePlaces(doc, files, ref)
  BY <1>3 DEF WirePlaces, Place
<1>4. CASE p \in NetPlaces(doc, files, ref)
  BY <1>4 DEF NetPlaces, Place, OnSheet
<1> QED BY <1>1, <1>2, <1>3, <1>4

\* A batch that can be planned edits files that there are.
LEMMA FilesArePresent ==
  ASSUME NEW files, Parsable(files),
         NEW b, Plannable(Document(files), files, b)
  PROVE  FilesOf(Document(files), files, b) \subseteq Present(files)
<1> DEFINE doc == Document(files)
           fileOf(i) == IF IsLabel(b[i]) THEN PlaceOf(doc, files, b[i]).file
                        ELSE NodeOf(doc, b[i])[1]
<1>1. doc.insts = Instances(files) /\ doc.symbols = SymbolsRead(files, Instances(files))
  BY DEF Document, ReadAs
<1>2. {inst.file : inst \in doc.insts} = Present(files)
  BY <1>1 DEF Parsable
<1> HIDE DEF doc
<1>3. ASSUME NEW i \in DOMAIN b, IsLabel(b[i])
      PROVE  PlaceOf(doc, files, b[i]).file \in Present(files)
  <2>1. PlacesOf(doc, files, b[i].target) # {}
    BY <1>3 DEF Plannable, Bindable, doc
  <2>2. PlaceOf(doc, files, b[i]) \in PlacesOf(doc, files, b[i].target)
    BY <2>1 DEF PlaceOf
  <2> QED BY <1>2, <2>2, PlacesAreOnSheets
<1>4. ASSUME NEW i \in DOMAIN b, ~IsLabel(b[i])
      PROVE  NodeOf(doc, b[i])[1] \in Present(files)
  <2> DEFINE ref == b[i].subject
  <2>1. ref \in Refs(doc.symbols)
    BY <1>4 DEF Plannable, Resolves, doc
  <2>2. \E inst \in doc.insts : ref[2] = inst.sheet
    BY <1>1, <2>1 DEF SymbolsRead, Refs
  <2>3. InstanceOf(doc, ref) \in doc.insts
    BY <2>2 DEF InstanceOf
  <2> QED BY <1>2, <2>3 DEF NodeOf
<1>5. \A i \in DOMAIN b : fileOf(i) \in Present(files)
  BY <1>3, <1>4
<1>6. FilesOf(doc, files, b) = {fileOf(i) : i \in DOMAIN b}
  BY DEF FilesOf
<1> QED BY <1>5, <1>6 DEF doc

\* The instance a module is placed in has a file, and the new file is another one.
LEMMA ModuleIsPlaced ==
  ASSUME NEW files, Parsable(files), Spare(files) # {},
         NEW c, NEW inst \in TargetSheets(Document(files), c)
  PROVE  LET child == CHOOSE f \in Spare(files) : TRUE
         IN  /\ inst \in Instances(files)
             /\ inst.file \in Present(files)
             /\ child \in DOMAIN files /\ files[child] = Absent /\ child # inst.file
<1>1. inst \in Instances(files)
  BY DEF TargetSheets, Document, ReadAs
<1>2. inst.file \in Present(files)
  BY <1>1 DEF Parsable
<1>3. (CHOOSE f \in Spare(files) : TRUE) \in Spare(files)
  OBVIOUS
<1> QED BY <1>1, <1>2, <1>3 DEF Spare, Present

\* What a call writes are files.
LEMMA NewFilesAreFiles ==
  ASSUME NEW j, Planned(j), IsDisk(j.before)
  PROVE  /\ \A f \in DOMAIN j.new : IsFile(j.new[f]) /\ j.new[f] # Absent
         /\ DOMAIN j.new \subseteq DOMAIN j.before
<1> DEFINE files == j.before
           doc == Document(files)
<1>1. Parsable(files)
  BY DEF Planned
<1>2. \A f \in Present(files) : f \in DOMAIN files /\ IsFile(files[f])
  BY DEF Present, IsDisk
<1>3. CASE j.module
  <2>1. PlannedModule(j)
    BY <1>3 DEF Planned
  <2> DEFINE child == CHOOSE f \in Spare(files) : TRUE
  <2>2. PICK c \in Modules, base \in ModuleUuids : \E inst \in TargetSheets(doc, c) :
          j.new = ModuleFiles(doc, files, c, base, inst.file, child)
    BY <2>1 DEF PlannedModule
  <2>3. PICK inst \in TargetSheets(doc, c) :
          j.new = ModuleFiles(doc, files, c, base, inst.file, child)
    BY <2>2
  <2>4. Spare(files) # {}
    BY <2>1 DEF PlannedModule
  <2>5. inst.file \in Present(files) /\ child \in DOMAIN files
    BY <1>1, <2>4, ModuleIsPlaced
  <2>6. IsFile(files[inst.file])
    BY <1>2, <2>5
  <2> HIDE DEF child, doc, files
  <2>7. /\ DOMAIN j.new = {inst.file, child}
        /\ j.new[child] = Template(c, base)
        /\ inst.file # child => j.new[inst.file] = WithSheet(doc, files, c, base, inst.file, child)
    BY <2>3 DEF ModuleFiles
  <2>8. IsFile(Template(c, base)) /\ Template(c, base) # Absent
    BY TemplateIs
  <2>9. LET new == WithSheet(doc, files, c, base, inst.file, child) IN IsFile(new) /\ new # Absent
    BY <2>6, WithSheetIs
  <2> QED BY <1>2, <2>5, <2>7, <2>8, <2>9 DEF files
<1>4. CASE ~j.module
  <2>1. PlannedEdits(j)
    BY <1>4 DEF Planned
  <2>2. FilesOf(doc, files, j.batch) \subseteq Present(files)
    BY <1>1, <2>1, FilesArePresent DEF PlannedEdits
  <2>3. j.new = EditedFiles(doc, files, j.batch, j.uuid)
    BY <2>1 DEF PlannedEdits
  <2> HIDE DEF doc, files
  <2>4. /\ DOMAIN j.new = FilesOf(doc, files, j.batch)
        /\ \A f \in DOMAIN j.new : j.new[f] = Edited(doc, files, j.batch, j.uuid, f)
    BY <2>3 DEF EditedFiles
  <2>5. ASSUME NEW f \in DOMAIN j.new PROVE IsFile(j.new[f]) /\ j.new[f] # Absent
    <3>1. IsFile(files[f])
      BY <1>2, <2>2, <2>4
    <3> QED BY <2>4, <3>1, EditedIs
  <2> QED BY <1>2, <2>2, <2>4, <2>5 DEF files
<1> QED BY <1>3, <1>4

-----------------------------------------------------------------------------
(* The invariant holds at first and is kept by every step. *)

LEMMA InitInv == Init => IInv
<1> SUFFICES ASSUME Init PROVE IInv
  OBVIOUS
<1>1. IsDisk(disk)
  BY ProjectsAssumption DEF Init, IsDisk
<1>2. /\ IsJob(job) /\ job.before = disk /\ job.new = <<>> /\ job.todo = {}
      /\ phase = "idle" /\ verdict = "none" /\ lost = FALSE
  BY DEF Init, IsJob
<1>3. DOMAIN job.new = {}
  BY <1>2
<1>4. TypeOK
  BY <1>1, <1>2, <1>3 DEF TypeOK
<1> QED
  BY <1>2, <1>4 DEF IInv, CallIsPlanned, WritingIsKnown, RestoringIsKnown, AcceptedIsJudged,
                    FailureRestores, Over

\* A call that was planned begins.
LEMMA BeginsInv ==
  ASSUME IInv, NEW call, IsJob(call), call.before = disk, call.todo = DOMAIN call.new,
         Callable, Planned(call), Begins(call)
  PROVE  IInv'
<1>1. /\ job' = call /\ phase' = "writing" /\ verdict' = "none" /\ disk' = disk /\ lost' = lost
  BY DEF Begins
<1>2. TypeOK'
  <2>1. \A f \in DOMAIN call.new : IsFile(call.new[f])
    BY NewFilesAreFiles DEF IInv, TypeOK
  <2> QED BY <1>1, <2>1 DEF IInv, TypeOK
<1>3. Planned(job')
  BY <1>1
<1>4. IsWritten(disk', job')
  BY <1>1 DEF IsWritten
<1> QED
  BY <1>1, <1>2, <1>3, <1>4
  DEF IInv, CallIsPlanned, WritingIsKnown, RestoringIsKnown, AcceptedIsJudged, FailureRestores, Over

LEMMA ApplyEditsInv ==
  ASSUME IInv, ApplyEdits
  PROVE  IInv'
<1>1. PICK b \in Batches : Plannable(Read, disk, b) /\ \E uuid :
        /\ FreshUuids(Read, b, uuid)
        /\ Begins([module |-> FALSE, batch |-> b, uuid |-> uuid, before |-> disk,
                   new |-> EditedFiles(Read, disk, b, uuid), todo |-> FilesOf(Read, disk, b)])
  BY DEF ApplyEdits
<1>2. PICK uuid :
        /\ FreshUuids(Read, b, uuid)
        /\ Begins([module |-> FALSE, batch |-> b, uuid |-> uuid, before |-> disk,
                   new |-> EditedFiles(Read, disk, b, uuid), todo |-> FilesOf(Read, disk, b)])
  BY <1>1
<1> DEFINE new == EditedFiles(Read, disk, b, uuid)
           call == [module |-> FALSE, batch |-> b, uuid |-> uuid, before |-> disk,
                    new |-> new, todo |-> FilesOf(Read, disk, b)]
<1>3. DOMAIN new = FilesOf(Read, disk, b)
  BY DEF EditedFiles
<1>4. /\ IsJob(call) /\ call.before = disk /\ call.todo = DOMAIN call.new /\ call.module = FALSE
      /\ call.batch = b /\ call.uuid = uuid /\ call.new = new
  BY <1>3 DEF IsJob
<1>5. Callable /\ Begins(call)
  BY <1>2 DEF ApplyEdits
<1>6. PlannedEdits(call)
  BY <1>1, <1>2, <1>4 DEF PlannedEdits, Read
<1> HIDE DEF call, new
<1>7. Planned(call)
  BY <1>4, <1>5, <1>6 DEF Planned, Callable
<1> QED BY <1>4, <1>5, <1>7, BeginsInv

LEMMA InstantiateInv ==
  ASSUME IInv, Instantiate
  PROVE  IInv'
<1> DEFINE child == CHOOSE f \in Spare(disk) : TRUE
<1>1. PICK c \in Modules, base \in ModuleUuids : \E inst \in TargetSheets(Read, c) :
        /\ \A n \in Read.insts : n.sheet # Uuid(base, "sheet", 0)
        /\ Begins([module |-> TRUE, batch |-> <<c>>, uuid |-> base, before |-> disk,
                   new |-> ModuleFiles(Read, disk, c, base, inst.file, child),
                   todo |-> {inst.file, child}])
  BY DEF Instantiate
<1>2. PICK inst \in TargetSheets(Read, c) :
        /\ \A n \in Read.insts : n.sheet # Uuid(base, "sheet", 0)
        /\ Begins([module |-> TRUE, batch |-> <<c>>, uuid |-> base, before |-> disk,
                   new |-> ModuleFiles(Read, disk, c, base, inst.file, child),
                   todo |-> {inst.file, child}])
  BY <1>1
<1> DEFINE new == ModuleFiles(Read, disk, c, base, inst.file, child)
           call == [module |-> TRUE, batch |-> <<c>>, uuid |-> base, before |-> disk,
                    new |-> new, todo |-> {inst.file, child}]
<1>3. DOMAIN new = {inst.file, child}
  BY DEF ModuleFiles
<1>4. /\ IsJob(call) /\ call.before = disk /\ call.todo = DOMAIN call.new /\ call.module = TRUE
      /\ call.new = new
  BY <1>3 DEF IsJob
<1>5. Callable /\ Spare(disk) # {} /\ Begins(call)
  BY <1>2 DEF Instantiate
<1>6. PlannedModule(call)
  BY <1>2, <1>4, <1>5 DEF PlannedModule, Read
<1> HIDE DEF call, new
<1>7. Planned(call)
  BY <1>4, <1>5, <1>6 DEF Planned, Callable
<1> QED BY <1>4, <1>5, <1>7, BeginsInv

\* A step that leaves the plan of a call alone.
SameCall == /\ job'.module = job.module /\ job'.batch = job.batch /\ job'.uuid = job.uuid
            /\ job'.before = job.before /\ job'.new = job.new

\* The plan does not depend on what is left to do.
LEMMA PlanIsKept ==
  ASSUME CallIsPlanned, SameCall, phase # "idle"
  PROVE  CallIsPlanned'
<1>1. Planned(job)
  BY DEF CallIsPlanned
<1>2. Planned(job')
  <2>1. PlannedEdits(job) => PlannedEdits(job')
    BY DEF PlannedEdits, SameCall
  <2>2. PlannedModule(job) => PlannedModule(job')
    BY DEF PlannedModule, SameCall
  <2> QED BY <1>1, <2>1, <2>2 DEF Planned, SameCall
<1> QED BY <1>2 DEF CallIsPlanned

LEMMA WriteFileInv ==
  ASSUME IInv, NEW f \in DOMAIN disk, WriteFile(f)
  PROVE  IInv'
<1>1. /\ phase = "writing" /\ phase' = "writing" /\ f \in job.todo
      /\ disk' = [disk EXCEPT ![f] = job.new[f]] /\ job' = [job EXCEPT !.todo = @ \ {f}]
      /\ verdict' = verdict /\ lost' = lost
  BY DEF WriteFile, MayWrite
<1>2. SameCall /\ IsJob(job') /\ job'.todo = job.todo \ {f}
  BY <1>1 DEF IInv, TypeOK, IsJob, SameCall
<1>3. f \in DOMAIN job.new /\ DOMAIN disk' = DOMAIN disk
  BY <1>1 DEF IInv, TypeOK
<1>4. IsDisk(disk')
  BY <1>1, <1>3 DEF IInv, TypeOK, IsDisk
<1>5. TypeOK'
  BY <1>1, <1>2, <1>3, <1>4 DEF IInv, TypeOK, SameCall
<1>6. IsWritten(disk', job')
  BY <1>1, <1>2, <1>3 DEF IInv, WritingIsKnown, IsWritten, SameCall
<1>7. CallIsPlanned'
  BY <1>1, <1>2, PlanIsKept DEF IInv
<1> QED
  BY <1>1, <1>5, <1>6, <1>7
  DEF IInv, WritingIsKnown, RestoringIsKnown, AcceptedIsJudged, FailureRestores, Over

\* A rollback begins, or there is nothing to roll back: the files a module has not written
\* and those no call names are as they were.
LEMMA RollBackInv ==
  ASSUME IInv, phase = "writing", NEW written \in SUBSET DOMAIN job.new,
         \A f \in DOMAIN job.new \cap DOMAIN disk : f \in written \/ disk[f] = job.before[f],
         RollBack(written), disk' = disk, lost' = lost
  PROVE  IInv'
<1>1. Undo(written) \in SUBSET DOMAIN job.new
  BY DEF Undo
<1>2. \A f \in DOMAIN disk : f \in Undo(written) \/ disk[f] = job.before[f]
  BY DEF Undo, IInv, WritingIsKnown, IsWritten
<1>3. CASE Undo(written) = {}
  <2>1. phase' = "idle" /\ verdict' = "failed" /\ job' = [job EXCEPT !.todo = {}]
    BY <1>3 DEF RollBack, Ends
  <2>2. SameCall /\ IsJob(job') /\ job'.todo = {}
    BY <2>1 DEF IInv, TypeOK, IsJob, SameCall
  <2>3. disk = job.before
    BY <1>2, <1>3 DEF IInv, TypeOK, IsDisk
  <2>4. TypeOK'
    BY <2>1, <2>2 DEF IInv, TypeOK, SameCall
  <2>5. CallIsPlanned'
    BY <2>2, PlanIsKept DEF IInv
  <2> QED
    BY <2>1, <2>2, <2>3, <2>4, <2>5
    DEF IInv, WritingIsKnown, RestoringIsKnown, AcceptedIsJudged, FailureRestores, Over, SameCall
<1>4. CASE Undo(written) # {}
  <2>1. phase' = "restoring" /\ verdict' = verdict /\ job' = [job EXCEPT !.todo = Undo(written)]
    BY <1>4 DEF RollBack
  <2>2. SameCall /\ IsJob(job') /\ job'.todo = Undo(written)
    BY <2>1 DEF IInv, TypeOK, IsJob, SameCall
  <2>3. TypeOK'
    BY <1>1, <2>1, <2>2 DEF IInv, TypeOK, SameCall
  <2>4. RestoringIsKnown'
    BY <1>2, <2>2 DEF RestoringIsKnown, SameCall
  <2>5. CallIsPlanned'
    BY <2>2, PlanIsKept DEF IInv
  <2> QED
    BY <2>1, <2>3, <2>4, <2>5 DEF IInv, WritingIsKnown, AcceptedIsJudged, FailureRestores, Over
<1> QED BY <1>3, <1>4

LEMMA WriteFailsInv ==
  ASSUME IInv, NEW f \in DOMAIN disk, WriteFails(f)
  PROVE  IInv'
<1> DEFINE written == DOMAIN job.new \ job.todo
<1>1. phase = "writing" /\ RollBack(written) /\ disk' = disk /\ lost' = lost
  BY DEF WriteFails
<1>2. \A g \in DOMAIN job.new \cap DOMAIN disk : g \in written \/ disk[g] = job.before[g]
  BY <1>1 DEF IInv, WritingIsKnown, IsWritten
<1> QED BY <1>1, <1>2, RollBackInv

LEMMA JudgeInv ==
  ASSUME IInv, Judge
  PROVE  IInv'
<1>1. /\ phase = "writing" /\ job.todo = {} /\ disk' = disk /\ lost' = lost
      /\ IF Acceptable THEN Ends("accepted") /\ UNCHANGED job ELSE RollBack(DOMAIN job.new)
  BY DEF Judge
<1>2. CASE Acceptable
  <2>1. phase' = "idle" /\ verdict' = "accepted" /\ job' = job
    BY <1>1, <1>2 DEF Ends
  <2>2. IsWritten(disk, job)
    BY <1>1 DEF IInv, WritingIsKnown
  <2>3. Parsable(disk) /\ Accepted(job, Document(job.before), Document(disk))
    BY <1>2 DEF Acceptable, Read
  <2>5. AcceptedIsJudged'
    BY <1>1, <2>1, <2>2, <2>3 DEF AcceptedIsJudged, Read
  <2>6. CallIsPlanned'
    BY <1>1, <2>1 DEF IInv, CallIsPlanned
  <2>7. TypeOK'
    BY <1>1, <2>1 DEF IInv, TypeOK
  <2> QED
    BY <2>1, <2>5, <2>6, <2>7 DEF IInv, WritingIsKnown, RestoringIsKnown, FailureRestores, Over
<1>3. CASE ~Acceptable
  BY <1>1, <1>3, RollBackInv
<1> QED BY <1>2, <1>3

\* The file f has been dealt with, and the rollback may be over.
LEMMA RestoredInv ==
  ASSUME IInv, phase = "restoring", NEW f \in job.todo, Restored(f),
         DOMAIN disk' = DOMAIN disk, IsDisk(disk'), lost' \in BOOLEAN,
         ~lost' => ~lost /\ disk' = [disk EXCEPT ![f] = job.before[f]]
  PROVE  IInv'
<1>1. /\ job' = [job EXCEPT !.todo = @ \ {f}]
      /\ IF job.todo = {f} THEN phase' = "idle" /\ verdict' = "failed"
         ELSE phase' = "restoring" /\ verdict' = verdict
  BY DEF Restored, Ends
<1>2. SameCall /\ IsJob(job') /\ job'.todo = job.todo \ {f}
  BY <1>1 DEF IInv, TypeOK, IsJob, SameCall
<1>3. TypeOK'
  BY <1>1, <1>2 DEF IInv, TypeOK, SameCall
<1>4. ASSUME ~lost', NEW g \in DOMAIN disk', g \notin job'.todo
      PROVE  disk'[g] = job'.before[g]
  <2>1. g = f \/ g \notin job.todo
    BY <1>2, <1>4
  <2>2. disk'[g] = IF g = f THEN job.before[f] ELSE disk[g]
    BY <1>4
  <2>3. g \notin job.todo => disk[g] = job.before[g]
    BY <1>4 DEF IInv, RestoringIsKnown
  <2> QED BY <1>2, <2>1, <2>2, <2>3 DEF SameCall
<1>5. ASSUME ~lost', phase' = "idle" PROVE disk' = job'.before
  <2>1. job'.todo = {}
    BY <1>1, <1>2, <1>5
  <2>2. \A g \in DOMAIN disk' : disk'[g] = job'.before[g]
    BY <1>4, <1>5, <2>1
  <2> QED BY <1>3, <2>2 DEF TypeOK, IsDisk
<1>6. RestoringIsKnown'
  BY <1>4 DEF RestoringIsKnown
<1>7. CallIsPlanned'
  BY <1>2, PlanIsKept DEF IInv
<1> QED
  BY <1>1, <1>3, <1>5, <1>6, <1>7 DEF IInv, WritingIsKnown, AcceptedIsJudged, FailureRestores, Over

LEMMA RestoreInv ==
  ASSUME IInv, NEW f \in DOMAIN disk, Restore(f)
  PROVE  IInv'
<1>1. /\ phase = "restoring" /\ f \in job.todo /\ Restored(f) /\ lost' = lost
      /\ disk' = [disk EXCEPT ![f] = job.before[f]]
  BY DEF Restore, MayRestore
<1>2. DOMAIN disk' = DOMAIN disk /\ IsDisk(disk')
  BY <1>1 DEF IInv, TypeOK, IsDisk
<1> QED BY <1>1, <1>2, RestoredInv DEF IInv, TypeOK

LEMMA RestoreFailsInv ==
  ASSUME IInv, NEW f \in DOMAIN disk, RestoreFails(f)
  PROVE  IInv'
<1>1. /\ phase = "restoring" /\ f \in job.todo /\ lost' = TRUE /\ disk' = disk
      /\ IF job.module THEN Ends("failed") /\ job' = [job EXCEPT !.todo = {}] ELSE Restored(f)
  BY DEF RestoreFails, MayRestore
<1>2. CASE job.module
  <2>1. phase' = "idle" /\ verdict' = "failed" /\ job' = [job EXCEPT !.todo = {}]
    BY <1>1, <1>2 DEF Ends
  <2>2. SameCall /\ IsJob(job') /\ job'.todo = {}
    BY <2>1 DEF IInv, TypeOK, IsJob, SameCall
  <2>3. TypeOK'
    BY <1>1, <2>1, <2>2 DEF IInv, TypeOK, SameCall
  <2>4. CallIsPlanned'
    BY <1>1, <2>2, PlanIsKept DEF IInv
  <2> QED
    BY <1>1, <2>1, <2>3, <2>4
    DEF IInv, WritingIsKnown, RestoringIsKnown, AcceptedIsJudged, FailureRestores, Over
<1>3. CASE ~job.module
  BY <1>1, <1>3, RestoredInv DEF IInv, TypeOK
<1> QED BY <1>2, <1>3

LEMMA NextInv == IInv /\ [Next]_vars => IInv'
<1> SUFFICES ASSUME IInv, [Next]_vars PROVE IInv'
  OBVIOUS
<1>1. CASE Next
  <2>1. CASE ApplyEdits
    BY <2>1, ApplyEditsInv
  <2>2. CASE Instantiate
    BY <2>2, InstantiateInv
  <2>3. CASE Judge
    BY <2>3, JudgeInv
  <2>4. ASSUME NEW f \in DOMAIN disk,
               WriteFile(f) \/ WriteFails(f) \/ Restore(f) \/ RestoreFails(f)
        PROVE  IInv'
    BY <2>4, WriteFileInv, WriteFailsInv, RestoreInv, RestoreFailsInv
  <2> QED BY <1>1, <2>1, <2>2, <2>3, <2>4 DEF Next
<1>2. CASE UNCHANGED vars
  <2>1. /\ disk' = disk /\ phase' = phase /\ job' = job /\ verdict' = verdict /\ lost' = lost
    BY <1>2 DEF vars
  <2> QED
    BY <2>1 DEF IInv, TypeOK, CallIsPlanned, WritingIsKnown, RestoringIsKnown,
                      AcceptedIsJudged, FailureRestores, Over, Read
<1> QED BY <1>1, <1>2

\* A call whose writes or whose judgement fail leaves every file as it was, at whichever
\* write it happens, unless a write of the rollback itself fails.
THEOREM FailureRestoresAlways == Spec => []FailureRestores
<1>1. IInv => FailureRestores
  BY DEF IInv
<1> QED BY <1>1, InitInv, NextInv, PTL DEF Spec

-----------------------------------------------------------------------------
(* What an accepted call has done. *)

\* The files after are those before with what the call wrote, and the call was accepted.
Judged(j, after) ==
  /\ IsDisk(j.before) /\ DOMAIN after = DOMAIN j.before
  /\ Planned(j) /\ Parsable(after) /\ Accepted(j, Document(j.before), Document(after))
  /\ \A f \in DOMAIN after : after[f] = IF f \in DOMAIN j.new THEN j.new[f] ELSE j.before[f]

\* A symbol of a file is read once for every instance of the file, and found again there.
LEMMA SymbolIs ==
  ASSUME NEW files, Indexable(Document(files)),
         NEW inst \in Instances(files), NEW s \in files[inst.file].symbols
  PROVE  LET ref == <<"symbol", inst.sheet, s.id>>
         IN  /\ ref \in Refs(Document(files).symbols)
             /\ At(Document(files).symbols, ref).props = s.props
             /\ InstanceOf(Document(files), ref) = inst
<1> DEFINE doc == Document(files)
           ref == <<"symbol", inst.sheet, s.id>>
           symbol == [ref |-> ref, props |-> s.props]
<1>1. doc.symbols = SymbolsRead(files, Instances(files)) /\ doc.insts = Instances(files)
  BY DEF Document, ReadAs
<1>2. symbol \in doc.symbols
  <2> DEFINE of(i) == {[ref |-> <<"symbol", i.sheet, t.id>>, props |-> t.props] :
                         t \in files[i.file].symbols}
  <2>1. symbol \in of(inst)
    OBVIOUS
  <2>2. doc.symbols = UNION {of(i) : i \in Instances(files)}
    BY <1>1 DEF SymbolsRead
  <2> HIDE DEF of, symbol, doc
  <2> QED BY <2>1, <2>2
<1> HIDE DEF doc
<1>3. \A t, u \in doc.symbols : t.ref = u.ref => t = u
  BY DEF Indexable, doc
<1>4. \A i \in doc.insts : i.sheet = inst.sheet => i = inst
  BY <1>1 DEF Indexable, doc
<1>5. symbol.ref = ref /\ symbol.props = s.props
  OBVIOUS
<1>6. ref[2] = inst.sheet
  OBVIOUS
<1> HIDE DEF symbol, ref
<1>7. ref \in Refs(doc.symbols)
  BY <1>2, <1>5 DEF Refs
<1>8. At(doc.symbols, ref) = symbol
  BY <1>2, <1>3, <1>5 DEF At
<1>9. InstanceOf(doc, ref) = inst
  BY <1>1, <1>4, <1>6 DEF InstanceOf
<1> QED BY <1>5, <1>7, <1>8, <1>9 DEF doc, ref

\* Every reference to a symbol is one of these.
LEMMA SymbolHas ==
  ASSUME NEW files, NEW ref \in Refs(Document(files).symbols)
  PROVE  \E inst \in Instances(files) : \E s \in files[inst.file].symbols :
           ref = <<"symbol", inst.sheet, s.id>>
BY DEF Document, ReadAs, SymbolsRead, Refs

\* What is known of an accepted batch of edits.
LEMMA EditsAreWritten ==
  ASSUME NEW j, NEW after, Judged(j, after), ~j.module
  PROVE  LET before == j.before
             doc == Document(before)
         IN  /\ IsFiniteSet(Present(before)) /\ Present(after) = Present(before)
             /\ \A f \in Present(before) : IsFile(before[f])
             /\ FilesOf(doc, before, j.batch) \subseteq Present(before)
             /\ \A f \in Present(before) :
                  after[f] = IF f \in FilesOf(doc, before, j.batch)
                             THEN Edited(doc, before, j.batch, j.uuid, f) ELSE before[f]
             /\ Instances(after) = Instances(before)
<1> DEFINE before == j.before
           doc == Document(before)
           edited == FilesOf(doc, before, j.batch)
<1>1. Parsable(before) /\ PlannedEdits(j) /\ IsDisk(before)
  BY DEF Judged, Planned
<1>2. \A f \in Present(before) : f \in DOMAIN before /\ IsFile(before[f])
  BY <1>1 DEF Present, IsDisk
<1>3. IsFiniteSet(Present(before))
  BY <1>1, FS_Subset DEF Present, IsDisk
<1>4. edited \subseteq Present(before)
  BY <1>1, FilesArePresent DEF PlannedEdits
<1>5. j.new = EditedFiles(doc, before, j.batch, j.uuid)
  BY <1>1 DEF PlannedEdits
<1> HIDE DEF doc, edited
<1>6. DOMAIN j.new = edited /\ \A f \in edited : j.new[f] = Edited(doc, before, j.batch, j.uuid, f)
  BY <1>5 DEF EditedFiles, edited
<1>7. \A f \in DOMAIN before :
        after[f] = IF f \in edited THEN Edited(doc, before, j.batch, j.uuid, f) ELSE before[f]
  BY <1>6 DEF Judged
<1>8. ASSUME NEW f \in Present(before)
      PROVE  after[f] # Absent /\ after[f].id = before[f].id /\ after[f].sheets = before[f].sheets
  <2>1. CASE f \in edited
    BY <1>2, <1>7, <2>1, EditedIs
  <2>2. CASE f \notin edited
    BY <1>2, <1>7, <2>2 DEF Present
  <2> QED BY <2>1, <2>2
<1>9. Present(after) = Present(before)
  BY <1>4, <1>7, <1>8 DEF Present, Judged
<1>10. Instances(after) = Instances(before)
  BY <1>1, <1>3, <1>8, <1>9, SameHierarchy DEF Judged
<1> QED BY <1>2, <1>3, <1>4, <1>7, <1>9, <1>10 DEF doc, edited, Present

\* A change of anything but a net is the one a command of the batch is for.
LEMMA ChangesAreClaimed ==
  ASSUME NEW j, NEW after, Judged(j, after), ~j.module,
         NEW c \in Changes(Document(j.before), Document(after)),
         c.kind # "net_connectivity_changed"
  PROVE  \E i \in DOMAIN j.batch : c = OwnSelector(j.batch, j.uuid, i)
<1> DEFINE claims == Claims(j, Document(j.before), Document(after))
           claiming == {i \in DOMAIN claims : c \in claims[i]}
<1>1. Attributed(Changes(Document(j.before), Document(after)), claims)
  BY DEF Judged, Accepted
<1> HIDE DEF claims
<1>2. Cardinality(claiming) = 1
  BY <1>1 DEF Attributed
<1>3. claiming # {}
  BY <1>2, FS_EmptySet
<1>4. PICK i \in DOMAIN claims : c \in claims[i]
  BY <1>3
<1>5. /\ i \in DOMAIN j.batch
      /\ \/ c = OwnSelector(j.batch, j.uuid, i)
         \/ \E n : c = Selector("net_connectivity_changed", n, "")
  BY <1>4 DEF claims, Claims
<1>6. \A n : Selector("net_connectivity_changed", n, "").kind = "net_connectivity_changed"
  BY DEF Selector
<1> QED BY <1>5, <1>6

\* A batch is a finite sequence of the commands a client may send.
LEMMA BatchIs ==
  ASSUME NEW b \in Batches
  PROVE  /\ \E n \in Nat : DOMAIN b = 1 .. n
         /\ IsFiniteSet(DOMAIN b)
         /\ \A i \in DOMAIN b : b[i] \in Edits
<1>1. PICK n \in 1 .. MaxBatch : b \in [1 .. n -> Edits]
  BY DEF Batches
<1>2. n \in Nat
  BY BoundsAssumption
<1>3. IsFiniteSet(1 .. n)
  BY <1>2, FS_Interval
<1> QED BY <1>1, <1>2, <1>3

\* The values written to a node: one for each of its edits.
LEMMA ValuesForIs ==
  ASSUME NEW doc, NEW b \in Batches, NEW node
  PROVE  LET edits == EditsOf(doc, b, node)
             values == ValuesFor(doc, b, node)
         IN  /\ IsFiniteSet(edits) /\ Len(values) = Cardinality(edits)
             /\ edits = {} => values = <<>>
             /\ \A i : edits = {i} => values = <<b[i].value>>
<1> DEFINE edits == EditsOf(doc, b, node)
           values == ValuesFor(doc, b, node)
           kth(k) == CHOOSE i \in edits : Cardinality({j \in edits : j <= i}) = k
           m == Cardinality(edits)
<1>1. IsFiniteSet(edits)
  BY BatchIs, FS_Subset DEF EditsOf
<1>2. m \in Nat
  BY <1>1, FS_CardinalityType
<1>3. values = [k \in 1 .. m |-> b[kth(k)].value]
  BY DEF ValuesFor
<1> HIDE DEF values, kth, m
<1>4. Len(values) = m
  <2>1. values \in [1 .. m -> {values[k] : k \in 1 .. m}]
    BY <1>3
  <2>2. values \in Seq({values[k] : k \in 1 .. m})
    BY <1>2, <2>1
  <2> QED BY <1>2, <2>1, <2>2
<1>5. ASSUME edits = {} PROVE values = <<>>
  <2>1. m = 0
    BY <1>5, FS_EmptySet DEF m
  <2> QED BY <1>3, <2>1
<1>6. ASSUME NEW i, edits = {i} PROVE values = <<b[i].value>>
  <2>1. m = 1
    BY <1>6, FS_Singleton DEF m
  <2>2. i \in edits
    BY <1>6
  <2>3. i <= i
    <3>1. i \in DOMAIN b
      BY <2>2 DEF EditsOf
    <3>2. PICK n \in Nat : DOMAIN b = 1 .. n
      BY BatchIs
    <3> QED BY <3>1, <3>2
  <2>4. {j \in edits : j <= i} = edits
    BY <1>6, <2>3
  <2>5. Cardinality({j \in edits : j <= i}) = 1
    BY <2>1, <2>4 DEF m
  <2> HIDE DEF edits
  <2>6. kth(1) = i
    BY <1>6, <2>2, <2>5 DEF kth
  <2> DEFINE v == b[i].value
  <2>7. values = [k \in 1 .. 1 |-> v]
    <3>1. \A k \in 1 .. 1 : k = 1
      OBVIOUS
    <3> QED BY <1>3, <2>1, <2>6, <3>1
  <2> HIDE DEF v
  <2>8. values = <<v>>
    BY <2>7
  <2> QED BY <2>8 DEF v
<1> QED BY <1>1, <1>4, <1>5, <1>6 DEF m, values

\* The properties of every symbol after a batch: the edits of its node are applied to it.
LEMMA PropertyAfter ==
  ASSUME NEW j, NEW after, Judged(j, after), ~j.module,
         NEW ref \in Refs(Document(j.before).symbols), NEW n \in PropertyNames
  PROVE  LET doc == Document(j.before)
             props == At(Document(after).symbols, ref).props
             node == <<InstanceOf(doc, ref).file, ref[3], n>>
         IN  /\ ref \in Refs(Document(after).symbols)
             /\ props[n] = Written(At(doc.symbols, ref).props[n], ValuesFor(doc, j.batch, node))
             /\ Len(props[n]) <= 1
<1> DEFINE before == j.before
           doc == Document(before)
           b == j.batch
           edited == FilesOf(doc, before, b)
<1>1. PICK inst \in Instances(before) : \E s \in before[inst.file].symbols :
        ref = <<"symbol", inst.sheet, s.id>>
  BY SymbolHas
<1>2. PICK s \in before[inst.file].symbols : ref = <<"symbol", inst.sheet, s.id>>
  BY <1>1
<1> DEFINE f == inst.file
           values == ValuesFor(doc, b, <<f, s.id, n>>)
<1>3. Indexable(Document(before)) /\ Indexable(Document(after)) /\ Parsable(before) /\ Parsable(after)
  BY DEF Judged, Accepted, Planned
<1>4. At(doc.symbols, ref).props = s.props /\ InstanceOf(doc, ref) = inst
  BY <1>2, <1>3, SymbolIs
<1>5. ref[3] = s.id
  BY <1>2
<1>6. /\ IsFiniteSet(Present(before)) /\ Present(after) = Present(before)
      /\ \A g \in Present(before) : IsFile(before[g])
      /\ \A g \in Present(before) :
           after[g] = IF g \in edited THEN Edited(doc, before, b, j.uuid, g) ELSE before[g]
      /\ Instances(after) = Instances(before)
  BY EditsAreWritten
<1>7. f \in Present(before) /\ IsSymbol(s)
  BY <1>2, <1>3, <1>6, InstancesAreClosed DEF IsFile
<1>8. b \in Batches
  BY DEF Judged, Planned, PlannedEdits
<1>9. PICK t \in after[f].symbols : t.id = s.id /\ t.props[n] = Written(s.props[n], values)
  <2>1. CASE f \in edited
    <3>1. after[f].symbols = {EditedSymbol(doc, b, f, u) : u \in before[f].symbols}
      BY <1>6, <1>7, <2>1, EditedIs
    <3> DEFINE t == EditedSymbol(doc, b, f, s)
    <3>2. t.id = s.id /\ t.props = [k \in PropertyNames |-> Written(s.props[k], ValuesFor(doc, b, <<f, s.id, k>>))]
      BY <1>7, EditedSymbolIs
    <3>3. t.props[n] = Written(s.props[n], values)
      BY <3>2
    <3>4. t \in after[f].symbols
      BY <1>2, <3>1
    <3> QED BY <3>2, <3>3, <3>4
  <2>2. CASE f \notin edited
    <3>1. EditsOf(doc, b, <<f, s.id, n>>) = {}
      <4>1. \A i \in DOMAIN b : ~IsLabel(b[i]) => NodeOf(doc, b[i])[1] \in edited
        BY DEF FilesOf
      <4> HIDE DEF edited
      <4> QED BY <2>2, <4>1 DEF EditsOf
    <3>2. values = <<>>
      BY <1>8, <3>1, ValuesForIs
    <3>3. Written(s.props[n], values) = s.props[n]
      BY <3>2 DEF Written
    <3>4. after[f] = before[f]
      BY <1>6, <1>7, <2>2
    <3> QED BY <1>2, <3>3, <3>4
  <2> QED BY <2>1, <2>2
<1>10. ref \in Refs(Document(after).symbols) /\ At(Document(after).symbols, ref).props = t.props
  BY <1>2, <1>3, <1>6, <1>9, SymbolIs
<1>11. Len(t.props[n]) <= 1
  BY <1>3, <1>6, <1>7, <1>9 DEF Parsable
<1> HIDE DEF values, edited
<1> QED BY <1>4, <1>5, <1>9, <1>10, <1>11 DEF values

\* A batch adds no symbol and takes none away.
LEMMA SymbolsStay ==
  ASSUME NEW j, NEW after, Judged(j, after), ~j.module, NEW ref \in Refs(Document(after).symbols)
  PROVE  ref \in Refs(Document(j.before).symbols)
<1> DEFINE before == j.before
           doc == Document(before)
           b == j.batch
           edited == FilesOf(doc, before, b)
<1>1. PICK inst \in Instances(after) : \E u \in after[inst.file].symbols :
        ref = <<"symbol", inst.sheet, u.id>>
  BY SymbolHas
<1>2. PICK u \in after[inst.file].symbols : ref = <<"symbol", inst.sheet, u.id>>
  BY <1>1
<1> DEFINE f == inst.file
<1>3. Indexable(Document(before)) /\ Parsable(before)
  BY DEF Judged, Accepted, Planned
<1>4. /\ IsFiniteSet(Present(before))
      /\ \A g \in Present(before) : IsFile(before[g])
      /\ \A g \in Present(before) :
           after[g] = IF g \in edited THEN Edited(doc, before, b, j.uuid, g) ELSE before[g]
      /\ Instances(after) = Instances(before)
  BY EditsAreWritten
<1>5. f \in Present(before)
  BY <1>3, <1>4, InstancesAreClosed
<1>6. PICK s \in before[f].symbols : u.id = s.id
  <2>1. CASE f \in edited
    <3>1. after[f].symbols = {EditedSymbol(doc, b, f, v) : v \in before[f].symbols}
      BY <1>4, <1>5, <2>1, EditedIs
    <3>2. PICK s \in before[f].symbols : u = EditedSymbol(doc, b, f, s)
      BY <1>2, <3>1
    <3>3. IsSymbol(s)
      BY <1>4, <1>5 DEF IsFile
    <3>4. EditedSymbol(doc, b, f, s).id = s.id
      BY <3>3 DEF EditedSymbol, IsSymbol
    <3> QED BY <3>2, <3>4
  <2>2. CASE f \notin edited
    BY <1>2, <1>4, <1>5, <2>2
  <2> QED BY <2>1, <2>2
<1> QED BY <1>2, <1>3, <1>4, <1>6, SymbolIs

\* A node a batch edits is edited by one command, and carries then what that command says:
\* two replacements of a value overlap, and two insertions leave a property twice.
LEMMA OneEdit ==
  ASSUME NEW j, NEW after, Judged(j, after), ~j.module,
         NEW i \in DOMAIN j.batch, ~IsLabel(j.batch[i])
  PROVE  LET doc == Document(j.before)
             c == j.batch[i]
         IN  /\ c.subject \in Refs(doc.symbols) /\ NameOf(c) \in PropertyNames
             /\ EditsOf(doc, j.batch, NodeOf(doc, c)) = {i}
             /\ At(Document(after).symbols, c.subject).props[NameOf(c)] = <<c.value>>
<1> DEFINE before == j.before
           doc == Document(before)
           b == j.batch
           c == b[i]
           node == NodeOf(doc, c)
           edits == EditsOf(doc, b, node)
           old == Values(doc, c)
           props == At(Document(after).symbols, c.subject).props
           values == ValuesFor(doc, b, node)
<1>1. b \in Batches /\ Plannable(doc, before, b)
  BY DEF Judged, Planned, PlannedEdits
<1>2. ASSUME NEW k \in DOMAIN b, ~IsLabel(b[k])
      PROVE  b[k].subject \in Refs(doc.symbols) /\ NameOf(b[k]) \in PropertyNames
  <2>1. b[k].subject \in Refs(doc.symbols)
    BY <1>1, <1>2 DEF Plannable, Resolves
  <2>2. b[k] \in Edits
    BY <1>1, BatchIs
  <2> QED BY <1>2, <2>1, <2>2, EditsAssumption DEF NameOf, IsLabel
<1>3. ASSUME NEW k \in edits PROVE Values(doc, b[k]) = old
  <2>1. k \in DOMAIN b /\ ~IsLabel(b[k]) /\ NodeOf(doc, b[k]) = node
    BY <1>3 DEF EditsOf
  <2> DEFINE p == c.subject
             q == b[k].subject
  <2>2. PICK inst \in Instances(before) : \E s \in before[inst.file].symbols :
          p = <<"symbol", inst.sheet, s.id>>
    BY <1>2, SymbolHas
  <2>3. PICK s \in before[inst.file].symbols : p = <<"symbol", inst.sheet, s.id>>
    BY <2>2
  <2>4. PICK other \in Instances(before) : \E s_1 \in before[other.file].symbols :
          q = <<"symbol", other.sheet, s_1.id>>
    BY <1>2, <2>1, SymbolHas
  <2>5. PICK t \in before[other.file].symbols : q = <<"symbol", other.sheet, t.id>>
    BY <2>4
  <2>6. Indexable(doc)
    BY DEF Judged, Accepted
  <2>7. At(doc.symbols, p).props = s.props /\ InstanceOf(doc, p) = inst
    BY <2>3, <2>6, SymbolIs
  <2>8. At(doc.symbols, q).props = t.props /\ InstanceOf(doc, q) = other
    BY <2>5, <2>6, SymbolIs
  <2>9. inst.file = other.file /\ p[3] = q[3] /\ NameOf(b[k]) = NameOf(c)
    BY <2>1, <2>7, <2>8 DEF NodeOf
  <2>10. p = <<"symbol", inst.sheet, t.id>>
    BY <2>3, <2>5, <2>9
  <2>11. At(doc.symbols, p).props = t.props
    BY <2>5, <2>6, <2>9, <2>10, SymbolIs
  <2> QED BY <2>8, <2>9, <2>11 DEF Values
<1>4. i \in edits
  BY DEF EditsOf
<1>5. props[NameOf(c)] = Written(old, values) /\ Len(props[NameOf(c)]) <= 1
  BY <1>2, PropertyAfter DEF NodeOf, Values
<1>6. IsFiniteSet(edits) /\ Len(values) = Cardinality(edits) /\ (edits = {i} => values = <<c.value>>)
  BY <1>1, ValuesForIs
<1> HIDE DEF values, props, old, node
<1>7. ASSUME old # <<>>, NEW k \in edits PROVE k = i
  <2> SUFFICES ASSUME k # i PROVE FALSE
    OBVIOUS
  <2>1. k \in DOMAIN b /\ ~IsLabel(b[k]) /\ NodeOf(doc, b[k]) = NodeOf(doc, c)
    BY <1>7 DEF EditsOf, node
  <2>2. Overlap(doc, b, i, k) /\ Overlap(doc, b, k, i)
    BY <1>3, <1>7, <2>1 DEF Overlap, old
  <2>3. PICK n \in Nat : DOMAIN b = 1 .. n
    BY <1>1, BatchIs
  <2>4. k \in 1 .. i - 1 \/ i \in 1 .. k - 1
    BY <2>1, <2>3
  <2> QED BY <1>1, <2>1, <2>2, <2>4 DEF Plannable
<1>8. ASSUME old = <<>>, NEW k \in edits PROVE k = i
  <2>1. values # <<>>
    <3>1. Cardinality(edits) # 0
      BY <1>4, <1>6, FS_EmptySet
    <3>2. Len(<<>>) = 0
      OBVIOUS
    <3> QED BY <1>6, <3>1, <3>2
  <2>2. Len(values) <= 1
    BY <1>5, <1>8, <2>1 DEF Written
  <2>3. Cardinality(edits) = 1
    BY <1>4, <1>6, <2>2, FS_EmptySet, FS_CardinalityType
  <2>4. \E x : edits = {x}
    BY <1>6, <2>3, FS_Singleton
  <2> QED BY <1>4, <1>8, <2>4
<1>9. edits = {i}
  BY <1>4, <1>7, <1>8
<1>10. props[NameOf(c)] = <<c.value>>
  BY <1>5, <1>6, <1>9 DEF Written
<1> QED BY <1>2, <1>9, <1>10 DEF node, props

\* What the reading says of a label of a file, and that every label read is one of these.
LabelRead(inst, l) ==
  [ref |-> <<"label", inst.sheet, l.id>>, name |-> l.name, scope |-> l.scope, at |-> l.at]

LEMMA LabelIs ==
  ASSUME NEW files, NEW inst \in Instances(files), NEW l \in files[inst.file].labels
  PROVE  LabelRead(inst, l) \in Document(files).labels
<1> DEFINE of(i) == {LabelRead(i, k) : k \in files[i.file].labels}
<1>1. LabelRead(inst, l) \in of(inst)
  OBVIOUS
<1>2. Document(files).labels = UNION {of(i) : i \in Instances(files)}
  BY DEF Document, ReadAs, LabelsRead, LabelRead
<1> HIDE DEF of
<1> QED BY <1>1, <1>2

LEMMA LabelHas ==
  ASSUME NEW files, NEW l \in Document(files).labels
  PROVE  \E inst \in Instances(files) : \E k \in files[inst.file].labels : l = LabelRead(inst, k)
BY DEF Document, ReadAs, LabelsRead, LabelRead

\* A new label has the UUID the batch gives to one of its commands, is on the sheet that
\* command names, and has its name and scope.
LEMMA LabelsAreNamed ==
  ASSUME NEW j, NEW after, Judged(j, after), ~j.module
  PROVE  LET old == Document(j.before).labels
             now == Document(after).labels
             b == j.batch
             labels == {i \in DOMAIN b : IsLabel(b[i])}
         IN  /\ old \subseteq now
             /\ \A l \in now \ old : \E i \in labels :
                  l.ref = <<"label", b[i].target[2], j.uuid[i]>> /\ SameName(l, b[i])
             /\ \A i \in labels : \E l \in now \ old : l.ref[3] = j.uuid[i]
<1> DEFINE before == j.before
           doc == Document(before)
           b == j.batch
           edited == FilesOf(doc, before, b)
           labels == {i \in DOMAIN b : IsLabel(b[i])}
           added(f) == NewLabels(doc, before, b, j.uuid, f)
           old == doc.labels
           now == Document(after).labels
<1>1. /\ IsFiniteSet(Present(before))
      /\ \A f \in Present(before) : IsFile(before[f])
      /\ edited \subseteq Present(before)
      /\ \A f \in Present(before) :
           after[f] = IF f \in edited THEN Edited(doc, before, b, j.uuid, f) ELSE before[f]
      /\ Instances(after) = Instances(before)
  BY EditsAreWritten
<1>2. /\ Parsable(before) /\ FreshUuids(doc, b, j.uuid)
      /\ \A k, l \in now : k.ref = l.ref => k = l
  BY DEF Judged, Planned, PlannedEdits, Accepted, Indexable
<1>3. \A inst \in Instances(before) : inst.file \in Present(before)
  BY <1>1, <1>2, InstancesAreClosed
<1>4. ASSUME NEW f \in Present(before)
      PROVE  after[f].labels = IF f \in edited THEN before[f].labels \cup added(f) ELSE before[f].labels
  <2>1. CASE f \in edited
    BY <1>1, <2>1, EditedIs
  <2>2. CASE f \notin edited
    BY <1>1, <2>2
  <2> QED BY <2>1, <2>2
<1>5. \A f : \A l \in added(f) : \E i \in labels : l.id = j.uuid[i] /\ SameName(l, b[i])
  BY DEF NewLabels, SameName
<1> HIDE DEF edited, added, doc
<1>6. ASSUME NEW l \in old PROVE l \in now
  <2>1. PICK inst \in Instances(before) : \E k \in before[inst.file].labels : l = LabelRead(inst, k)
    BY LabelHas DEF doc
  <2>2. PICK k \in before[inst.file].labels : l = LabelRead(inst, k)
    BY <2>1
  <2>3. inst \in Instances(after) /\ k \in after[inst.file].labels
    BY <1>1, <1>3, <1>4
  <2> QED BY <2>2, <2>3, LabelIs
<1>7. ASSUME NEW l \in now \ old
      PROVE  \E i \in labels : l.ref = <<"label", b[i].target[2], j.uuid[i]>> /\ SameName(l, b[i])
  <2>1. PICK inst \in Instances(before) : \E k \in after[inst.file].labels : l = LabelRead(inst, k)
    BY <1>1, <1>7, LabelHas
  <2>2. PICK k \in after[inst.file].labels : l = LabelRead(inst, k)
    BY <2>1
  <2>3. k \notin before[inst.file].labels
    BY <1>7, <2>2, LabelIs DEF doc
  <2>4. k \in added(inst.file)
    BY <1>3, <1>4, <2>3
  <2>5. PICK i \in labels : k.id = j.uuid[i] /\ SameName(k, b[i])
    BY <1>5, <2>4
  <2>6. l.ref = <<"label", inst.sheet, j.uuid[i]>> /\ SameName(l, b[i])
    BY <2>2, <2>5 DEF LabelRead, SameName
  <2>7. l.ref \notin Refs(old)
    BY <1>2, <1>6, <1>7 DEF Refs
  <2> DEFINE c == Selector("label_added", l.ref, "")
  <2>8. c \in Changes(doc, Document(after))
    <3>1. l.ref \in Refs(now)
      BY <1>7 DEF Refs
    <3>2. c \in Added("label_added", old, now)
      BY <2>7, <3>1 DEF Added
    <3> HIDE DEF c
    <3> QED BY <3>2 DEF Changes
  <2>9. c.kind = "label_added" /\ c.ref = l.ref
    BY DEF Selector
  <2> HIDE DEF c
  <2>10. PICK m \in DOMAIN b : c = OwnSelector(b, j.uuid, m)
    BY <2>8, <2>9, ChangesAreClaimed DEF doc
  <2>11. IsLabel(b[m]) /\ c.ref = <<"label", b[m].target[2], j.uuid[m]>>
    BY <2>9, <2>10 DEF OwnSelector, Selector
  <2>12. j.uuid[m] = j.uuid[i]
    BY <2>6, <2>9, <2>11
  <2>13. m = i
    BY <1>2, <2>11, <2>12 DEF FreshUuids
  <2> QED BY <2>6, <2>9, <2>11, <2>13
<1>8. ASSUME NEW i \in labels PROVE \E l \in now \ old : l.ref[3] = j.uuid[i]
  <2> DEFINE f == PlaceOf(doc, before, b[i]).file
             k == [id |-> j.uuid[i], name |-> b[i].name, scope |-> b[i].scope,
                   at |-> PlaceOf(doc, before, b[i]).at]
  <2>1. f \in edited
    BY DEF edited, FilesOf
  <2>2. k \in added(f)
    BY DEF added, NewLabels
  <2>3. k.id = j.uuid[i]
    OBVIOUS
  <2> HIDE DEF f, k
  <2>4. PICK inst \in Instances(before) : inst.file = f
    BY <1>1, <1>2, <2>1 DEF Parsable
  <2>5. k \in after[inst.file].labels
    BY <1>1, <1>4, <2>1, <2>2, <2>4
  <2> DEFINE l == LabelRead(inst, k)
  <2>6. l \in now
    BY <1>1, <2>5, LabelIs
  <2>7. l.ref[3] = j.uuid[i]
    BY <2>3 DEF LabelRead
  <2> HIDE DEF l
  <2>8. l \notin old
    BY <1>2, <2>7 DEF FreshUuids
  <2> QED BY <2>6, <2>7, <2>8
<1> QED BY <1>6, <1>7, <1>8 DEF doc

\* There are as many new labels as commands for one.
LEMMA LabelsAreCounted ==
  ASSUME NEW j, NEW after, Judged(j, after), ~j.module
  PROVE  Cardinality(Document(after).labels \ Document(j.before).labels)
           = Cardinality({i \in DOMAIN j.batch : IsLabel(j.batch[i])})
<1> DEFINE b == j.batch
           labels == {i \in DOMAIN b : IsLabel(b[i])}
           new == Document(after).labels \ Document(j.before).labels
           of == [i \in labels |-> CHOOSE l \in new : l.ref[3] = j.uuid[i]]
<1>1. IsFiniteSet(labels)
  <2>1. IsFiniteSet(DOMAIN b)
    BY BatchIs DEF Judged, Planned, PlannedEdits
  <2> QED BY <2>1, FS_Subset
<1>2. FreshUuids(Document(j.before), b, j.uuid) /\ \A k, l \in new : k.ref = l.ref => k = l
  BY DEF Judged, Planned, PlannedEdits, Accepted, Indexable
<1>3. /\ \A l \in new : \E i \in labels : l.ref = <<"label", b[i].target[2], j.uuid[i]>>
      /\ \A i \in labels : \E l \in new : l.ref[3] = j.uuid[i]
  BY LabelsAreNamed
<1>4. \A i, k \in labels : j.uuid[i] = j.uuid[k] => i = k
  BY <1>2 DEF FreshUuids
<1> HIDE DEF labels, new
<1>5. \A i \in labels : of[i] \in new /\ of[i].ref[3] = j.uuid[i]
  BY <1>3
<1>6. ASSUME NEW k \in new, NEW l \in new, k.ref[3] = l.ref[3] PROVE k = l
  <2>1. PICK i \in labels : k.ref = <<"label", b[i].target[2], j.uuid[i]>>
    BY <1>3
  <2>2. PICK m \in labels : l.ref = <<"label", b[m].target[2], j.uuid[m]>>
    BY <1>3
  <2>3. i = m
    BY <1>4, <1>6, <2>1, <2>2
  <2> QED BY <1>2, <2>1, <2>2, <2>3
<1>7. \A l \in new : \E i \in labels : of[i] = l
  <2> SUFFICES ASSUME NEW l \in new PROVE \E i \in labels : of[i] = l
    OBVIOUS
  <2>1. PICK i \in labels : l.ref = <<"label", b[i].target[2], j.uuid[i]>>
    BY <1>3
  <2>2. l.ref[3] = j.uuid[i]
    BY <2>1
  <2>3. of[i] \in new /\ of[i].ref[3] = l.ref[3]
    BY <1>5, <2>2
  <2> HIDE DEF of
  <2> QED BY <1>6, <2>3
<1>8. of \in [labels -> new]
  BY <1>5
<1> HIDE DEF of
<1>9. \A i, k \in labels : of[i] = of[k] => i = k
  BY <1>4, <1>5
<1>10. of \in Bijection(labels, new)
  BY <1>7, <1>8, <1>9, Fun_IsBij
<1> QED BY <1>1, <1>10, FS_Bijection DEF ExistsBijection, labels, new

\* An accepted batch of edits has done what its commands say and nothing else.
LEMMA EditsExact ==
  ASSUME NEW j, NEW after, Judged(j, after), ~j.module
  PROVE  EditsAreExact(j.batch, Document(j.before), Document(after))
<1> DEFINE doc == Document(j.before)
           now == Document(after)
           b == j.batch
           edits == {i \in DOMAIN b : ~IsLabel(b[i])}
           labels == DOMAIN b \ edits
           new == now.labels \ doc.labels
<1>1. now.sheets = doc.sheets
  <2>1. Instances(after) = Instances(j.before)
    BY EditsAreWritten
  <2> QED BY <2>1 DEF Document, ReadAs
<1>2. Refs(now.symbols) = Refs(doc.symbols)
  <2>1. \A ref \in Refs(now.symbols) : ref \in Refs(doc.symbols)
    BY SymbolsStay
  <2>2. \A ref \in Refs(doc.symbols) : ref \in Refs(now.symbols)
    BY PropertyAfter, NamesAssumption
  <2> QED BY <2>1, <2>2
<1>3. ASSUME NEW s \in Refs(doc.symbols), NEW n \in PropertyNames, Differs(doc, now, s, n)
      PROVE  \E i \in edits : b[i].subject = s /\ NameOf(b[i]) = n
  <2> DEFINE kind == IF n = "Footprint" THEN "footprint_changed" ELSE "symbol_property_changed"
             c == Selector(kind, s, n)
  <2>1. c \in SymbolChanges(doc.symbols, now.symbols)
    <3> DEFINE of(r) == {Selector(IF k = "Footprint" THEN "footprint_changed" ELSE "symbol_property_changed", r, k) :
                           k \in {m \in PropertyNames : At(doc.symbols, r).props[m] # At(now.symbols, r).props[m]}}
    <3>1. c \in of(s)
      BY <1>3 DEF Differs
    <3>2. SymbolChanges(doc.symbols, now.symbols) = UNION {of(r) : r \in Refs(doc.symbols) \cap Refs(now.symbols)}
      BY DEF SymbolChanges
    <3>3. s \in Refs(doc.symbols) \cap Refs(now.symbols)
      BY <1>2
    <3> HIDE DEF of, c, now, doc
    <3> QED BY <3>1, <3>2, <3>3
  <2>2. c.kind \in {"footprint_changed", "symbol_property_changed"} /\ c.ref = s /\ c.field = n
    BY DEF Selector
  <2> HIDE DEF c
  <2>3. c \in Changes(doc, now)
    BY <2>1 DEF Changes
  <2>4. PICK i \in DOMAIN b : c = OwnSelector(b, j.uuid, i)
    BY <2>2, <2>3, ChangesAreClaimed
  <2>5. ~IsLabel(b[i]) /\ c.ref = b[i].subject /\ c.field = NameOf(b[i])
    BY <2>2, <2>4 DEF OwnSelector, Selector
  <2> QED BY <2>2, <2>5
<1>4. \A i \in edits : At(now.symbols, b[i].subject).props[NameOf(b[i])] = <<b[i].value>>
  BY OneEdit
<1>5. labels = {i \in DOMAIN b : IsLabel(b[i])}
  OBVIOUS
<1> HIDE DEF labels
<1>6. doc.labels \subseteq now.labels /\ Cardinality(new) = Cardinality(labels)
  BY <1>5, LabelsAreNamed, LabelsAreCounted
<1>7. ASSUME NEW i \in labels
      PROVE  \E l \in new : SameName(l, b[i]) /\ l.ref[2] = b[i].target[2]
  <2>1. PICK l \in new : l.ref[3] = j.uuid[i]
    BY <1>5, LabelsAreNamed
  <2>2. PICK k \in labels : l.ref = <<"label", b[k].target[2], j.uuid[k]>> /\ SameName(l, b[k])
    BY <1>5, LabelsAreNamed
  <2>3. i = k
    BY <1>5, <2>1, <2>2 DEF FreshUuids, Judged, Planned, PlannedEdits
  <2> QED BY <2>2, <2>3
<1> HIDE DEF now, doc
<1> QED BY <1>1, <1>2, <1>3, <1>4, <1>6, <1>7 DEF EditsAreExact, labels, now, doc

\* No two symbols come to share a reference.
LEMMA ReferencesApartAfter ==
  ASSUME NEW j, NEW after, Judged(j, after), ~j.module
  PROVE  ReferencesApart(Document(j.before), Document(after))
<1> DEFINE doc == Document(j.before)
           now == Document(after)
           b == j.batch
           Old(s) == At(doc.symbols, s).props["Reference"]
           New(s) == At(now.symbols, s).props["Reference"]
           Renames(i, s) == i \in DOMAIN b /\ ~IsLabel(b[i]) /\ b[i].subject = s /\ NameOf(b[i]) = "Reference"
<1>1. b \in Batches /\ Plannable(doc, j.before, b)
  BY DEF Judged, Planned, PlannedEdits
<1>2. ASSUME NEW s \in Refs(doc.symbols), New(s) # Old(s) PROVE \E i : Renames(i, s)
  <2>1. Differs(doc, now, s, "Reference")
    BY <1>2 DEF Differs
  <2>2. EditsAreExact(b, doc, now)
    BY EditsExact
  <2> HIDE DEF doc, now, b
  <2>3. \E i \in {k \in DOMAIN b : ~IsLabel(b[k])} : b[i].subject = s /\ NameOf(b[i]) = "Reference"
    BY <1>2, <2>1, <2>2, NamesAssumption DEF EditsAreExact
  <2> QED BY <2>3
<1>3. ASSUME NEW i, NEW s, Renames(i, s) PROVE New(s) = <<b[i].value>> /\ ReferenceFree(doc, b, i)
  <2>1. i \in DOMAIN j.batch /\ ~IsLabel(j.batch[i]) /\ j.batch[i].subject = s /\ NameOf(j.batch[i]) = "Reference"
    BY <1>3
  <2>2. At(Document(after).symbols, j.batch[i].subject).props[NameOf(j.batch[i])] = <<j.batch[i].value>>
    BY <2>1, OneEdit
  <2>3. New(s) = <<b[i].value>>
    BY <2>1, <2>2
  <2>4. i \in DOMAIN b /\ ~IsLabel(b[i]) /\ NameOf(b[i]) = "Reference"
    BY <2>1
  <2> HIDE DEF doc, now, b
  <2>5. ReferenceFree(doc, b, i)
    BY <1>1, <2>4 DEF Plannable
  <2> QED BY <2>3, <2>5
<1>4. ASSUME NEW i, NEW k, NEW s, Renames(i, s), Renames(k, s) PROVE i = k
  <2>1. NodeOf(doc, b[i]) = NodeOf(doc, b[k])
    BY <1>4 DEF NodeOf
  <2>2. EditsOf(doc, b, NodeOf(doc, b[i])) = {i} /\ k \in EditsOf(doc, b, NodeOf(doc, b[i]))
    BY <1>4, <2>1, OneEdit DEF EditsOf
  <2> QED BY <2>2
<1>5. \A i, s : Renames(i, s) <=> /\ i \in DOMAIN b /\ b[i].type = "set_property"
                                  /\ b[i].name = "Reference" /\ b[i].subject = s
  <2>1. \A i \in DOMAIN b : b[i] \in Edits
    BY <1>1, BatchIs
  <2>2. \A i \in DOMAIN b : ~IsLabel(b[i]) => b[i].type \in {"set_property", "assign_footprint"}
    BY <2>1, EditsAssumption DEF IsLabel
  <2> QED BY <2>2 DEF IsLabel, NameOf
<1>6. PICK n \in Nat : DOMAIN b = 1 .. n
  BY <1>1, BatchIs
<1> HIDE DEF doc, now, b, Old, New, Renames
\* A command gives a symbol the reference of another one only if that one is renamed earlier.
<1>7. ASSUME NEW i, NEW s, NEW t \in Refs(doc.symbols), s # t, Renames(i, s), New(t) = New(s)
      PROVE  \E k : Renames(k, t) /\ i < k
  <2>1. ReferenceOf(doc, b, i, t) # <<b[i].value>> /\ New(s) = <<b[i].value>>
    BY <1>3, <1>5, <1>7 DEF ReferenceFree
  <2> DEFINE writes == {k \in 1 .. i - 1 : /\ b[k].type = "set_property"
                                           /\ b[k].name = "Reference" /\ b[k].subject = t}
  <2>2. i \in 1 .. n
    BY <1>5, <1>6, <1>7
  <2>3. \A k \in writes : Renames(k, t)
    BY <1>5, <1>6, <2>2
  <2>4. writes = {}
    <3> SUFFICES ASSUME writes # {} PROVE FALSE
      OBVIOUS
    <3> DEFINE last == CHOOSE k \in writes : \A m \in writes : m <= k
    <3>1. PICK k \in writes : TRUE
      OBVIOUS
    <3>2. \A m \in writes : m = k
      BY <1>4, <2>3
    <3>3. last = k
      <4>1. k <= k
        BY <2>2
      <4> HIDE DEF writes
      <4> QED BY <3>2, <4>1
    <3>4. ReferenceOf(doc, b, i, t) = <<b[last].value>>
      BY <3>1 DEF ReferenceOf
    <3>5. New(t) = <<b[k].value>>
      BY <1>3, <2>3
    <3> QED BY <1>7, <2>1, <3>3, <3>4, <3>5
  <2>5. Old(t) # <<b[i].value>>
    BY <2>1, <2>4 DEF ReferenceOf, Old
  <2>6. PICK k : Renames(k, t)
    BY <1>2, <1>7, <2>1, <2>5
  <2>7. k \in 1 .. n /\ k \notin writes
    BY <1>5, <1>6, <2>4, <2>6
  <2>8. k # i
    BY <1>5, <1>7, <2>6
  <2>9. b[k].type = "set_property" /\ b[k].name = "Reference" /\ b[k].subject = t
    BY <1>5, <2>6
  <2>10. k \notin 1 .. i - 1
    BY <2>7, <2>9
  <2> QED BY <2>2, <2>6, <2>7, <2>8, <2>10
<1>8. ASSUME NEW s \in Refs(doc.symbols), NEW t \in Refs(doc.symbols), s # t, New(s) = New(t)
      PROVE  Old(s) = Old(t)
  <2>1. ASSUME NEW i, Renames(i, s) PROVE FALSE
    <3>1. PICK k : Renames(k, t) /\ i < k
      BY <1>7, <1>8, <2>1
    <3>2. PICK m : Renames(m, s) /\ k < m
      BY <1>7, <1>8, <3>1
    <3>3. m = i
      BY <1>4, <2>1, <3>2
    <3>4. i \in 1 .. n /\ k \in 1 .. n
      BY <1>5, <1>6, <2>1, <3>1
    <3> QED BY <3>1, <3>2, <3>3, <3>4
  <2>2. ASSUME NEW i, Renames(i, t) PROVE FALSE
    <3>1. PICK k : Renames(k, s)
      BY <1>7, <1>8, <2>2
    <3> QED BY <2>1, <3>1
  <2> QED BY <1>2, <1>8, <2>1, <2>2
<1> QED BY <1>8 DEF ReferencesApart, SameReference, Old, New, doc, now

\* A module that is accepted adds one sheet, and every symbol, label and sheet is as it was.
LEMMA ModuleAddsOneSheet ==
  ASSUME NEW j, NEW after, Judged(j, after), j.module
  PROVE  LET old == Document(j.before)
             now == Document(after)
         IN  /\ old.symbols \subseteq now.symbols /\ old.labels \subseteq now.labels
             /\ Cardinality(now.sheets \ old.sheets) = 1 /\ old.sheets \subseteq now.sheets
<1> DEFINE before == j.before
           old == Document(before)
           now == Document(after)
           child == CHOOSE f \in Spare(before) : TRUE
<1>1. Parsable(before) /\ Parsable(after) /\ IsDisk(before) /\ PlannedModule(j) /\ Indexable(old)
  BY DEF Judged, Planned, Accepted
<1>2. PICK c \in Modules, base \in ModuleUuids : \E inst \in TargetSheets(old, c) :
        /\ \A n \in old.insts : n.sheet # Uuid(base, "sheet", 0)
        /\ j.new = ModuleFiles(old, before, c, base, inst.file, child)
  BY <1>1 DEF PlannedModule
<1>3. PICK target \in TargetSheets(old, c) :
        /\ \A n \in old.insts : n.sheet # Uuid(base, "sheet", 0)
        /\ j.new = ModuleFiles(old, before, c, base, target.file, child)
  BY <1>2
<1> DEFINE file == target.file
<1>4. /\ target \in Instances(before) /\ file \in Present(before)
      /\ child \in DOMAIN before /\ before[child] = Absent /\ child # file
  BY <1>1, ModuleIsPlaced DEF PlannedModule
<1>5. old.insts = Instances(before) /\ old.sheets = SheetsRead(Instances(before))
      /\ now.sheets = SheetsRead(Instances(after))
  BY DEF Document, ReadAs
<1>6. \A f \in Present(before) : f \in DOMAIN before /\ IsFile(before[f]) /\ before[f] # Absent
  BY <1>1 DEF Present, IsDisk
<1>7. IsFiniteSet(Present(before))
  BY <1>1, FS_Subset DEF Present, IsDisk
<1> HIDE DEF child, old, now
<1>8. /\ after[child] = Template(c, base)
      /\ after[file] = WithSheet(old, before, c, base, file, child)
      /\ \A f \in DOMAIN before \ {file, child} : after[f] = before[f]
  <2>1. /\ DOMAIN j.new = {file, child} /\ j.new[child] = Template(c, base)
        /\ j.new[file] = WithSheet(old, before, c, base, file, child)
    BY <1>3, <1>4 DEF ModuleFiles
  <2>2. \A f \in DOMAIN before : after[f] = IF f \in DOMAIN j.new THEN j.new[f] ELSE before[f]
    BY DEF Judged
  <2> QED BY <1>4, <1>6, <2>1, <2>2
<1>9. after[child] # Absent /\ after[child].sheets = {}
  BY <1>8, TemplateIs
<1>10. /\ after[file] # Absent /\ after[file].id = before[file].id
       /\ after[file].symbols = before[file].symbols /\ before[file].labels \subseteq after[file].labels
       /\ \E s : /\ after[file].sheets = before[file].sheets \cup {s}
                 /\ s.id = Uuid(base, "sheet", 0) /\ s.file = child
  BY <1>4, <1>6, <1>8, WithSheetIs
<1>11. PICK sheet : /\ after[file].sheets = before[file].sheets \cup {sheet}
                    /\ sheet.id = Uuid(base, "sheet", 0) /\ sheet.file = child
  BY <1>10
<1>12. Present(after) = Present(before) \cup {child} /\ child \notin Present(before)
  BY <1>4, <1>6, <1>8, <1>9, <1>10 DEF Present, Judged
<1>13. ASSUME NEW inst \in Instances(before), inst.file = file PROVE inst = target
  <2> DEFINE read == [ref |-> <<"sheet", inst.parent, inst.sheet>>, file |-> inst.file]
  <2>1. read \in old.sheets
    BY <1>5 DEF SheetsRead
  <2>2. read.ref = c.target /\ read.ref = <<"sheet", inst.parent, inst.sheet>>
    BY <1>13, <2>1 DEF TargetSheets
  <2>3. c.target = <<"sheet", target.parent, target.sheet>>
    BY DEF TargetSheets
  <2>4. inst.sheet = target.sheet
    BY <2>2, <2>3
  <2> QED BY <1>1, <1>4, <1>5, <2>4 DEF Indexable
<1>14. ASSUME NEW f \in Present(before)
       PROVE  /\ after[f].id = before[f].id /\ after[f].symbols = before[f].symbols
              /\ before[f].labels \subseteq after[f].labels
              /\ f # file => after[f].sheets = before[f].sheets
  <2>1. CASE f = file
    BY <1>10, <2>1
  <2>2. CASE f # file
    <3>1. f \in DOMAIN before /\ f # child
      BY <1>6, <1>12
    <3>2. after[f] = before[f]
      BY <1>8, <2>2, <3>1
    <3> QED BY <2>2, <3>2
  <2> QED BY <2>1, <2>2
<1> DEFINE new == [sheet |-> sheet.id, parent |-> target.sheet, file |-> child, owner |-> file,
                   trail |-> target.trail \cup {child}]
<1>15. Instances(after) = Instances(before) \cup {new}
  BY <1>1, <1>4, <1>7, <1>9, <1>11, <1>12, <1>13, <1>14, OneMoreInstance
<1>16. new.sheet = Uuid(base, "sheet", 0)
  BY <1>11
<1> HIDE DEF new
<1>17. \A inst \in Instances(before) : inst.file \in Present(before) /\ inst \in Instances(after)
  BY <1>1, <1>7, <1>15, InstancesAreClosed
<1>18. old.symbols \subseteq now.symbols
  <2>1. old.symbols = SymbolsRead(before, Instances(before)) /\ now.symbols = SymbolsRead(after, Instances(after))
    BY DEF Document, ReadAs, old, now
  <2> DEFINE of(files, inst) == {[ref |-> <<"symbol", inst.sheet, s.id>>, props |-> s.props] :
                                   s \in files[inst.file].symbols}
  <2>2. /\ old.symbols = UNION {of(before, inst) : inst \in Instances(before)}
        /\ now.symbols = UNION {of(after, inst) : inst \in Instances(after)}
    BY <2>1 DEF SymbolsRead
  <2>3. \A inst \in Instances(before) : of(after, inst) = of(before, inst)
    BY <1>14, <1>17
  <2> HIDE DEF of
  <2> QED BY <1>17, <2>2, <2>3
<1>19. ASSUME NEW l \in old.labels PROVE l \in now.labels
  <2>1. PICK inst \in Instances(before) : \E k \in before[inst.file].labels : l = LabelRead(inst, k)
    BY <1>19, LabelHas DEF old
  <2>2. PICK k \in before[inst.file].labels : l = LabelRead(inst, k)
    BY <2>1
  <2>3. k \in after[inst.file].labels /\ inst \in Instances(after)
    BY <1>14, <1>17
  <2> QED BY <2>2, <2>3, LabelIs DEF now
<1>20. Cardinality(now.sheets \ old.sheets) = 1 /\ old.sheets \subseteq now.sheets
  <2> DEFINE read(i) == [ref |-> <<"sheet", i.parent, i.sheet>>, file |-> i.file]
  <2>1. /\ old.sheets = {read(i) : i \in Instances(before)}
        /\ now.sheets = {read(i) : i \in Instances(after)}
    BY <1>5 DEF SheetsRead
  <2>2. read(new) \notin old.sheets
    <3> SUFFICES ASSUME NEW i \in Instances(before), read(i) = read(new) PROVE FALSE
      BY <2>1
    <3>1. read(i).ref = read(new).ref
      OBVIOUS
    <3>2. i.sheet = new.sheet
      BY <3>1
    <3> QED BY <1>3, <1>5, <1>16, <3>2
  <2> HIDE DEF read
  <2>3. now.sheets \ old.sheets = {read(new)} /\ old.sheets \subseteq now.sheets
    BY <1>15, <2>1, <2>2
  <2> QED BY <2>3, FS_Singleton
<1> QED BY <1>18, <1>19, <1>20 DEF old, now

-----------------------------------------------------------------------------
(* What is accepted. *)

\* A call that has been accepted was judged.
LEMMA AcceptedWasJudged ==
  ASSUME IInv, Over("accepted")
  PROVE  Judged(job, disk)
BY DEF IInv, TypeOK, CallIsPlanned, AcceptedIsJudged, Over, IsWritten, Judged, Read

\* An accepted batch changed the properties its commands name, to the values they give, and
\* put one label for every command that adds one on the sheet it names, and changed nothing
\* else, as the files are read; an accepted module left all there was as it was.
THEOREM OnlyTheNamedChangeAlways == Spec => []OnlyTheNamedChange
<1>1. IInv => OnlyTheNamedChange
  <2> SUFFICES ASSUME IInv, Over("accepted")
               PROVE  IF job.module
                      THEN /\ Document(job.before).symbols \subseteq Read.symbols
                           /\ Document(job.before).labels \subseteq Read.labels
                           /\ Cardinality(Read.sheets \ Document(job.before).sheets) = 1
                           /\ Document(job.before).sheets \subseteq Read.sheets
                      ELSE EditsAreExact(job.batch, Document(job.before), Read)
    BY DEF OnlyTheNamedChange
  <2>1. Judged(job, disk)
    BY AcceptedWasJudged
  <2>2. CASE job.module
    BY <2>1, <2>2, ModuleAddsOneSheet DEF Read
  <2>3. CASE ~job.module
    BY <2>1, <2>3, EditsExact DEF Read
  <2> QED BY <2>2, <2>3
<1> QED BY <1>1, InitInv, NextInv, PTL DEF Spec

\* No accepted batch gives two symbols one reference that did not share one before, in
\* whatever order its commands rename them.
THEOREM ReferencesStayApartAlways == Spec => []ReferencesStayApart
<1>1. IInv => ReferencesStayApart
  BY AcceptedWasJudged, ReferencesApartAfter DEF ReferencesStayApart, Read
<1> QED BY <1>1, InitInv, NextInv, PTL DEF Spec

-----------------------------------------------------------------------------
(* Where a label is put, and what net is there. *)

\* A wire goes through its ends.
LEMMA WireHasEnds ==
  ASSUME NEW w, IsWire(w)
  PROVE  /\ Len(w.pts) \in Nat /\ DOMAIN w.pts = 1 .. Len(w.pts)
         /\ OnWire(w.pts[1], w) /\ OnWire(w.pts[Len(w.pts)], w)
<1> DEFINE N == Len(w.pts)
<1>1. N \in Nat /\ N >= 2 /\ DOMAIN w.pts = 1 .. N
  BY DEF IsWire
<1>2. \A i \in 1 .. N : w.pts[i].x \in Int /\ w.pts[i].y \in Int
  <2> SUFFICES ASSUME NEW i \in 1 .. N PROVE w.pts[i].x \in Int /\ w.pts[i].y \in Int
    OBVIOUS
  <2> DEFINE P == [x : Int, y : Int]
  <2> HIDE DEF P
  <2>1. w.pts \in Seq(P) /\ i \in 1 .. Len(w.pts)
    BY DEF IsWire, P
  <2>2. w.pts[i] \in P
    BY <2>1
  <2> USE DEF P
  <2> QED BY <2>2
<1> HIDE DEF N
<1>3. ASSUME NEW m \in Int, NEW n \in Int
      PROVE  Least({m, n}) = IF m <= n THEN m ELSE n
  <2>1. CASE m <= n
    <3>1. m \in {m, n} /\ \A k \in {m, n} : m <= k
      BY <2>1
    <3>2. \A l \in {m, n} : (\A k \in {m, n} : l <= k) => l = m
      BY <2>1
    <3> QED BY <2>1, <3>1, <3>2 DEF Least
  <2>2. CASE ~(m <= n)
    <3>1. n \in {m, n} /\ \A k \in {m, n} : n <= k
      BY <2>2
    <3>2. \A l \in {m, n} : (\A k \in {m, n} : l <= k) => l = n
      BY <2>2
    <3> QED BY <2>2, <3>1, <3>2 DEF Least
  <2> QED BY <2>1, <2>2
<1>4. ASSUME NEW p, NEW q, p.x \in Int, p.y \in Int, q.x \in Int, q.y \in Int
      PROVE  OnSegment(p, p, q) /\ OnSegment(q, p, q)
  <2>1. /\ Least({p.x, q.x}) = IF p.x <= q.x THEN p.x ELSE q.x
        /\ Least({p.y, q.y}) = IF p.y <= q.y THEN p.y ELSE q.y
    BY <1>3, <1>4
  <2>2. (p.x - p.x) * (q.y - p.y) = 0 /\ (p.y - p.y) * (q.x - p.x) = 0
    BY <1>4
  <2>3. (q.x - p.x) * (q.y - p.y) = (q.y - p.y) * (q.x - p.x)
    BY <1>4
  <2>4. OnSegment(p, p, q)
    BY <1>4, <2>1, <2>2 DEF OnSegment
  <2>5. OnSegment(q, p, q)
    BY <1>4, <2>1, <2>3 DEF OnSegment
  <2> QED BY <2>4, <2>5
<1>5. OnWire(w.pts[1], w)
  <2>1. 1 \in 1 .. Len(w.pts) - 1 /\ 1 \in 1 .. N /\ 1 + 1 \in 1 .. N
    BY <1>1 DEF N
  <2>2. OnSegment(w.pts[1], w.pts[1], w.pts[1 + 1])
    BY <1>2, <1>4, <2>1
  <2> QED BY <2>1, <2>2 DEF OnWire
<1>6. OnWire(w.pts[N], w)
  <2>1. N - 1 \in 1 .. Len(w.pts) - 1 /\ N - 1 \in 1 .. N /\ N \in 1 .. N /\ (N - 1) + 1 = N
    BY <1>1 DEF N
  <2>2. OnSegment(w.pts[N], w.pts[N - 1], w.pts[(N - 1) + 1])
    BY <1>2, <1>4, <2>1
  <2> QED BY <2>1, <2>2 DEF OnWire
<1> QED BY <1>1, <1>5, <1>6 DEF N

\* The wires reached from w in at most k steps, in the order in which the code walks.
IsReach(file, w, reach, N) ==
  reach = [n \in 0 .. N |->
             IF n = 0 THEN {w}
             ELSE {v \in file.wires : \E u \in reach[n - 1] : WiresMeet(file, u, v)}]

\* Wires can be reached in any number of steps.
LEMMA ReachExists ==
  ASSUME NEW file, NEW w, NEW N \in Nat
  PROVE  \E reach : IsReach(file, w, reach, N)
<1> DEFINE step(s) == {v \in file.wires : \E u \in s : WiresMeet(file, u, v)}
           Is(r, n) == r = [m \in 0 .. n |-> IF m = 0 THEN {w} ELSE step(r[m - 1])]
           G == {n \in Nat : \E r : Is(r, n)}
<1>1. 0 \in G
  <2> DEFINE r == [m \in 0 .. 0 |-> {w}]
  <2>1. \A m \in 0 .. 0 : m = 0
    OBVIOUS
  <2> HIDE DEF step
  <2>2. Is(r, 0)
    BY <2>1
  <2> HIDE DEF Is, r
  <2> QED BY <2>2
<1> HIDE DEF step
<1>2. ASSUME NEW n \in Nat, n \in G PROVE n + 1 \in G
  <2>1. PICK r : Is(r, n)
    BY <1>2
  <2> DEFINE next == [m \in 0 .. n + 1 |-> IF m = n + 1 THEN step(r[n]) ELSE r[m]]
  <2>2. \A m \in 0 .. n : r[m] = IF m = 0 THEN {w} ELSE step(r[m - 1])
    BY <2>1
  <2>3. ASSUME NEW m \in 0 .. n + 1
        PROVE  next[m] = IF m = 0 THEN {w} ELSE step(next[m - 1])
    <3>1. CASE m = n + 1
      BY <3>1
    <3>2. CASE m # n + 1
      <4>1. m \in 0 .. n /\ next[m] = r[m]
        BY <3>2
      <4>2. m # 0 => m - 1 \in 0 .. n /\ next[m - 1] = r[m - 1]
        BY <4>1
      <4> QED BY <2>2, <4>1, <4>2
    <3> QED BY <3>1, <3>2
  <2>4. next = [m \in 0 .. n + 1 |-> next[m]]
    OBVIOUS
  <2> HIDE DEF next
  <2>5. Is(next, n + 1)
    BY <2>3, <2>4
  <2> HIDE DEF Is
  <2> QED BY <2>5
<1> HIDE DEF G
<1>3. 1 \in G
  <2>1. 0 + 1 \in G
    BY <1>1, <1>2
  <2> QED BY <2>1
<1>4. 1 .. N \subseteq G
  BY <1>2, <1>3, UpTo
<1>5. N \in G
  <2>1. N = 0 \/ N \in 1 .. N
    OBVIOUS
  <2> QED BY <1>1, <1>4, <2>1
<1>6. PICK r : Is(r, N)
  BY <1>5 DEF G
<1>7. IsReach(file, w, r, N)
  BY <1>6 DEF IsReach, step
<1> QED BY <1>7

\* A component is made of wires, and a wire is in its own.
LEMMA OwnComponent ==
  ASSUME NEW file, IsDrawn(file), NEW w \in file.wires
  PROVE  /\ w \in ComponentOf(file, w) /\ ComponentOf(file, w) \subseteq file.wires
         /\ ComponentOf(file, w) \in Components(file)
<1> DEFINE N == Cardinality(file.wires)
           reach == CHOOSE r : IsReach(file, w, r, N)
<1>1. N \in Nat
  BY FS_CardinalityType DEF IsDrawn
<1>2. IsReach(file, w, reach, N)
  BY <1>1, ReachExists
<1>3. ComponentOf(file, w) = reach[N]
  BY DEF ComponentOf, IsReach
<1> HIDE DEF reach, N
<1>4. \A n \in 0 .. N :
        reach[n] = IF n = 0 THEN {w}
                   ELSE {v \in file.wires : \E u \in reach[n - 1] : WiresMeet(file, u, v)}
  BY <1>2 DEF IsReach
<1>5. WiresMeet(file, w, w)
  <2>1. Len(w.pts) \in Nat /\ DOMAIN w.pts = 1 .. Len(w.pts) /\ Len(w.pts) >= 2
    BY WireHasEnds DEF IsDrawn, IsWire
  <2>2. 1 \in DOMAIN w.pts
    BY <2>1
  <2> QED BY <2>2 DEF WiresMeet
<1> DEFINE G == {n \in 0 .. N : w \in reach[n] /\ reach[n] \subseteq file.wires}
<1>6. 0 \in G
  <2>1. 0 \in 0 .. N
    BY <1>1
  <2>2. reach[0] = {w}
    BY <1>4, <2>1
  <2> QED BY <2>1, <2>2
<1>7. ASSUME NEW n \in 0 .. N - 1, n \in G PROVE n + 1 \in G
  <2>1. n + 1 \in 0 .. N /\ n + 1 # 0 /\ (n + 1) - 1 = n
    BY <1>1
  <2>2. reach[n + 1] = {v \in file.wires : \E u \in reach[n] : WiresMeet(file, u, v)}
    BY <1>4, <2>1
  <2>3. w \in reach[n]
    BY <1>7
  <2> QED BY <1>5, <2>1, <2>2, <2>3
<1> HIDE DEF G
<1>8. N \in G
  <2>1. CASE N = 0
    BY <1>6, <2>1
  <2>2. CASE N # 0
    <3>1. 1 \in G
      <4>1. 0 + 1 \in G
        BY <1>1, <1>6, <1>7, <2>2
      <4> QED BY <4>1
    <3>2. 1 .. N \subseteq G
      BY <1>1, <1>7, <3>1, UpTo
    <3> QED BY <1>1, <2>2, <3>2
  <2> QED BY <2>1, <2>2
<1>9. w \in reach[N] /\ reach[N] \subseteq file.wires
  BY <1>8 DEF G
<1> QED BY <1>3, <1>9 DEF Components

\* The components of a file depend on its wires and its junctions alone.
LEMMA SameComponents ==
  ASSUME NEW old, NEW new, new.wires = old.wires, new.junctions = old.junctions
  PROVE  Components(new) = Components(old)
<1> DEFINE Comp(wires, junctions, w) ==
             LET reach[n \in 0 .. Cardinality(wires)] ==
                   IF n = 0 THEN {w}
                   ELSE {v \in wires : \E u \in reach[n - 1] :
                           \/ \E i \in DOMAIN u.pts, k \in DOMAIN v.pts : u.pts[i] = v.pts[k]
                           \/ \E j \in junctions : OnWire(j.at, u) /\ OnWire(j.at, v)}
             IN  reach[Cardinality(wires)]
<1>1. ASSUME NEW file, NEW w PROVE ComponentOf(file, w) = Comp(file.wires, file.junctions, w)
  BY DEF ComponentOf, WiresMeet
<1> HIDE DEF Comp
<1> QED BY <1>1 DEF Components

\* There is a net of the file of an instance at a point: the net, or none.
Meets(files, inst, at, net) ==
  LET on == {c \in Components(files[inst.file]) : OnNet(c, at)}
  IN  \/ net = NoNet /\ on = {}
      \/ \E c \in on : net = <<"net", inst.sheet, Anchor(files[inst.file], c)>>

\* What can be put on a net: the pins, the ports and the labels of a file.
ThingsOf(file, kind) ==
  CASE kind = "pin" -> PinsOf(file) [] kind = "hierarchical_port" -> PortsOf(file)
    [] kind = "label" -> file.labels

\* The members of a net are its wires and what is on it.
LEMMA MembersAre ==
  ASSUME NEW file, NEW sheet, NEW c, NEW ref
  PROVE  ref \in Members(file, sheet, c) <=>
           \/ \E w \in c : ref = <<"wire", sheet, w.id>>
           \/ \E t \in file.junctions : ref = <<"junction", sheet, t.id>> /\ OnNet(c, t.at)
           \/ \E kind \in {"pin", "hierarchical_port", "label"} : \E t \in ThingsOf(file, kind) :
                ref = <<kind, sheet, t.id>> /\ OnNet(c, t.at)
<1> DEFINE on(k, things) == {<<k, sheet, t.id>> : t \in {u \in things : OnNet(c, u.at)}}
           wires == {<<"wire", sheet, w.id>> : w \in c}
<1>1. Members(file, sheet, c) =
        wires \cup on("junction", file.junctions) \cup on("label", file.labels)
          \cup on("pin", PinsOf(file)) \cup on("hierarchical_port", PortsOf(file))
  BY DEF Members
<1>2. ASSUME NEW k, NEW things
      PROVE  ref \in on(k, things) <=> \E t \in things : ref = <<k, sheet, t.id>> /\ OnNet(c, t.at)
  OBVIOUS
<1>3. ref \in wires <=> \E w \in c : ref = <<"wire", sheet, w.id>>
  OBVIOUS
<1> HIDE DEF on, wires
<1>4. /\ ThingsOf(file, "pin") = PinsOf(file) /\ ThingsOf(file, "hierarchical_port") = PortsOf(file)
      /\ ThingsOf(file, "label") = file.labels
  BY DEF ThingsOf
<1> QED BY <1>1, <1>2, <1>3, <1>4

NetOf(files, inst, c) ==
  LET file == files[inst.file]
  IN  [ref |-> <<"net", inst.sheet, Anchor(file, c)>>,
       names |-> {l.name : l \in {k \in file.labels : OnNet(c, k.at)}},
       members |-> Members(file, inst.sheet, c)]

\* The nets of a document are those of the components of the files of its instances.
LEMMA NetsAre ==
  ASSUME NEW files, NEW n
  PROVE  n \in Document(files).nets
           <=> \E inst \in Instances(files) : \E c \in Components(files[inst.file]) :
                 n = NetOf(files, inst, c)
<1>1. Document(files).nets = NetsRead(files, Instances(files))
  BY DEF Document, ReadAs
<1>2. \A inst : NetsOf(files[inst.file], inst.sheet)
                = {NetOf(files, inst, c) : c \in Components(files[inst.file])}
  BY DEF NetsOf, NetOf
<1> DEFINE of(inst) == NetsOf(files[inst.file], inst.sheet)
<1>3. Document(files).nets = UNION {of(inst) : inst \in Instances(files)}
  BY <1>1 DEF NetsRead
<1>4. n \in Document(files).nets <=> \E inst \in Instances(files) : n \in of(inst)
  <2> HIDE DEF of
  <2> QED BY <1>3
<1> QED BY <1>2, <1>4

\* A net is named after a wire of it, or after a junction or a label that lies on it.
LEMMA AnchorIs ==
  ASSUME NEW file, IsDrawn(file), NEW c \in Components(file)
  PROVE  LET id == Anchor(file, c)
         IN  /\ id \in Nat /\ c \subseteq file.wires
             /\ \/ \E w \in c : w.id = id
                \/ \E t \in file.junctions \cup file.labels : OnNet(c, t.at) /\ t.id = id
<1> DEFINE on == {u \in file.junctions \cup file.labels : OnNet(c, u.at)}
           ids == {w.id : w \in c} \cup {t.id : t \in on}
<1>1. PICK w \in file.wires : c = ComponentOf(file, w)
  BY DEF Components
<1>2. w \in c /\ c \subseteq file.wires
  BY <1>1, OwnComponent
<1>3. ids \subseteq Nat
  BY <1>2 DEF IsDrawn, IsWire
<1>4. ids # {}
  BY <1>2
<1>5. Anchor(file, c) = Least(ids)
  BY DEF Anchor
<1>6. Least(ids) \in ids
  <2> HIDE DEF ids
  <2>1. PICK n \in ids : \A m \in ids : ~(m < n)
    BY <1>3, <1>4, Smallest
  <2>2. \A m \in ids : n <= m
    BY <1>3, <2>1
  <2> QED BY <2>1, <2>2 DEF Least
<1> QED BY <1>2, <1>3, <1>5, <1>6

\* Files that were read and indexed, and are drawn.
IsReadAndDrawn(files) ==
  /\ IsFiniteSet(Present(files)) /\ Parsable(files) /\ Indexable(Document(files))
  /\ \A f \in Present(files) : IsDrawn(files[f])

\* Every instance has a file that is drawn, and another UUID than the others.
LEMMA InstancesAreDrawn ==
  ASSUME NEW files, IsReadAndDrawn(files), NEW inst \in Instances(files)
  PROVE  /\ inst.file \in Present(files) /\ IsDrawn(files[inst.file])
         /\ \A i \in Instances(files) : i.sheet = inst.sheet => i = inst
<1>1. inst.file \in Present(files)
  BY InstancesAreClosed DEF IsReadAndDrawn
<1>2. Document(files).insts = Instances(files)
  BY DEF Document, ReadAs
<1> QED BY <1>1, <1>2 DEF IsReadAndDrawn, Indexable

\* The net of a reference is one it is a member of.
LEMMA NetForIs ==
  ASSUME NEW files, IsReadAndDrawn(files), NEW ref
  PROVE  LET doc == Document(files)
         IN  \/ NetFor(doc, ref) = NoNet /\ NetsWith(doc, ref) = {}
             \/ \E n \in NetsWith(doc, ref) : NetFor(doc, ref) = n.ref
<1> DEFINE on == NetsWith(Document(files), ref)
<1>1. CASE on = {}
  BY <1>1 DEF NetFor
<1>2. CASE on # {}
  <2>1. ASSUME NEW n \in on PROVE n.ref[3] \in Nat
    <3>1. PICK inst \in Instances(files) : \E c \in Components(files[inst.file]) :
            n = NetOf(files, inst, c)
      BY <2>1, NetsAre DEF NetsWith
    <3>2. PICK c \in Components(files[inst.file]) : n = NetOf(files, inst, c)
      BY <3>1
    <3>3. n.ref[3] = Anchor(files[inst.file], c)
      BY <3>2 DEF NetOf
    <3> QED BY <3>3, InstancesAreDrawn, AnchorIs
  <2> DEFINE anchors == {n.ref[3] : n \in on}
  <2> HIDE DEF on
  <2>2. anchors \subseteq Nat /\ anchors # {}
    BY <1>2, <2>1
  <2>3. PICK k \in anchors : \A m \in anchors : ~(m < k)
    BY <2>2, Smallest
  <2>4. PICK n \in on : n.ref[3] = k
    BY <2>3
  <2>5. ASSUME NEW m \in on PROVE n.ref[3] <= m.ref[3]
    <3>1. m.ref[3] \in anchors
      OBVIOUS
    <3>2. k \in Nat /\ m.ref[3] \in Nat /\ ~(m.ref[3] < k)
      BY <2>2, <2>3, <3>1
    <3> QED BY <2>4, <3>2
  <2> DEFINE least == CHOOSE x \in on : \A m \in on : x.ref[3] <= m.ref[3]
  <2>6. least \in on
    BY <2>4, <2>5
  <2>7. NetFor(Document(files), ref) = least.ref
    BY <1>2 DEF NetFor, on
  <2> QED BY <2>6, <2>7 DEF on
<1> QED BY <1>1, <1>2

\* What is found on the net of a thing is found where the thing is.
LEMMA ThingMeets ==
  ASSUME NEW files, IsReadAndDrawn(files), NEW inst \in Instances(files),
         NEW kind \in {"pin", "hierarchical_port", "label"},
         NEW t \in ThingsOf(files[inst.file], kind)
  PROVE  Meets(files, inst, t.at, NetFor(Document(files), <<kind, inst.sheet, t.id>>))
<1> DEFINE file == files[inst.file]
           ref == <<kind, inst.sheet, t.id>>
           net == NetFor(Document(files), ref)
<1>1. IsDrawn(file) /\ \A i \in Instances(files) : i.sheet = inst.sheet => i = inst
  BY InstancesAreDrawn
<1>2. \A u \in ThingsOf(file, kind) : u.id = t.id => u = t
  BY <1>1 DEF IsDrawn, UuidsAreUnique, ThingsOf
<1>3. CASE net = NoNet /\ NetsWith(Document(files), ref) = {}
  <2>1. ASSUME NEW c \in Components(file), OnNet(c, t.at) PROVE FALSE
    <3>1. ref \in Members(file, inst.sheet, c)
      <4>1. \E k \in {"pin", "hierarchical_port", "label"} : \E u \in ThingsOf(file, k) :
              ref = <<k, inst.sheet, u.id>> /\ OnNet(c, u.at)
        BY <2>1
      <4> HIDE DEF ref
      <4> QED BY <4>1, MembersAre
    <3> DEFINE n == NetOf(files, inst, c)
    <3>2. n.members = Members(file, inst.sheet, c)
      BY DEF NetOf
    <3>3. n \in Document(files).nets
      BY NetsAre
    <3> QED BY <1>3, <3>1, <3>2, <3>3 DEF NetsWith
  <2> HIDE DEF net
  <2>2. {c \in Components(files[inst.file]) : OnNet(c, t.at)} = {}
    BY <2>1
  <2> QED BY <1>3, <2>2 DEF Meets, net
<1>4. CASE \E n \in NetsWith(Document(files), ref) : net = n.ref
  <2>1. PICK n \in NetsWith(Document(files), ref) : net = n.ref
    BY <1>4
  <2>2. PICK i \in Instances(files) : \E c \in Components(files[i.file]) : n = NetOf(files, i, c)
    BY <2>1, NetsAre DEF NetsWith
  <2>3. PICK c \in Components(files[i.file]) : n = NetOf(files, i, c)
    BY <2>2
  <2>4. /\ <<kind, inst.sheet, t.id>> \in Members(files[i.file], i.sheet, c)
        /\ net = <<"net", i.sheet, Anchor(files[i.file], c)>>
    BY <2>1, <2>3 DEF NetOf, NetsWith
  <2>5. inst.sheet = i.sheet /\ \E u \in ThingsOf(files[i.file], kind) : u.id = t.id /\ OnNet(c, u.at)
    <3>1. /\ ref = <<kind, inst.sheet, t.id>> /\ ref[1] = kind /\ ref[2] = inst.sheet /\ ref[3] = t.id
          /\ ref \in Members(files[i.file], i.sheet, c)
      BY <2>4
    <3> HIDE DEF ref
    <3>2. \/ \E w \in c : ref = <<"wire", i.sheet, w.id>>
          \/ \E u \in files[i.file].junctions : ref = <<"junction", i.sheet, u.id>> /\ OnNet(c, u.at)
          \/ \E k \in {"pin", "hierarchical_port", "label"} : \E u \in ThingsOf(files[i.file], k) :
               ref = <<k, i.sheet, u.id>> /\ OnNet(c, u.at)
      BY <3>1, MembersAre
    <3>3. PICK k \in {"pin", "hierarchical_port", "label"} : \E u \in ThingsOf(files[i.file], k) :
            ref = <<k, i.sheet, u.id>> /\ OnNet(c, u.at)
      BY <3>1, <3>2
    <3> QED BY <3>1, <3>3
  <2>6. i = inst
    BY <1>1, <2>5
  <2>7. OnNet(c, t.at)
    BY <1>2, <2>5, <2>6
  <2> HIDE DEF net
  <2> QED BY <2>3, <2>4, <2>6, <2>7 DEF Meets, net
<1> HIDE DEF net
<1> QED BY <1>3, <1>4, NetForIs DEF net

\* The net of a wire goes through its ends.
LEMMA WireMeets ==
  ASSUME NEW files, IsReadAndDrawn(files), NEW inst \in Instances(files),
         NEW w \in files[inst.file].wires, NEW at \in {w.pts[1], w.pts[Len(w.pts)]}
  PROVE  Meets(files, inst, at, NetFor(Document(files), <<"wire", inst.sheet, w.id>>))
<1> DEFINE file == files[inst.file]
           ref == <<"wire", inst.sheet, w.id>>
           net == NetFor(Document(files), ref)
           own == ComponentOf(file, w)
<1>1. IsDrawn(file) /\ \A i \in Instances(files) : i.sheet = inst.sheet => i = inst
  BY InstancesAreDrawn
<1>2. \A v \in file.wires : v.id = w.id => v = w
  BY <1>1 DEF IsDrawn, UuidsAreUnique
<1>3. OnWire(at, w)
  BY <1>1, WireHasEnds DEF IsDrawn
<1>4. w \in own /\ own \in Components(file)
  BY <1>1, OwnComponent
<1>5. NetsWith(Document(files), ref) # {}
  <2>1. <<"wire", inst.sheet, w.id>> \in Members(file, inst.sheet, own)
    <3>1. \E v \in own : ref = <<"wire", inst.sheet, v.id>>
      BY <1>4
    <3> HIDE DEF own, ref
    <3>2. ref \in Members(file, inst.sheet, own)
      BY <3>1, MembersAre
    <3> QED BY <3>2 DEF ref
  <2> DEFINE n == NetOf(files, inst, own)
  <2>2. n.members = Members(file, inst.sheet, own)
    BY DEF NetOf
  <2>3. n \in Document(files).nets
    BY <1>4, NetsAre
  <2> QED BY <2>1, <2>2, <2>3 DEF NetsWith
<1>6. PICK n \in NetsWith(Document(files), ref) : net = n.ref
  BY <1>5, NetForIs
<1>7. PICK i \in Instances(files) : \E c \in Components(files[i.file]) : n = NetOf(files, i, c)
  BY <1>6, NetsAre DEF NetsWith
<1>8. PICK c \in Components(files[i.file]) : n = NetOf(files, i, c)
  BY <1>7
<1>9. /\ <<"wire", inst.sheet, w.id>> \in Members(files[i.file], i.sheet, c)
      /\ net = <<"net", i.sheet, Anchor(files[i.file], c)>>
  BY <1>6, <1>8 DEF NetOf, NetsWith
<1>10. inst.sheet = i.sheet /\ \E v \in c : v.id = w.id
  <2>1. /\ ref = <<"wire", inst.sheet, w.id>> /\ ref[1] = "wire" /\ ref[2] = inst.sheet /\ ref[3] = w.id
        /\ ref \in Members(files[i.file], i.sheet, c)
    BY <1>9
  <2> HIDE DEF ref
  <2>2. \/ \E v \in c : ref = <<"wire", i.sheet, v.id>>
        \/ \E u \in files[i.file].junctions : ref = <<"junction", i.sheet, u.id>> /\ OnNet(c, u.at)
        \/ \E k \in {"pin", "hierarchical_port", "label"} : \E u \in ThingsOf(files[i.file], k) :
             ref = <<k, i.sheet, u.id>> /\ OnNet(c, u.at)
    BY <2>1, MembersAre
  <2>3. PICK v \in c : ref = <<"wire", i.sheet, v.id>>
    BY <2>1, <2>2
  <2> QED BY <2>1, <2>3
<1>11. i = inst
  BY <1>1, <1>10
<1>12. w \in c
  <2>1. c \subseteq file.wires
    BY <1>1, <1>8, <1>11, AnchorIs
  <2> QED BY <1>2, <1>10, <2>1
<1>13. OnNet(c, at)
  BY <1>3, <1>12 DEF OnNet
<1> HIDE DEF net
<1> QED BY <1>8, <1>9, <1>11, <1>13 DEF Meets, net

\* A net goes through what it is named after.
LEMMA AnchorMeets ==
  ASSUME NEW files, IsReadAndDrawn(files), NEW inst \in Instances(files),
         NEW ref \in Refs(Document(files).nets), ref[2] = inst.sheet,
         NEW at, at = CHOOSE p \in AnchorPoints(files[inst.file], ref[3]) : TRUE
  PROVE  Meets(files, inst, at, ref)
<1> DEFINE file == files[inst.file]
           points == AnchorPoints(file, ref[3])
<1>1. IsDrawn(file) /\ \A i \in Instances(files) : i.sheet = inst.sheet => i = inst
  BY InstancesAreDrawn
<1>2. PICK n \in Document(files).nets : n.ref = ref
  BY DEF Refs
<1>3. PICK i \in Instances(files) : \E c \in Components(files[i.file]) : n = NetOf(files, i, c)
  BY NetsAre
<1>4. PICK c \in Components(files[i.file]) : n = NetOf(files, i, c)
  BY <1>3
<1>5. ref = <<"net", i.sheet, Anchor(files[i.file], c)>>
  BY <1>2, <1>4 DEF NetOf
<1>6. i = inst /\ ref[3] = Anchor(file, c) /\ c \in Components(file)
  BY <1>1, <1>4, <1>5
<1>7. /\ c \subseteq file.wires
      /\ \/ \E w \in c : w.id = ref[3]
         \/ \E t \in file.junctions \cup file.labels : OnNet(c, t.at) /\ t.id = ref[3]
  BY <1>1, <1>6, AnchorIs
<1>8. \A u, v \in file.wires \cup file.junctions \cup file.labels : u.id = v.id => u = v
  BY <1>1 DEF IsDrawn, UuidsAreUnique
<1>9. points = {w.pts[1] : w \in {v \in file.wires : v.id = ref[3]}}
                 \cup {t.at : t \in {u \in file.junctions \cup file.labels : u.id = ref[3]}}
  BY DEF AnchorPoints, WiresOf
<1> HIDE DEF points, file
<1>10. points # {}
  BY <1>7, <1>9
<1>11. at \in points
  BY <1>10 DEF points, file
<1>12. \A w \in file.wires, t \in file.junctions \cup file.labels : w.id # t.id
  <2> SUFFICES ASSUME NEW w \in file.wires, NEW t \in file.junctions \cup file.labels, w.id = t.id
               PROVE  FALSE
    OBVIOUS
  <2>1. w = t
    BY <1>8
  <2>2. DOMAIN w = {"id", "pts"} /\ "at" \in DOMAIN t
    BY <1>1 DEF IsDrawn, IsWire, file
  <2> QED BY <2>1, <2>2
<1>13. ASSUME NEW w \in file.wires, w.id = ref[3] PROVE OnNet(c, w.pts[1])
  <2>1. PICK v \in c : v.id = ref[3]
    BY <1>7, <1>12, <1>13
  <2>2. v = w
    BY <1>7, <1>8, <1>13, <2>1
  <2>3. OnWire(w.pts[1], w)
    BY <1>1, WireHasEnds DEF IsDrawn, file
  <2> QED BY <2>2, <2>3 DEF OnNet
<1>14. ASSUME NEW t \in file.junctions \cup file.labels, t.id = ref[3] PROVE OnNet(c, t.at)
  <2>1. PICK u \in file.junctions \cup file.labels : OnNet(c, u.at) /\ u.id = ref[3]
    BY <1>7, <1>12, <1>14
  <2>2. u = t
    BY <1>8, <1>14, <2>1
  <2> QED BY <2>1, <2>2
<1>15. \/ \E w \in file.wires : w.id = ref[3] /\ at = w.pts[1]
       \/ \E t \in file.junctions \cup file.labels : t.id = ref[3] /\ at = t.at
  BY <1>9, <1>11
<1>16. OnNet(c, at)
  BY <1>13, <1>14, <1>15
<1> QED BY <1>5, <1>6, <1>16 DEF Meets, file

\* A label finds the net of its target where it is put, if it is put on the sheet of it.
LEMMA PlaceMeets ==
  ASSUME NEW files, IsReadAndDrawn(files), NEW inst \in Instances(files), NEW c \in Edits, IsLabel(c),
         inst.sheet = c.target[2], PlacesOf(Document(files), files, c.target) # {},
         PlaceOf(Document(files), files, c).file = inst.file
  PROVE  LET p == PlaceOf(Document(files), files, c) IN Meets(files, inst, p.at, p.net)
<1> DEFINE doc == Document(files)
           ref == c.target
           p == PlaceOf(doc, files, c)
<1>1. doc.insts = Instances(files)
  BY DEF Document, ReadAs
<1>2. \A i \in doc.insts : i.sheet = ref[2] => i = inst
  BY <1>1, InstancesAreDrawn
<1>3. p \in PlacesOf(doc, files, ref)
  BY DEF PlaceOf
<1>4. p.file = inst.file
  OBVIOUS
<1> HIDE DEF p, doc
<1>5. CASE ref[1] \in {"pin", "hierarchical_port"}
  <2>1. p \in PointPlaces(doc, files, ref)
    BY <1>3, <1>5 DEF PlacesOf
  <2>2. PICK i \in OnSheet(doc, ref[2]) : \E t \in PointsOf(files[i.file], ref) :
          p = Place(i, t.at, NetFor(doc, ref))
    BY <2>1 DEF PointPlaces
  <2>3. i = inst
    BY <1>2, <2>2 DEF OnSheet
  <2>4. PICK t \in PointsOf(files[inst.file], ref) : p = Place(inst, t.at, NetFor(doc, ref))
    BY <2>2, <2>3
  <2>5. t \in ThingsOf(files[inst.file], ref[1]) /\ t.id = ref[3]
    BY <1>5, <2>4 DEF PointsOf, ThingsOf
  <2>6. ref = <<ref[1], inst.sheet, t.id>>
    BY <1>5, <2>5, EditsAssumption DEF IsLabel
  <2>7. p.at = t.at /\ p.net = NetFor(doc, ref)
    BY <2>4 DEF Place
  <2>8. Meets(files, inst, t.at, NetFor(doc, <<ref[1], inst.sheet, t.id>>))
    BY <1>5, <2>5, ThingMeets DEF doc
  <2> HIDE DEF ref
  <2> QED BY <2>6, <2>7, <2>8 DEF p, doc
<1>6. CASE ref[1] = "wire"
  <2>1. p \in WirePlaces(doc, files, ref)
    BY <1>3, <1>6 DEF PlacesOf
  <2>2. PICK i \in doc.insts : \E w \in WiresOf(files[i.file], ref[3]) :
          p = Place(i, w.pts[IF ref[4] = "start" THEN 1 ELSE Len(w.pts)],
                    NetFor(doc, <<"wire", ref[2], ref[3]>>))
    BY <2>1 DEF WirePlaces
  <2>3. PICK w \in WiresOf(files[i.file], ref[3]) :
          p = Place(i, w.pts[IF ref[4] = "start" THEN 1 ELSE Len(w.pts)],
                    NetFor(doc, <<"wire", ref[2], ref[3]>>))
    BY <2>2
  <2>4. i.file = inst.file /\ p.at \in {w.pts[1], w.pts[Len(w.pts)]}
        /\ p.net = NetFor(doc, <<"wire", ref[2], ref[3]>>)
    BY <1>4, <2>3 DEF Place
  <2>5. w \in files[inst.file].wires /\ w.id = ref[3]
    BY <2>3, <2>4 DEF WiresOf
  <2>6. Meets(files, inst, p.at, NetFor(doc, <<"wire", inst.sheet, w.id>>))
    BY <2>4, <2>5, WireMeets DEF doc
  <2> QED BY <2>4, <2>5, <2>6 DEF p, doc
<1>7. CASE ref[1] \notin {"pin", "hierarchical_port", "wire"}
  <2>1. ref[1] = "net" /\ ref \in Refs(doc.nets) /\ p \in NetPlaces(doc, files, ref)
    BY <1>3, <1>7 DEF PlacesOf
  <2>2. PICK i \in OnSheet(doc, ref[2]) :
          p = Place(i, CHOOSE q \in AnchorPoints(files[i.file], ref[3]) : TRUE, ref)
    BY <2>1 DEF NetPlaces
  <2>3. i = inst
    BY <1>2, <2>2 DEF OnSheet
  <2>4. p.at = (CHOOSE q \in AnchorPoints(files[inst.file], ref[3]) : TRUE) /\ p.net = ref
    BY <2>2, <2>3 DEF Place
  <2>5. Meets(files, inst, p.at, ref)
    BY <2>1, <2>4, AnchorMeets DEF doc
  <2> QED BY <2>4, <2>5 DEF p, doc
<1> QED BY <1>5, <1>6, <1>7

\* Labels of a document that find the same net where they are, when the wires and the
\* junctions were those of another one: they are on one net now, or both on none.
LEMMA MeetTogether ==
  ASSUME NEW files, IsReadAndDrawn(files), NEW after, Indexable(Document(after)),
         Instances(after) = Instances(files),
         \A f \in Present(files) : Components(after[f]) = Components(files[f]),
         NEW i \in Instances(files), NEW k \in after[i.file].labels,
         NEW j \in Instances(files), NEW l \in after[j.file].labels,
         NEW net, Meets(files, i, k.at, net), Meets(files, j, l.at, net)
  PROVE  LET nets(inst, label) == NetsWith(Document(after), LabelRead(inst, label).ref)
         IN  nets(i, k) \cap nets(j, l) # {} \/ (nets(i, k) = {} /\ nets(j, l) = {})
<1> DEFINE nets(inst, label) == NetsWith(Document(after), LabelRead(inst, label).ref)
<1>1. \A inst \in Instances(files) :
        /\ Components(after[inst.file]) = Components(files[inst.file])
        /\ inst.file \in Present(files)
  BY InstancesAreDrawn
<1>2. ASSUME NEW inst \in Instances(files), NEW label \in after[inst.file].labels,
             NEW c \in Components(files[inst.file]), OnNet(c, label.at)
      PROVE  NetOf(after, inst, c) \in nets(inst, label)
  <2> DEFINE ref == <<"label", inst.sheet, label.id>>
             n == NetOf(after, inst, c)
  <2>1. LabelRead(inst, label).ref = ref
    BY DEF LabelRead
  <2>2. label \in ThingsOf(after[inst.file], "label")
    BY DEF ThingsOf
  <2>3. \E kind \in {"pin", "hierarchical_port", "label"} : \E t \in ThingsOf(after[inst.file], kind) :
          ref = <<kind, inst.sheet, t.id>> /\ OnNet(c, t.at)
    BY <1>2, <2>2
  <2>4. n.members = Members(after[inst.file], inst.sheet, c)
    BY DEF NetOf
  <2>5. n \in Document(after).nets
    BY <1>1, NetsAre
  <2> HIDE DEF ref, n
  <2>6. ref \in n.members
    BY <2>3, <2>4, MembersAre
  <2> QED BY <2>1, <2>5, <2>6 DEF NetsWith, n
<1>3. ASSUME NEW inst \in Instances(files), NEW label \in after[inst.file].labels,
             \A c \in Components(files[inst.file]) : ~OnNet(c, label.at), NEW n \in nets(inst, label)
      PROVE  FALSE
  <2> DEFINE ref == <<"label", inst.sheet, label.id>>
  <2>1. LabelRead(inst, label).ref = ref /\ ref[1] = "label" /\ ref[2] = inst.sheet /\ ref[3] = label.id
    BY DEF LabelRead
  <2> HIDE DEF ref
  <2>2. n \in Document(after).nets /\ ref \in n.members
    BY <1>3, <2>1 DEF NetsWith
  <2>3. PICK m \in Instances(after) : \E c \in Components(after[m.file]) : n = NetOf(after, m, c)
    BY <2>2, NetsAre
  <2>4. PICK c \in Components(after[m.file]) : n = NetOf(after, m, c)
    BY <2>3
  <2>5. ref \in Members(after[m.file], m.sheet, c)
    BY <2>2, <2>4 DEF NetOf
  <2>6. \/ \E w \in c : ref = <<"wire", m.sheet, w.id>>
        \/ \E t \in after[m.file].junctions : ref = <<"junction", m.sheet, t.id>> /\ OnNet(c, t.at)
        \/ \E kind \in {"pin", "hierarchical_port", "label"} : \E t \in ThingsOf(after[m.file], kind) :
             ref = <<kind, m.sheet, t.id>> /\ OnNet(c, t.at)
    BY <2>5, MembersAre
  <2>7. PICK kind \in {"pin", "hierarchical_port", "label"} : \E t \in ThingsOf(after[m.file], kind) :
          ref = <<kind, m.sheet, t.id>> /\ OnNet(c, t.at)
    BY <2>1, <2>6
  <2>8. PICK t \in ThingsOf(after[m.file], kind) : ref = <<kind, m.sheet, t.id>> /\ OnNet(c, t.at)
    BY <2>7
  <2>9. kind = "label" /\ m.sheet = inst.sheet /\ t.id = label.id
    BY <2>1, <2>8
  <2>10. m = inst
    BY <2>9, InstancesAreDrawn
  <2>11. t \in after[inst.file].labels
    BY <2>8, <2>9, <2>10 DEF ThingsOf
  <2>12. LabelRead(inst, t) \in Document(after).labels /\ LabelRead(inst, label) \in Document(after).labels
    BY <1>3, <2>11, LabelIs
  <2>13. LabelRead(inst, t).ref = LabelRead(inst, label).ref
    BY <2>9 DEF LabelRead
  <2>14. LabelRead(inst, t) = LabelRead(inst, label)
    BY <2>12, <2>13 DEF Indexable
  <2>15. LabelRead(inst, t).at = t.at /\ LabelRead(inst, label).at = label.at
    BY DEF LabelRead
  <2>16. t.at = label.at
    BY <2>14, <2>15
  <2> QED BY <1>1, <1>3, <2>4, <2>8, <2>10, <2>16
<1> HIDE DEF nets
<1>4. CASE /\ \A c \in Components(files[i.file]) : ~OnNet(c, k.at)
           /\ \A c \in Components(files[j.file]) : ~OnNet(c, l.at)
  <2>1. nets(i, k) = {} /\ nets(j, l) = {}
    BY <1>3, <1>4
  <2> QED BY <2>1 DEF nets
<1>5. CASE ~ /\ \A c \in Components(files[i.file]) : ~OnNet(c, k.at)
             /\ \A c \in Components(files[j.file]) : ~OnNet(c, l.at)
  <2>1. \A inst \in Instances(files) : \A c : NoNet # <<"net", inst.sheet, Anchor(files[inst.file], c)>>
    BY DEF NoNet
  <2>2. net # NoNet
    BY <1>5, <2>1 DEF Meets
  <2>3. PICK c \in Components(files[i.file]) :
          OnNet(c, k.at) /\ net = <<"net", i.sheet, Anchor(files[i.file], c)>>
    BY <2>2 DEF Meets
  <2>4. PICK d \in Components(files[j.file]) :
          OnNet(d, l.at) /\ net = <<"net", j.sheet, Anchor(files[j.file], d)>>
    BY <2>2 DEF Meets
  <2>5. i.sheet = j.sheet /\ Anchor(files[i.file], c) = Anchor(files[j.file], d)
    BY <2>3, <2>4
  <2>6. i = j
    BY <2>5, InstancesAreDrawn
  <2>7. c = d
    BY <1>1, <2>5, <2>6 DEF IsReadAndDrawn, Parsable
  <2>8. NetOf(after, i, c) \in nets(i, k) /\ NetOf(after, i, c) \in nets(j, l)
    BY <1>2, <2>3, <2>4, <2>6, <2>7
  <2> QED BY <2>8 DEF nets
<1> QED BY <1>4, <1>5

\* A new label is where the command for it puts it, on the sheet the command names.
LEMMA LabelsArePlaced ==
  ASSUME NEW j, NEW after, Judged(j, after), ~j.module,
         NEW l \in Document(after).labels \ Document(j.before).labels
  PROVE  LET doc == Document(j.before)
             b == j.batch
         IN  \E inst \in Instances(j.before) : \E k \in after[inst.file].labels : \E i \in DOMAIN b :
               /\ l = LabelRead(inst, k) /\ IsLabel(b[i]) /\ SameName(l, b[i])
               /\ inst.sheet = b[i].target[2]
               /\ PlaceOf(doc, j.before, b[i]).file = inst.file
               /\ k.at = PlaceOf(doc, j.before, b[i]).at
<1> DEFINE before == j.before
           doc == Document(before)
           b == j.batch
           edited == FilesOf(doc, before, b)
           labels == {i \in DOMAIN b : IsLabel(b[i])}
           added(f) == NewLabels(doc, before, b, j.uuid, f)
<1>1. /\ \A f \in Present(before) : IsFile(before[f])
      /\ \A f \in Present(before) :
           after[f] = IF f \in edited THEN Edited(doc, before, b, j.uuid, f) ELSE before[f]
      /\ Instances(after) = Instances(before) /\ IsFiniteSet(Present(before))
  BY EditsAreWritten
<1>2. Parsable(before) /\ FreshUuids(doc, b, j.uuid)
  BY DEF Judged, Planned, PlannedEdits
<1>3. PICK inst \in Instances(before) : \E k \in after[inst.file].labels : l = LabelRead(inst, k)
  BY <1>1, LabelHas
<1>4. PICK k \in after[inst.file].labels : l = LabelRead(inst, k)
  BY <1>3
<1>5. inst.file \in Present(before)
  BY <1>1, <1>2, InstancesAreClosed
<1>6. k \notin before[inst.file].labels
  BY <1>4, LabelIs
<1>7. k \in added(inst.file)
  <2>1. inst.file \in edited
    BY <1>1, <1>5, <1>6
  <2>2. after[inst.file] = Edited(doc, before, b, j.uuid, inst.file) /\ IsFile(before[inst.file])
    BY <1>1, <1>5, <2>1
  <2>3. after[inst.file].labels = before[inst.file].labels \cup added(inst.file)
    BY <2>2, EditedIs
  <2> HIDE DEF added
  <2> QED BY <1>6, <2>3
<1>8. PICK i \in labels : /\ PlaceOf(doc, before, b[i]).file = inst.file
                          /\ k.id = j.uuid[i] /\ k.at = PlaceOf(doc, before, b[i]).at
  BY <1>7 DEF NewLabels
<1>9. PICK m \in labels : l.ref = <<"label", b[m].target[2], j.uuid[m]>> /\ SameName(l, b[m])
  BY LabelsAreNamed
<1>10. l.ref = <<"label", inst.sheet, k.id>>
  BY <1>4 DEF LabelRead
<1>11. m = i /\ inst.sheet = b[i].target[2]
  <2>1. inst.sheet = b[m].target[2] /\ j.uuid[m] = j.uuid[i]
    BY <1>8, <1>9, <1>10
  <2>2. m = i
    BY <1>2, <2>1 DEF FreshUuids
  <2> QED BY <2>1, <2>2
<1> HIDE DEF doc, b
<1> QED BY <1>4, <1>8, <1>9, <1>11 DEF doc, b

\* The labels of one name and scope find the same net where they are put, whether they were
\* there before or come with the batch.
LEMMA LabelsTogetherAfter ==
  ASSUME NEW j, NEW after, Judged(j, after), ~j.module,
         \A f \in Present(j.before) : IsDrawn(j.before[f])
  PROVE  LabelsTogether(Document(j.before), Document(after))
<1> DEFINE before == j.before
           doc == Document(before)
           now == Document(after)
           b == j.batch
           edited == FilesOf(doc, before, b)
           place(i) == PlaceOf(doc, before, b[i])
<1>1. /\ \A f \in Present(before) : IsFile(before[f])
      /\ \A f \in Present(before) :
           after[f] = IF f \in edited THEN Edited(doc, before, b, j.uuid, f) ELSE before[f]
      /\ Instances(after) = Instances(before) /\ IsFiniteSet(Present(before))
  BY EditsAreWritten
<1>2. /\ Parsable(before) /\ Indexable(doc) /\ Indexable(now)
      /\ b \in Batches /\ Plannable(doc, before, b)
  BY DEF Judged, Planned, PlannedEdits, Accepted
<1>3. IsReadAndDrawn(before)
  BY <1>1, <1>2 DEF IsReadAndDrawn
<1>4. ASSUME NEW f \in Present(before) PROVE Components(after[f]) = Components(before[f])
  <2>1. after[f].wires = before[f].wires /\ after[f].junctions = before[f].junctions
    <3>1. CASE f \in edited
      BY <1>1, <3>1, EditedIs
    <3>2. CASE f \notin edited
      BY <1>1, <3>2
    <3> QED BY <3>1, <3>2
  <2> QED BY <2>1, SameComponents
<1> HIDE DEF edited
<1>5. ASSUME NEW i \in DOMAIN b, IsLabel(b[i])
      PROVE  /\ PlacesOf(doc, before, b[i].target) # {}
             /\ \A k \in doc.labels : SameName(k, b[i]) => NetFor(doc, k.ref) = place(i).net
             /\ \A k \in 1 .. i - 1 :
                  IsLabel(b[k]) /\ SameName(b[k], b[i]) => place(k).net = place(i).net
  BY <1>2, <1>5 DEF Plannable, Bindable
<1>6. ASSUME NEW l \in now.labels \ doc.labels
      PROVE  \E inst \in Instances(before) : \E k \in after[inst.file].labels : \E i \in DOMAIN b :
               /\ l = LabelRead(inst, k) /\ IsLabel(b[i]) /\ SameName(l, b[i])
               /\ Meets(before, inst, k.at, place(i).net)
  <2>1. PICK inst \in Instances(before) : \E k \in after[inst.file].labels : \E i \in DOMAIN b :
               /\ l = LabelRead(inst, k) /\ IsLabel(b[i]) /\ SameName(l, b[i])
               /\ inst.sheet = b[i].target[2] /\ place(i).file = inst.file /\ k.at = place(i).at
    BY <1>6, LabelsArePlaced
  <2>2. PICK k \in after[inst.file].labels, i \in DOMAIN b :
               /\ l = LabelRead(inst, k) /\ IsLabel(b[i]) /\ SameName(l, b[i])
               /\ inst.sheet = b[i].target[2] /\ place(i).file = inst.file /\ k.at = place(i).at
    BY <2>1
  <2>3. b[i] \in Edits
    BY <1>2, BatchIs
  <2>4. PlacesOf(doc, before, b[i].target) # {}
    BY <1>5, <2>2
  <2>5. Meets(before, inst, place(i).at, place(i).net)
    BY <1>3, <2>2, <2>3, <2>4, PlaceMeets
  <2> QED BY <2>2, <2>5
<1>7. ASSUME NEW l \in doc.labels, l \in now.labels
      PROVE  \E inst \in Instances(before) : \E k \in after[inst.file].labels :
               l = LabelRead(inst, k) /\ Meets(before, inst, k.at, NetFor(doc, l.ref))
  <2>1. PICK inst \in Instances(before) : \E k \in before[inst.file].labels : l = LabelRead(inst, k)
    BY LabelHas
  <2>2. PICK k \in before[inst.file].labels : l = LabelRead(inst, k)
    BY <2>1
  <2>3. k \in ThingsOf(before[inst.file], "label") /\ l.ref = <<"label", inst.sheet, k.id>>
    BY <2>2 DEF ThingsOf, LabelRead
  <2>4. Meets(before, inst, k.at, NetFor(doc, l.ref))
    BY <1>3, <2>3, ThingMeets
  <2>5. inst.file \in Present(before)
    BY <1>3, InstancesAreDrawn
  <2>6. k \in after[inst.file].labels
    <3>1. CASE inst.file \in edited
      BY <1>1, <2>2, <2>5, <3>1, EditedIs
    <3>2. CASE inst.file \notin edited
      BY <1>1, <2>2, <2>5, <3>2
    <3> QED BY <3>1, <3>2
  <2> QED BY <2>2, <2>4, <2>6
<1>8. \E n \in Nat : DOMAIN b = 1 .. n
  BY <1>2, BatchIs
<1> HIDE DEF doc, now, b, place
<1>9. ASSUME NEW i \in DOMAIN b, IsLabel(b[i]), NEW k \in DOMAIN b, IsLabel(b[k]),
             SameName(b[k], b[i])
      PROVE  place(k).net = place(i).net
  <2>1. PICK n \in Nat : DOMAIN b = 1 .. n
    BY <1>8
  <2>2. SameName(b[i], b[k])
    BY <1>9 DEF SameName
  <2>3. k = i \/ k \in 1 .. i - 1 \/ i \in 1 .. k - 1
    BY <2>1
  <2> QED BY <1>5, <1>9, <2>2, <2>3
<1>10. ASSUME NEW l \in now.labels \ doc.labels, NEW k \in now.labels, SameName(l, k)
       PROVE  \/ NetsWith(now, l.ref) \cap NetsWith(now, k.ref) # {}
              \/ NetsWith(now, l.ref) = {} /\ NetsWith(now, k.ref) = {}
  <2>1. PICK inst \in Instances(before) : \E t \in after[inst.file].labels : \E i \in DOMAIN b :
               /\ l = LabelRead(inst, t) /\ IsLabel(b[i]) /\ SameName(l, b[i])
               /\ Meets(before, inst, t.at, place(i).net)
    BY <1>6
  <2>2. PICK t \in after[inst.file].labels, i \in DOMAIN b :
               /\ l = LabelRead(inst, t) /\ IsLabel(b[i]) /\ SameName(l, b[i])
               /\ Meets(before, inst, t.at, place(i).net)
    BY <2>1
  <2>3. PICK other \in Instances(before) : \E u \in after[other.file].labels :
               k = LabelRead(other, u) /\ Meets(before, other, u.at, place(i).net)
    <3>1. SameName(k, b[i])
      BY <1>10, <2>2 DEF SameName
    <3>2. CASE k \in doc.labels
      <4>1. NetFor(doc, k.ref) = place(i).net
        BY <1>5, <2>2, <3>1, <3>2
      <4> QED BY <1>7, <3>2, <4>1
    <3>3. CASE k \notin doc.labels
      <4>1. PICK other \in Instances(before) : \E u \in after[other.file].labels : \E m \in DOMAIN b :
               /\ k = LabelRead(other, u) /\ IsLabel(b[m]) /\ SameName(k, b[m])
               /\ Meets(before, other, u.at, place(m).net)
        BY <1>6, <3>3
      <4>2. PICK u \in after[other.file].labels, m \in DOMAIN b :
               /\ k = LabelRead(other, u) /\ IsLabel(b[m]) /\ SameName(k, b[m])
               /\ Meets(before, other, u.at, place(m).net)
        BY <4>1
      <4>3. SameName(b[m], b[i])
        BY <3>1, <4>2 DEF SameName
      <4>4. place(m).net = place(i).net
        BY <1>9, <2>2, <4>2, <4>3
      <4> QED BY <4>2, <4>4
    <3> QED BY <3>2, <3>3
  <2>4. PICK u \in after[other.file].labels :
               k = LabelRead(other, u) /\ Meets(before, other, u.at, place(i).net)
    BY <2>3
  <2>5. Indexable(Document(after)) /\ now = Document(after)
    BY <1>2 DEF now
  <2> HIDE DEF before
  <2>6. \/ NetsWith(Document(after), LabelRead(inst, t).ref)
             \cap NetsWith(Document(after), LabelRead(other, u).ref) # {}
        \/ /\ NetsWith(Document(after), LabelRead(inst, t).ref) = {}
           /\ NetsWith(Document(after), LabelRead(other, u).ref) = {}
    BY <1>1, <1>3, <1>4, <2>2, <2>4, <2>5, MeetTogether
  <2> QED BY <2>2, <2>4, <2>5, <2>6
<1> QED BY <1>10 DEF LabelsTogether, now, doc

\* No accepted batch leaves labels of one name and scope on two nets when it adds one of
\* them, if the files it found are drawn: their wires are wires, and no two objects of a file
\* have one UUID.
THEOREM LabelsStayTogetherAlways ==
  Spec => []((\A f \in Present(job.before) : IsDrawn(job.before[f])) => LabelsStayTogether)
<1>1. IInv => ((\A f \in Present(job.before) : IsDrawn(job.before[f])) => LabelsStayTogether)
  BY AcceptedWasJudged, LabelsTogetherAfter DEF LabelsStayTogether, Read
<1> QED BY <1>1, InitInv, NextInv, PTL DEF Spec
=============================================================================

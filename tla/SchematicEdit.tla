----------------------------- MODULE SchematicEdit -----------------------------
(* One call of CstSchematicAdapter.apply after the other on one working copy    *)
(* (src/pcbflow/schematic/adapter.py): a batch of property, footprint and label  *)
(* edits, or one module instantiated as a new sheet.  The edits are planned      *)
(* against the document read first, each file is replaced as a whole, any write  *)
(* may fail, the project is read again, every change must be claimed by exactly  *)
(* one command, and whatever is refused after the first write is rolled back.    *)
(*                                                                               *)
(* UUIDs the code derives by hashing are chosen from sets of unused numbers, so  *)
(* a new label may come before or after every UUID on its net.                   *)
EXTENDS SchematicNets

CONSTANTS
  Projects,      \* the projects the working copy may hold at first
  Edits,         \* the edit commands a client may put into a batch
  Modules,       \* the module commands it may send alone
  MaxBatch,      \* bound: commands of a batch
  LabelUuids,    \* the UUIDs added labels may get
  ModuleUuids,   \* the numbers from which the UUIDs of a module are counted
  MaxCommands,   \* bound: commands of all calls
  MaxFaults      \* bound: writes that fail

ASSUME ProjectsAssumption ==
  \A p \in Projects :
    /\ p = [f \in DOMAIN p |-> p[f]] /\ IsFiniteSet(DOMAIN p)
    /\ \A f \in DOMAIN p : p[f] = Absent \/ IsFile(p[f])
ASSUME NamesAssumption == "Reference" \in PropertyNames
ASSUME EditsAssumption ==
  \A c \in Edits : \/ /\ c.type = "add_label"
                      /\ c.target[1] \in {"pin", "hierarchical_port"} =>
                           c.target = <<c.target[1], c.target[2], c.target[3]>>
                   \/ c.type = "set_property" /\ c.name \in PropertyNames
                   \/ c.type = "assign_footprint" /\ "Footprint" \in PropertyNames
ASSUME BoundsAssumption == MaxBatch \in Nat /\ MaxCommands \in Nat /\ MaxFaults \in Nat

VARIABLES
  disk,      \* the contents of the files
  phase,     \* idle, writing, or restoring
  job,       \* the call in progress, or the last one
  verdict,   \* how the last call ended: none, accepted, or failed
  used,      \* the commands of all calls
  faults,
  lost       \* a write of the rollback failed

vars == <<disk, phase, job, verdict, used, faults, lost>>

Read == Document(disk)

\* A call begins by reading the project.  A copy whose rollback failed is thrown away by
\* the caller.
Callable == phase = "idle" /\ ~lost /\ used < MaxCommands /\ Parsable(disk)

\* What is known of a call, and the step that begins its writing.
Begins(call) ==
  /\ job' = call
  /\ phase' = "writing" /\ used' = used + Len(call.batch) /\ verdict' = "none"
  /\ UNCHANGED <<disk, faults, lost>>

-----------------------------------------------------------------------------
(* Planning a batch of edits (_apply_controlled_operations before any write). *)

IsLabel(c) == c.type = "add_label"

NameOf(c) == IF c.type = "assign_footprint" THEN "Footprint" ELSE c.name

\* Footprint, the UUID and the names that start with ki_ are refused before the list of
\* the names a client may write is looked at.
Writable(c) == c.type = "set_property" => c.name \in {"Reference", "Value", "User"}

Resolves(doc, c) == c.subject \in Refs(doc.symbols)

InstanceOf(doc, ref) == CHOOSE inst \in doc.insts : inst.sheet = ref[2]

\* The node a command edits: one node of one file, whichever instance names it.
NodeOf(doc, c) == <<InstanceOf(doc, c.subject).file, c.subject[3], NameOf(c)>>

Values(doc, c) == At(doc.symbols, c.subject).props[NameOf(c)]

Expected(doc, c) ==
  c.type = "set_property" /\ c.expected # "" => Values(doc, c) = <<c.expected>>

\* Two replacements of one node overlap; two insertions of a missing one do not.
Overlap(doc, b, i, k) ==
  /\ i # k /\ ~IsLabel(b[i]) /\ ~IsLabel(b[k])
  /\ NodeOf(doc, b[i]) = NodeOf(doc, b[k])
  /\ Values(doc, b[i]) # <<>>

\* The references the symbols carry after the first i - 1 commands.
ReferenceOf(doc, b, i, symbol) ==
  LET writes == {k \in 1 .. i - 1 : /\ b[k].type = "set_property"
                                    /\ b[k].name = "Reference" /\ b[k].subject = symbol}
  IN  IF writes = {} THEN At(doc.symbols, symbol).props["Reference"]
      ELSE <<b[CHOOSE k \in writes : \A j \in writes : j <= k].value>>

\* A mutant of ReferenceFree: the references are those of the document as it was read.
ReferenceFreeBefore(doc, b, i) ==
  \A s \in Refs(doc.symbols) \ {b[i].subject} :
    At(doc.symbols, s).props["Reference"] # <<b[i].value>>

ReferenceFree(doc, b, i) ==
  \A s \in Refs(doc.symbols) \ {b[i].subject} :
    ReferenceOf(doc, b, i, s) # <<b[i].value>>

\* Where a label goes: the file, the position, and the net that is there.
Place(inst, at, net) == [file |-> inst.file, at |-> at, net |-> net]

OnSheet(doc, uuid) == {inst \in doc.insts : inst.sheet = uuid}

\* The pins or the ports with the UUID of a reference in one file.
PointsOf(file, ref) ==
  {t \in IF ref[1] = "pin" THEN PinsOf(file) ELSE PortsOf(file) : t.id = ref[3]}

PointPlaces(doc, files, ref) ==
  UNION {{Place(inst, t.at, NetFor(doc, ref)) : t \in PointsOf(files[inst.file], ref)} :
           inst \in OnSheet(doc, ref[2])}

WiresOf(file, uuid) == {w \in file.wires : w.id = uuid}

\* A wire is looked for in every file by its UUID alone; the net is the one of the reference.
WirePlaces(doc, files, ref) ==
  UNION {{Place(inst, w.pts[IF ref[4] = "start" THEN 1 ELSE Len(w.pts)],
                NetFor(doc, <<"wire", ref[2], ref[3]>>)) : w \in WiresOf(files[inst.file], ref[3])} :
           inst \in doc.insts}

\* A net is found where what gives it its reference is.
AnchorPoints(file, uuid) ==
  {w.pts[1] : w \in WiresOf(file, uuid)}
    \cup {t.at : t \in {u \in file.junctions \cup file.labels : u.id = uuid}}

NetPlaces(doc, files, ref) ==
  {Place(inst, CHOOSE p \in AnchorPoints(files[inst.file], ref[3]) : TRUE, ref) :
     inst \in OnSheet(doc, ref[2])}

PlacesOf(doc, files, ref) ==
  CASE ref[1] \in {"pin", "hierarchical_port"} -> PointPlaces(doc, files, ref)
    [] ref[1] = "wire"                         -> WirePlaces(doc, files, ref)
    [] ref[1] = "net" /\ ref \in Refs(doc.nets) -> NetPlaces(doc, files, ref)
    [] OTHER                                   -> {}

PlaceOf(doc, files, c) == CHOOSE p \in PlacesOf(doc, files, c.target) : TRUE

SameName(l, c) == l.name = c.name /\ l.scope = c.scope

\* A mutant of Bindable: the labels of the batch are not held against each other.
BindableBefore(doc, files, b, i) ==
  /\ PlacesOf(doc, files, b[i].target) # {}
  /\ LET net == PlaceOf(doc, files, b[i]).net
     IN  \A l \in doc.labels : SameName(l, b[i]) => NetFor(doc, l.ref) = net

\* _check_label_binding, and the same test against the earlier labels of the batch.
Bindable(doc, files, b, i) ==
  /\ PlacesOf(doc, files, b[i].target) # {}
  /\ LET net == PlaceOf(doc, files, b[i]).net
     IN  /\ \A l \in doc.labels : SameName(l, b[i]) => NetFor(doc, l.ref) = net
         /\ \A k \in 1 .. i - 1 : IsLabel(b[k]) /\ SameName(b[k], b[i])
                                    => PlaceOf(doc, files, b[k]).net = net

Plannable(doc, files, b) ==
  \A i \in DOMAIN b :
    IF IsLabel(b[i]) THEN Bindable(doc, files, b, i)
    ELSE /\ Writable(b[i])
         /\ Resolves(doc, b[i])
         /\ Expected(doc, b[i])
         /\ NameOf(b[i]) = "Reference" => ReferenceFree(doc, b, i)
         /\ \A k \in 1 .. i - 1 : ~Overlap(doc, b, i, k)

(* The edited files. *)

Written(old, values) ==
  IF values = <<>> THEN old ELSE IF old = <<>> THEN values ELSE <<values[1]>>

\* The commands that edit a node, and what they write, in their order.
EditsOf(doc, b, node) == {i \in DOMAIN b : ~IsLabel(b[i]) /\ NodeOf(doc, b[i]) = node}

ValuesFor(doc, b, node) ==
  LET edits == EditsOf(doc, b, node)
      kth(k) == CHOOSE i \in edits : Cardinality({j \in edits : j <= i}) = k
  IN  [k \in 1 .. Cardinality(edits) |-> b[kth(k)].value]

\* The labels a batch adds to file f; uuid[i] is the UUID of the label of command i.
NewLabels(doc, files, b, uuid, f) ==
  {[id |-> uuid[i], name |-> b[i].name, scope |-> b[i].scope,
    at |-> PlaceOf(doc, files, b[i]).at] :
     i \in {k \in DOMAIN b : IsLabel(b[k]) /\ PlaceOf(doc, files, b[k]).file = f}}

EditedSymbol(doc, b, f, s) ==
  [s EXCEPT !.props = [n \in PropertyNames |->
                         Written(s.props[n], ValuesFor(doc, b, <<f, s.id, n>>))]]

Edited(doc, files, b, uuid, f) ==
  [files[f] EXCEPT !.labels = @ \cup NewLabels(doc, files, b, uuid, f),
                   !.symbols = {EditedSymbol(doc, b, f, s) : s \in @}]

FilesOf(doc, files, b) ==
  {IF IsLabel(b[i]) THEN PlaceOf(doc, files, b[i]).file ELSE NodeOf(doc, b[i])[1] :
     i \in DOMAIN b}

\* What a batch makes of the files it edits.
EditedFiles(doc, files, b, uuid) ==
  [f \in FilesOf(doc, files, b) |-> Edited(doc, files, b, uuid, f)]

\* The UUIDs of the labels of a batch are new, and no two are the same.
FreshUuids(doc, b, uuid) ==
  \A i \in {k \in DOMAIN b : IsLabel(b[k])} :
    /\ \A k \in {j \in DOMAIN b : IsLabel(b[j])} : uuid[i] = uuid[k] => i = k
    /\ \A l \in doc.labels : l.ref[3] # uuid[i]

Batches == UNION {[1 .. n -> Edits] : n \in 1 .. MaxBatch}

\* A call with a batch of edits that is refused before the first write changes nothing.
ApplyEdits ==
  /\ Callable
  /\ \E b \in {c \in Batches : used + Len(c) <= MaxCommands} :
       /\ Plannable(Read, disk, b)
       /\ \E uuid \in [{i \in DOMAIN b : IsLabel(b[i])} -> LabelUuids] :
            /\ FreshUuids(Read, b, uuid)
            /\ Begins([module |-> FALSE, batch |-> b, uuid |-> uuid, before |-> disk,
                       new |-> EditedFiles(Read, disk, b, uuid), todo |-> FilesOf(Read, disk, b)])

-----------------------------------------------------------------------------
(* Instantiating a module (_instantiate). *)

Uuid(base, kind, i) == base + (CASE kind = "sheet" -> 0 [] kind = "root" -> 1 [] kind = "symbol" -> 2
                                 [] kind = "port" -> 10 + i [] kind = "label" -> 20 + i
                                 [] kind = "wire" -> 30 + i [] kind = "inner" -> 40 + i
                                 [] kind = "pin" -> 50 + i [] OTHER -> 60 + i)

\* The one instance of a file that no other sheet uses.
TargetSheets(doc, c) ==
  {inst \in doc.insts : /\ <<"sheet", inst.parent, inst.sheet>> = c.target
                        /\ \A s \in doc.sheets : s.file = inst.file => s.ref = c.target}

\* A port is bound to a pin or a port of any sheet; only the position is taken from it.
BindingPoints(doc, files, ref) ==
  UNION {{t.at : t \in PointsOf(files[inst.file], ref)} : inst \in OnSheet(doc, ref[2])}

\* The first point of the 25 mm raster, row by row, at which no sheet is placed.
Placement(file) ==
  LET taken == {s.at : s \in file.sheets}
      raster == {[x |-> 25 * x, y |-> 25 * y] : x \in 1 .. 40, y \in 1 .. Cardinality(taken) + 1}
      before(p, q) == p.y < q.y \/ (p.y = q.y /\ p.x <= q.x)
  IN  CHOOSE p \in raster \ taken : \A q \in raster \ taken : before(p, q)

PortPoint(place, i) == [x |-> place.x + 50, y |-> place.y + 5 * i]

\* The target file with the sheet, and for every port a label at what it is bound to, named
\* as the port, and a straight wire from there to the port.
WithSheet(doc, files, c, base, file, child) ==
  LET place == Placement(files[file])
      port(i) == PortPoint(place, i)
      bound(i) == CHOOSE p \in BindingPoints(doc, files, c.bind[i]) : TRUE
      all == DOMAIN c.ports
  IN  [files[file] EXCEPT
         !.sheets = @ \cup {[id |-> Uuid(base, "sheet", 0), file |-> child, at |-> place,
                             ports |-> {[id |-> Uuid(base, "port", i), at |-> port(i)] : i \in all}]},
         !.labels = @ \cup {[id |-> Uuid(base, "label", i), name |-> c.ports[i], scope |-> "local",
                             at |-> bound(i)] : i \in all},
         !.wires = @ \cup {[id |-> Uuid(base, "wire", i), pts |-> <<bound(i), port(i)>>] : i \in all}]

\* The template with new UUIDs: one symbol with a pin for every port, a hierarchical label
\* for every port, and the wire between them, which a template may lack.
Template(c, base) ==
  LET all == DOMAIN c.ports
  IN  [id |-> Uuid(base, "root", 0), sheets |-> {}, junctions |-> {},
       symbols |-> {[id |-> Uuid(base, "symbol", 0), props |-> c.props,
                     at |-> [x |-> 0, y |-> 0], angle |-> 0, mirror |-> "none",
                     pins |-> {[id |-> Uuid(base, "pin", i), at |-> [x |-> 0, y |-> i]] : i \in all}]},
       labels |-> {[id |-> Uuid(base, "inner", i), name |-> c.ports[i], scope |-> "hierarchical",
                    at |-> [x |-> 9, y |-> i]] : i \in all},
       wires |-> {[id |-> Uuid(base, "inside", i),
                   pts |-> <<[x |-> 0, y |-> i], [x |-> 9, y |-> i]>>] : i \in {k \in all : c.wired}}]

\* The new file is named after the instance and the command: no other call uses the name.
Spare(files) == DOMAIN files \ Present(files)

\* What a module instantiated in file makes of that file and of the new one.
ModuleFiles(doc, files, c, base, file, child) ==
  [f \in {file, child} |-> IF f = child THEN Template(c, base)
                           ELSE WithSheet(doc, files, c, base, file, child)]

Instantiate ==
  /\ Callable /\ Spare(disk) # {}
  /\ \E c \in Modules, base \in ModuleUuids : \E inst \in TargetSheets(Read, c) :
       LET child == CHOOSE f \in Spare(disk) : TRUE
       IN  /\ \A i \in DOMAIN c.ports : BindingPoints(Read, disk, c.bind[i]) # {}
           /\ \A n \in Read.insts : n.sheet # Uuid(base, "sheet", 0)
           /\ Begins([module |-> TRUE, batch |-> <<c>>, uuid |-> base, before |-> disk,
                      new |-> ModuleFiles(Read, disk, c, base, inst.file, child),
                      todo |-> {inst.file, child}])

\* _validate_port_connectivity: a pin of the child is joined to the label of every port, and
\* what the port is bound to, the label in the parent and the port are on one net.
Connected(after, c, base) ==
  \A i \in DOMAIN c.ports :
    /\ \E n \in after.nets :
         /\ <<"label", Uuid(base, "sheet", 0), Uuid(base, "inner", i)>> \in n.members
         /\ \E k \in DOMAIN c.ports :
              <<"pin", Uuid(base, "sheet", 0), Uuid(base, "pin", k)>> \in n.members
    /\ \E n \in after.nets :
         /\ c.bind[i] \in n.members
         /\ <<"label", c.target[3], Uuid(base, "label", i)>> \in n.members
         /\ <<"hierarchical_port", c.target[3], Uuid(base, "port", i)>> \in n.members

-----------------------------------------------------------------------------
(* Claims, verdict and rollback. *)

\* The selector of a command of a batch of edits.
OwnSelector(b, uuid, i) ==
  IF IsLabel(b[i]) THEN Selector("label_added", <<"label", b[i].target[2], uuid[i]>>, "")
  ELSE Selector(IF NameOf(b[i]) = "Footprint" THEN "footprint_changed"
                ELSE "symbol_property_changed", b[i].subject, NameOf(b[i]))

\* The commands a changed net may be due to: labels put on it, before or after the change.
Candidates(call, before, after, net) ==
  {i \in DOMAIN call.batch :
     /\ IsLabel(call.batch[i])
     /\ \/ PlaceOf(before, call.before, call.batch[i]).net = net
        \/ \E n \in after.nets \cup before.nets :
             n.ref = net /\ OwnSelector(call.batch, call.uuid, i).ref \in n.members}

\* A net two commands may have changed is claimed by neither.
Claims(call, before, after) ==
  LET due == [n \in ChangedNets(before, after) |-> Candidates(call, before, after, n)]
  IN  [i \in DOMAIN call.batch |->
         {OwnSelector(call.batch, call.uuid, i)} \cup
           {Selector("net_connectivity_changed", n, "") : n \in {k \in DOMAIN due : due[k] = {i}}}]

\* A module claims every change there is.
Accepted(call, before, after) ==
  /\ Indexable(before) /\ Indexable(after)
  /\ IF call.module THEN Connected(after, call.batch[1], call.uuid)
     ELSE Attributed(Changes(before, after), Claims(call, before, after))

Acceptable == Parsable(disk) /\ Accepted(job, Document(job.before), Read)

\* A mutant of Undo: what has not been judged yet is not restored.
UndoJudged(written) == IF written = DOMAIN job.new THEN written ELSE {}

\* What the rollback of a call restores when written are the files it has replaced.  Edits
\* restore every file of the batch, a module the files it wrote.
Undo(written) == IF job.module THEN written ELSE DOMAIN job.new

Ends(how) == phase' = "idle" /\ verdict' = how

RollBack(written) ==
  IF Undo(written) = {} THEN Ends("failed") /\ job' = [job EXCEPT !.todo = {}]
  ELSE phase' = "restoring" /\ job' = [job EXCEPT !.todo = Undo(written)] /\ UNCHANGED verdict

\* A module writes the child before the sheet that names it, and removes it last.
IsNew(f) == job.before[f] = Absent
MayWrite(f) == f \in job.todo /\ \A g \in job.todo : IsNew(g) => g = f
MayRestore(f) == f \in job.todo /\ (IsNew(f) => job.todo = {f})

WriteFile(f) ==
  /\ phase = "writing" /\ MayWrite(f)
  /\ disk' = [disk EXCEPT ![f] = job.new[f]]
  /\ job' = [job EXCEPT !.todo = @ \ {f}]
  /\ UNCHANGED <<phase, verdict, used, faults, lost>>

WriteFails(f) ==
  /\ phase = "writing" /\ MayWrite(f) /\ faults < MaxFaults
  /\ RollBack(DOMAIN job.new \ job.todo)
  /\ faults' = faults + 1
  /\ UNCHANGED <<disk, used, lost>>

Judge ==
  /\ phase = "writing" /\ job.todo = {}
  /\ IF Acceptable THEN Ends("accepted") /\ UNCHANGED job ELSE RollBack(DOMAIN job.new)
  /\ UNCHANGED <<disk, used, faults, lost>>

Restored(f) ==
  /\ job' = [job EXCEPT !.todo = @ \ {f}]
  /\ IF job.todo = {f} THEN Ends("failed") ELSE UNCHANGED <<phase, verdict>>

Restore(f) ==
  /\ phase = "restoring" /\ MayRestore(f)
  /\ disk' = [disk EXCEPT ![f] = job.before[f]]
  /\ Restored(f)
  /\ UNCHANGED <<used, faults, lost>>

\* The rollback of edits goes on with the other files; that of a module ends.
RestoreFails(f) ==
  /\ phase = "restoring" /\ MayRestore(f) /\ faults < MaxFaults
  /\ IF job.module THEN Ends("failed") /\ job' = [job EXCEPT !.todo = {}] ELSE Restored(f)
  /\ faults' = faults + 1 /\ lost' = TRUE
  /\ UNCHANGED <<disk, used>>

Init ==
  /\ disk \in Projects
  /\ phase = "idle" /\ verdict = "none"
  /\ job = [module |-> FALSE, batch |-> <<>>, uuid |-> <<>>, before |-> disk, new |-> <<>>,
            todo |-> {}]
  /\ used = 0 /\ faults = 0 /\ lost = FALSE

Next ==
  \/ ApplyEdits \/ Instantiate \/ Judge
  \/ \E f \in DOMAIN disk : WriteFile(f) \/ WriteFails(f) \/ Restore(f) \/ RestoreFails(f)

Spec == Init /\ [][Next]_vars

-----------------------------------------------------------------------------
(* Properties. *)

Over(how) == phase = "idle" /\ verdict = how

Differs(before, after, s, n) == At(before.symbols, s).props[n] # At(after.symbols, s).props[n]

EditsAreExact(b, before, after) ==
  LET edits == {i \in DOMAIN b : ~IsLabel(b[i])}
      labels == DOMAIN b \ edits
      new == after.labels \ before.labels
  IN  /\ after.sheets = before.sheets
      /\ Refs(after.symbols) = Refs(before.symbols)
      /\ \A s \in Refs(before.symbols), n \in PropertyNames : Differs(before, after, s, n) =>
           \E i \in edits : b[i].subject = s /\ NameOf(b[i]) = n
      /\ \A i \in edits : At(after.symbols, b[i].subject).props[NameOf(b[i])] = <<b[i].value>>
      /\ before.labels \subseteq after.labels
      /\ Cardinality(new) = Cardinality(labels)
      /\ \A i \in labels : \E l \in new : SameName(l, b[i]) /\ l.ref[2] = b[i].target[2]

\* A batch the adapter accepts has done what each of its commands says and nothing else, in
\* the document as KiCad will read it: an edit of a file that two sheets share, a label that
\* came to lie in another sheet than named, a property written twice are never accepted.
\* A module leaves every symbol, label and sheet there was as it was.
OnlyTheNamedChange ==
  Over("accepted") =>
    LET before == Document(job.before)
        after == Read
    IN  IF job.module
        THEN /\ before.symbols \subseteq after.symbols /\ before.labels \subseteq after.labels
             /\ Cardinality(after.sheets \ before.sheets) = 1 /\ before.sheets \subseteq after.sheets
        ELSE EditsAreExact(job.batch, before, after)

SameReference(doc, s, t) == At(doc.symbols, s).props["Reference"] = At(doc.symbols, t).props["Reference"]

ReferencesApart(before, after) ==
  \A s, t \in Refs(before.symbols) :
    s # t /\ SameReference(after, s, t) => SameReference(before, s, t)

LabelsTogether(before, after) ==
  \A l \in after.labels \ before.labels, k \in after.labels : SameName(l, k) =>
    \/ NetsWith(after, l.ref) \cap NetsWith(after, k.ref) # {}
    \/ NetsWith(after, l.ref) = {} /\ NetsWith(after, k.ref) = {}

\* An accepted batch of edits gives no two symbols one reference, whatever the commands of
\* the batch do to each other: a reference is taken over only from a symbol that an earlier
\* command has renamed, and no command is undone by a later one.
ReferencesStayApart ==
  Over("accepted") /\ ~job.module => ReferencesApart(Document(job.before), Read)

\* An accepted batch of edits puts no label of one name and scope on a net when there is one
\* of that name and scope on another net or on none, although nets change their own
\* references as labels are added to them.
LabelsStayTogether ==
  Over("accepted") /\ ~job.module => LabelsTogether(Document(job.before), Read)

\* A call that fails, at any write or after all of them, leaves every file as it was and no
\* file behind, unless a write of the rollback itself fails.
FailureRestores == Over("failed") /\ ~lost => disk = job.before

\* Not kept by the code: the labels a module puts at the ends of its ports, named after the
\* ports, are not held against the labels there are.
ModuleLabelsTogether ==
  Over("accepted") /\ job.module => LabelsTogether(Document(job.before), Read)

\* Not kept by the code: the straight wire to a port joins whatever pin lies on its way.
ModuleJoinsNothingElse ==
  Over("accepted") /\ job.module =>
    LET before == Document(job.before)
        after == Read
        pins == {m \in UNION {n.members : n \in after.nets} : m[1] = "pin"}
        old == UNION {{<<"pin", inst.sheet, p.id>> : p \in PinsOf(job.before[inst.file])} :
                        inst \in before.insts}
    IN  \A p, q \in pins \cap old : p # q /\ NetsWith(after, p) \cap NetsWith(after, q) # {}
          => NetsWith(before, p) \cap NetsWith(before, q) # {}
=============================================================================

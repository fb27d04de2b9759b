----------------------------- MODULE SchematicNets -----------------------------
(* What pcbflow reads out of the schematic files of a project                  *)
(* (src/pcbflow/schematic/semantic.py) and what it calls a change between two  *)
(* readings (schematic/diff.py).                                               *)
(*                                                                             *)
(* A file is a record of its top-level nodes.  The UUIDs are natural numbers:  *)
(* only equality and order (the anchor of a net is the least UUID on it) are   *)
(* used of them.  Coordinates are integers.  A symbol keeps, for every         *)
(* property name, the sequence of the values written under it, so that a       *)
(* property inserted twice can be seen and refused.  An object reference is    *)
(* the tuple <<kind, UUID of the sheet instance, UUID of the object>>.         *)
EXTENDS Integers, Sequences, FiniteSets

CONSTANT
  PropertyNames   \* the names of properties a symbol may carry

\* What files maps the name of a file to that does not exist.
Absent == [absent |-> TRUE]

\* A file and a symbol have these fields; nothing is asked of what is in them.
IsSymbol(s) == DOMAIN s = {"id", "props", "at", "angle", "mirror", "pins"}

IsFile(file) ==
  /\ DOMAIN file = {"id", "sheets", "symbols", "labels", "wires", "junctions"}
  /\ \A s \in file.symbols : IsSymbol(s)

\* A wire has at least two points, or the reading raises an error.
IsWire(w) ==
  /\ DOMAIN w = {"id", "pts"}
  /\ w.id \in Nat /\ w.pts \in Seq([x : Int, y : Int]) /\ Len(w.pts) >= 2

Least(S) == CHOOSE n \in S : \A k \in S : n <= k

Present(files) == {f \in DOMAIN files : files[f] # Absent}

-----------------------------------------------------------------------------
(* Wires and nets of one file. *)

OnSegment(p, a, b) ==
  /\ (p.x - a.x) * (b.y - a.y) = (p.y - a.y) * (b.x - a.x)
  /\ Least({a.x, b.x}) <= p.x /\ p.x <= a.x + b.x - Least({a.x, b.x})
  /\ Least({a.y, b.y}) <= p.y /\ p.y <= a.y + b.y - Least({a.y, b.y})

OnWire(p, w) == \E i \in 1 .. Len(w.pts) - 1 : OnSegment(p, w.pts[i], w.pts[i + 1])

\* Two wires are joined by a common vertex, or by a junction that lies on both: a wire
\* that ends on the middle of another one is not joined to it.
WiresMeet(file, v, w) ==
  \/ \E i \in DOMAIN v.pts, k \in DOMAIN w.pts : v.pts[i] = w.pts[k]
  \/ \E j \in file.junctions : OnWire(j.at, v) /\ OnWire(j.at, w)

ComponentOf(file, w) ==
  LET reach[n \in 0 .. Cardinality(file.wires)] ==
        IF n = 0 THEN {w}
        ELSE {v \in file.wires : \E u \in reach[n - 1] : WiresMeet(file, u, v)}
  IN  reach[Cardinality(file.wires)]

Components(file) == {ComponentOf(file, w) : w \in file.wires}

OnNet(c, p) == \E w \in c : OnWire(p, w)

\* A pin is where its symbol is placed, after mirroring and then turning the position the
\* library gives it.
PinPoint(s, p) ==
  LET x == IF s.mirror = "y" THEN -p.x ELSE p.x
      y == IF s.mirror = "x" THEN -p.y ELSE p.y
  IN  CASE s.angle = 0   -> [x |-> s.at.x + x, y |-> s.at.y + y]
        [] s.angle = 90  -> [x |-> s.at.x - y, y |-> s.at.y + x]
        [] s.angle = 180 -> [x |-> s.at.x - x, y |-> s.at.y - y]
        [] s.angle = 270 -> [x |-> s.at.x + y, y |-> s.at.y - x]

PinsOf(file) ==
  UNION {{[id |-> p.id, at |-> PinPoint(s, p.at)] : p \in s.pins} : s \in file.symbols}

PortsOf(file) == UNION {s.ports : s \in file.sheets}

\* No two objects of a file have one UUID, which KiCad sees to and pcbflow does not check.
UuidsAreUnique(file) ==
  /\ \A u, v \in file.wires \cup file.junctions \cup file.labels : u.id = v.id => u = v
  /\ \A things \in {PinsOf(file), PortsOf(file)} : \A p, q \in things : p.id = q.id => p = q

\* What a file holds is drawn: its wires are wires, and its UUIDs are told apart.
IsDrawn(file) ==
  /\ IsFiniteSet(file.wires) /\ \A w \in file.wires : IsWire(w)
  /\ \A t \in file.junctions \cup file.labels : "at" \in DOMAIN t /\ t.id \in Nat
  /\ UuidsAreUnique(file)

Members(file, sheet, c) ==
  LET on(kind, things) == {<<kind, sheet, t.id>> : t \in {u \in things : OnNet(c, u.at)}}
  IN  {<<"wire", sheet, w.id>> : w \in c} \cup on("junction", file.junctions)
        \cup on("label", file.labels) \cup on("pin", PinsOf(file))
        \cup on("hierarchical_port", PortsOf(file))

\* A net is known by the least UUID among its wires, junctions and labels.
Anchor(file, c) ==
  Least({w.id : w \in c}
          \cup {t.id : t \in {u \in file.junctions \cup file.labels : OnNet(c, u.at)}})

NetsOf(file, sheet) ==
  {[ref |-> <<"net", sheet, Anchor(file, c)>>,
    names |-> {l.name : l \in {k \in file.labels : OnNet(c, k.at)}},
    members |-> Members(file, sheet, c)] : c \in Components(file)}

-----------------------------------------------------------------------------
(* The hierarchy: one instance of a file for every sheet node that names it. *)

ChildFiles(files) == UNION {{s.file : s \in files[f].sheets} : f \in Present(files)}

Roots(files) == Present(files) \ ChildFiles(files)

ChildrenOf(files, inst) ==
  {[sheet |-> s.id, parent |-> inst.sheet, file |-> s.file, owner |-> inst.file,
    trail |-> inst.trail \cup {s.file}] :
     s \in {t \in files[inst.file].sheets : t.file \notin inst.trail}}

\* The root sheet.
Top(files) ==
  LET root == CHOOSE f \in Roots(files) : TRUE
  IN  [sheet |-> files[root].id, parent |-> files[root].id, file |-> root,
       owner |-> root, trail |-> {root}]

\* The instances at each depth: no deeper than there are files.
Levels(files) ==
  LET level[n \in 1 .. Cardinality(Present(files))] ==
        IF n = 1 THEN {Top(files)}
        ELSE UNION {ChildrenOf(files, inst) : inst \in level[n - 1]}
  IN  level

Instances(files) == UNION {Levels(files)[n] : n \in 1 .. Cardinality(Present(files))}

\* Every way in which the reading of the project raises an error instead of returning.
Parsable(files) ==
  /\ ChildFiles(files) \subseteq Present(files)
  /\ Cardinality(Roots(files)) = 1
  /\ LET insts == Instances(files)
     IN  /\ {inst.file : inst \in insts} = Present(files)
         /\ \A inst \in insts : \A s \in files[inst.file].sheets : s.file \notin inst.trail
  /\ \A f \in Present(files) : \A s \in files[f].symbols : \A n \in PropertyNames :
       Len(s.props[n]) <= 1
  /\ \A f \in Present(files) : \A c, d \in Components(files[f]) :
       Anchor(files[f], c) = Anchor(files[f], d) => c = d

(* What SchematicDocument holds. *)

SheetsRead(insts) ==
  {[ref |-> <<"sheet", inst.parent, inst.sheet>>, file |-> inst.file] : inst \in insts}

SymbolsRead(files, insts) ==
  UNION {{[ref |-> <<"symbol", inst.sheet, s.id>>, props |-> s.props] :
            s \in files[inst.file].symbols} : inst \in insts}

LabelsRead(files, insts) ==
  UNION {{[ref |-> <<"label", inst.sheet, l.id>>, name |-> l.name, scope |-> l.scope,
           at |-> l.at] : l \in files[inst.file].labels} : inst \in insts}

NetsRead(files, insts) == UNION {NetsOf(files[inst.file], inst.sheet) : inst \in insts}

ReadAs(files, insts) ==
  [sheets |-> SheetsRead(insts), symbols |-> SymbolsRead(files, insts),
   labels |-> LabelsRead(files, insts), nets |-> NetsRead(files, insts), insts |-> insts]

Document(files) == ReadAs(files, Instances(files))

\* The nets an object is a member of; the code takes the one with the least reference.
NetsWith(doc, ref) == {n \in doc.nets : ref \in n.members}

NoNet == <<"none">>

NetFor(doc, ref) ==
  LET on == NetsWith(doc, ref)
  IN  IF on = {} THEN NoNet
      ELSE (CHOOSE n \in on : \A m \in on : n.ref[3] <= m.ref[3]).ref

-----------------------------------------------------------------------------
(* schematic/diff.py: the changes between two documents, each a selector. *)

Selector(kind, ref, field) == [kind |-> kind, ref |-> ref, field |-> field]

Refs(things) == {t.ref : t \in things}

At(things, ref) == CHOOSE t \in things : t.ref = ref

Added(kind, before, after) ==
  {Selector(kind, r, "") : r \in Refs(after) \ Refs(before)}

SymbolChanges(before, after) ==
  UNION {{Selector(IF n = "Footprint" THEN "footprint_changed" ELSE "symbol_property_changed", r, n) :
            n \in {k \in PropertyNames : At(before, r).props[k] # At(after, r).props[k]}} :
           r \in Refs(before) \cap Refs(after)}

ChangedNets(before, after) ==
  {r \in Refs(before.nets) \cup Refs(after.nets) :
     {n \in before.nets : n.ref = r} # {n \in after.nets : n.ref = r}}

Changes(before, after) ==
  Added("sheet_added", before.sheets, after.sheets)
    \cup Added("sheet_removed", after.sheets, before.sheets)
    \cup Added("symbol_added", before.symbols, after.symbols)
    \cup Added("symbol_removed", after.symbols, before.symbols)
    \cup SymbolChanges(before.symbols, after.symbols)
    \cup Added("label_added", before.labels, after.labels)
    \cup Added("label_removed", after.labels, before.labels)
    \cup {Selector("net_connectivity_changed", r, "") : r \in ChangedNets(before, after)}

\* _index_by_ref: two objects under one reference are refused.  Two instances have one
\* UUID when the sheet node of both is in a file that is itself used twice.
Indexable(doc) ==
  /\ \A i, j \in doc.insts : i.sheet = j.sheet => i = j
  /\ \A things \in {doc.symbols, doc.labels, doc.nets} :
       \A s, t \in things : s.ref = t.ref => s = t

\* A mutant of Attributed: the check looks only at the kind and the field of a selector.
AttributedByKind(changes, claims) ==
  \A c \in changes : \E i \in DOMAIN claims : \E s \in claims[i] :
    s.kind = c.kind /\ s.field = c.field

\* Every change is claimed by exactly one command.
Attributed(changes, claims) ==
  \A c \in changes : Cardinality({i \in DOMAIN claims : c \in claims[i]}) = 1
=============================================================================

---------------------------- MODULE MCSchematicEdit ----------------------------
(* A root sheet with two symbols and a sheet below it, used once or twice.  The    *)
(* wire of the second pin ends on the middle of the wire of the first one, with or *)
(* without a junction; a third pin is on no wire, and on the way of a module.      *)
EXTENDS SchematicEdit

P(x, y) == [x |-> x, y |-> y]
Props(reference) ==
  [n \in PropertyNames |-> IF n = "Reference" THEN <<reference>> ELSE IF n = "User" THEN <<>> ELSE <<"f">>]
Sym(id, reference, at, angle, mirror, pins) ==
  [id |-> id, props |-> Props(reference), at |-> at, angle |-> angle, mirror |-> mirror, pins |-> pins]
Pin(id, x, y) == [id |-> id, at |-> P(x, y)]
Wire(id, a, b) == [id |-> id, pts |-> <<a, b>>]
SheetNode(id, y) == [id |-> id, file |-> "below", at |-> P(25, y), ports |-> {Pin(id + 1, 75, y + 5)}]

RootFile(uses, junctions) ==
  [id |-> 1, labels |-> {}, junctions |-> junctions,
   symbols |-> {Sym(11, "R1", P(10, 30), 90, "none", {Pin(12, 0, 10)}),
               Sym(21, "R2", P(30, 30), 270, "x", {Pin(22, -10, 5), Pin(23, 0, -20)})},
   wires |-> {Wire(500, P(0, 30), P(0, 50)), Wire(600, P(0, 40), P(25, 40))},
   sheets |-> {SheetNode(31 + 10 * i, 100 * i) : i \in 1 .. uses}]
Below ==
  [id |-> 2, labels |-> {}, junctions |-> {}, sheets |-> {},
   symbols |-> {Sym(31, "R3", P(5, 5), 180, "y", {Pin(32, -5, 5)})}, wires |-> {Wire(800, P(0, 0), P(5, 0))}]

MCProjects ==
  {[f \in {"root", "below", "new1", "new2"} |->
      IF f = "root" THEN RootFile(uses, j) ELSE IF f = "below" THEN Below ELSE Absent] :
     <<uses, j>> \in {<<2, {}>>, <<1, {Pin(450, 0, 40)}>>}}
ASSUME \A files \in MCProjects : \A f \in Present(files) : IsDrawn(files[f])

Set(sheet, id, name, old, value) ==
  [type |-> "set_property", subject |-> <<"symbol", sheet, id>>, name |-> name,
   expected |-> old, value |-> value]
Foot(sheet, id, value) ==
  [type |-> "assign_footprint", subject |-> <<"symbol", sheet, id>>, value |-> value]
Label(name, target) == [type |-> "add_label", name |-> name, scope |-> "local", target |-> target]

MCEdits ==
  {Set(1, 11, "Reference", "", "R2"), Set(1, 21, "Reference", "R2", "R9"), Set(41, 31, "Reference", "", "R9"),
   Set(1, 11, "User", "", "u"), Set(1, 11, "Footprint", "", "g"),
   Foot(1, 11, "g"), Label("L", <<"net", 1, 500>>), Label("L", <<"wire", 1, 600, "start">>),
   Label("L", <<"pin", 1, 23>>), Label("L", <<"wire", 1, 800, "end">>),
   Label("M", <<"wire", 1, 600, "end">>), Label("P", <<"hierarchical_port", 1, 42>>)}

Module(wired, target) ==
  [target |-> <<"sheet", 1, 1>>, ports |-> <<"P">>, bind |-> <<target>>, wired |-> wired, props |-> Props("U1")]
MCModules ==
  {Module(TRUE, <<"pin", 1, 12>>), Module(TRUE, <<"pin", 1, 22>>), Module(FALSE, <<"pin", 1, 12>>),
   Module(TRUE, <<"pin", 41, 32>>)}
=============================================================================

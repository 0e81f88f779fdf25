----------------------------- MODULE MCDriverBuild -----------------------------
(* Two compile calls and two warm-ups, then one lab loading drivers.  The      *)
(* shapes follow the objects under compiler-worker/test/fixtures: empty .data, *)
(* a .bss with a size and no file position, several .rdata sections, section   *)
(* symbols with an auxiliary slot.                                             *)
EXTENDS DriverBuild

Sec(name, raw, ptr, relocs) ==
    [name |-> name, raw |-> raw, vsize |-> raw, ptr |-> ptr, relocs |-> relocs]
Reloc(va, sym, type) == [va |-> va, sym |-> sym, type |-> type]
Sym(name, value, section, class, aux) ==
    [name |-> name, value |-> value, section |-> section, class |-> class, aux |-> aux]

\* An auxiliary slot reads as a definition of DriverEntry if it is taken for one.
AuxSlot == Sym("DriverEntry", 2, 1, "external", 0)
Text == Sym(".text", 0, 1, "static", 1)

Obj(sections, symbols) == [machine |-> "x64", sections |-> sections, table |-> symbols]

\* Calls an API, reads a string of the second .rdata and the process list.
Reader == Obj(
    <<Sec(".text", 4, 3, <<Reloc(1, 4, "REL32"), Reloc(2, 5, "REL32"), Reloc(3, 6, "REL32")>>),
      Sec(".data", 0, 0, <<>>), Sec(".bss", 1, 0, <<>>),
      Sec(".rdata", 1, 7, <<>>), Sec(".rdata", 1, 8, <<>>), Sec(".xdata", 1, 9, <<>>)>>,
    <<Text, AuxSlot, Sym("DriverEntry", 0, 1, "external", 0), Sym("DbgPrint", 0, 0, "external", 0),
      Sym("$str", 0, 5, "static", 0), Sym(DataExport, 0, 0, "external", 0)>>)

\* A table of pointers in .data, a call of the library's function, debug data.
Tables == Obj(
    <<Sec(".text", 3, 3, <<Reloc(1, 5, "REL32"), Reloc(2, 4, "SECREL")>>),
      Sec(".data", 4, 6, <<Reloc(0, 3, "ABS"), Reloc(2, 4, "ADDR32")>>)>>,
    <<Text, AuxSlot, Sym("DriverEntry", 0, 1, "external", 0), Sym("g", 3, 2, "external", 0),
      Sym("helper", 0, 0, "external", 0)>>)

\* Errors: an index that is no symbol's, a type that is not known, a symbol of
\* a dropped section, another machine.
Dangling == [Tables EXCEPT !.sections[1].relocs = <<Reloc(1, 5, "REL32"), Reloc(2, 2, "REL32")>>]
Unknown == [Tables EXCEPT !.sections[1].relocs = <<Reloc(1, 2, "TOKEN"), Reloc(1, 3, "TOKEN"), Reloc(2, 5, "REL32")>>]
Dropped == [Reader EXCEPT !.table[5] = Sym("$str", 0, 6, "static", 0)]
OtherMachine == [Tables EXCEPT !.machine = "arm64"]

\* A library that defines the function, without relocations; one that calls.
Leaf == Obj(
    <<Sec(".text", 2, 2, <<>>), Sec(".rdata", 1, 4, <<>>)>>,
    <<Text, AuxSlot, Sym("helper", 1, 1, "external", 0)>>)
Caller == Obj(
    <<Sec(".text", 3, 2, <<Reloc(1, 4, "REL32")>>)>>,
    <<Text, AuxSlot, Sym("helper", 2, 1, "external", 0), Sym("DbgPrint", 0, 0, "external", 0)>>)

MCObject == [reader |-> Reader, tables |-> Tables, dangling |-> Dangling, unknown |-> Unknown,
             dropped |-> Dropped, arm |-> OtherMachine, leaf |-> Leaf, caller |-> Caller]

\* The thunks start at 0, the default base is 24 above them; at 200 they are
\* out of a displacement's reach.
MCThunk == [n \in {"DbgPrint"} |-> 1]
MCStub == [n \in {"helper"} |-> 2]
=============================================================================

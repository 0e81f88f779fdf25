------------------------------ MODULE DriverBuild ------------------------------
(***************************************************************************)
(* From C source to a driver in the emulated kernel: the compile bridge    *)
(* (CompilerBridge), the linker (DriverLink) and loadCompiledDriver of     *)
(* ntsim-analyzer/src/compiled.mjs.  A lab loads what its compile call     *)
(* returned, alone or with another object.  loadCompiledDriver is one      *)
(* synchronous call and shares nothing with the bridge but the object, so  *)
(* the loads of the model come after the bridge has come to rest.          *)
(***************************************************************************)
EXTENDS CompilerBridge, DriverLink

CONSTANTS Object,      \* the object files, by the names below
          Shapes,      \* what clang may emit for a source
          Libraries,   \* objects a lab links besides it
          Bases,       \* load addresses
          Names,       \* driver names
          Thunk,       \* API name -> address of its thunk
          Stub,        \* name -> where a stub for it would be provisioned
          SlotGap,     \* cells from the data slots up to the image
          MaxLoads     \* bound: calls of loadCompiledDriver

DataExport == "PsInitialSystemProcess"

ASSUME BuildAssumption ==
    /\ MaxLoads \in Nat
    /\ Bases \subseteq Int /\ SlotGap \in Nat \ {0}
    /\ Shapes \cup Libraries \subseteq DOMAIN Object
    /\ DataExport \notin DOMAIN Thunk \cup DOMAIN Stub
    /\ DOMAIN Thunk \cap DOMAIN Stub = {}

\* The cells of a section that a relocation is for.
Width(type) == CASE type = "ABS" -> 2 [] type \in {"REL32", "ADDR32"} -> 1 [] OTHER -> 0
Field(rel) == rel.va..(rel.va + Width(rel.type) - 1)

Sequential(s) == Len(s) \in Nat /\ DOMAIN s = 1..Len(s)

\* What clang writes: the fields of a section lie inside it and apart.
WellFormed(obj) ==
    /\ Sequential(obj.sections) /\ Sequential(obj.table)
    /\ \A slot \in Primary(obj.table) : {obj.table[slot].section, obj.table[slot].value} \subseteq Nat
    /\ \A s \in DOMAIN obj.sections : LET sec == obj.sections[s] IN
         /\ {sec.raw, sec.vsize} \subseteq Nat
         /\ Sequential(sec.relocs)
         /\ \A x, y \in ToSet(sec.relocs) :
              /\ x.va \in Nat /\ Field(x) \subseteq 0..(Size(sec) - 1)
              /\ x # y => Field(x) \cap Field(y) = {}

ASSUME ObjectAssumption == \A s \in Shapes \cup Libraries : WellFormed(Object[s])

VARIABLES
    stubs,    \* names with a provisioned stub
    loads,    \* the calls of loadCompiledDriver, which determine the memory
    loadedModules, loadedDrivers   \* the kernel's lists of them

kernel == <<stubs, loads, loadedModules, loadedDrivers>>
bvars == <<vars, kernel>>

BInit ==
    /\ Init
    /\ stubs = {}
    /\ loads = <<>>
    /\ loadedModules = <<>>
    /\ loadedDrivers = <<>>

\* resolveExternal: a thunk, the slot below the image that points to System's
\* EPROCESS, or a provisioned stub.
External(base) ==
    [n \in DOMAIN Thunk \cup DOMAIN Stub \cup {DataExport} |->
        IF n \in DOMAIN Thunk THEN Thunk[n]
        ELSE IF n = DataExport THEN base - SlotGap ELSE Stub[n]]

Listed(list, name, base) ==
    IF \E i \in DOMAIN list : list[i].name = name THEN list
    ELSE Append(list, [name |-> name, base |-> base])

Inputs == {<<s>> : s \in Shapes} \cup (Shapes \X Libraries)
Objs(ids) == [o \in DOMAIN ids |-> Object[ids[o]]]

\* linkDriver for every input and base.
Linkings ==
    {[ids |-> ids, base |-> base, result |-> LinkDriver(Link(Objs(ids), base, External(base)))] :
        ids \in Inputs, base \in Bases}

\* loadCompiledDriver: stubs the resolver made during a link that fails stay.
Load(l, name) ==
    /\ Len(loads) < MaxLoads
    /\ stubs' = stubs \cup (l.result.asked \cap DOMAIN Stub)
    /\ loads' = Append(loads, [ids |-> l.ids, base |-> l.base, name |-> name, ok |-> l.result.ok])
    /\ IF l.result.ok
       THEN /\ loadedModules' = Listed(loadedModules, name, l.base)
            /\ loadedDrivers' = Listed(loadedDrivers, name, l.base)
       ELSE UNCHANGED <<loadedModules, loadedDrivers>>

SystemPointer == Content("system", 0, 0)

\* What a load writes: the data slot its objects ask for and, if it linked, its
\* image.
Written(l) ==
    LET slot == {a \in {l.base - SlotGap} : DataExport \in l.result.asked}
        cells == {l.base + i : i \in DOMAIN l.result.image}
    IN  [a \in slot \cup cells |-> IF a \in cells THEN l.result.image[a - l.base]
                                   ELSE SystemPointer]

\* What a call of loadCompiledDriver linked.
LinkingOf(load) == CHOOSE l \in Linkings : l.ids = load.ids /\ l.base = load.base

\* Kernel memory: of each address, what the last call that wrote it left there.
Memory ==
    LET written == [k \in DOMAIN loads |-> Written(LinkingOf(loads[k]))]
        writers(a) == {k \in DOMAIN loads : a \in DOMAIN written[k]}
    IN  [a \in UNION {DOMAIN written[k] : k \in DOMAIN loads} |-> written[Max(writers(a))][a]]

AtRest ==
    /\ \A c \in Calls : stage[c] = "done" /\ job[c] \in {"none", "done"}
    /\ inbox = <<>> /\ replies = <<>>

\* A lab loads the object it was given (its shape is known from its source).
LabLoads(c) ==
    /\ AtRest
    /\ outcome[c] \in Compiles
    /\ \E l \in Linkings, name \in Names : Load(l, name)
    /\ UNCHANGED vars

BNext == (Next /\ UNCHANGED kernel) \/ \E c \in Compiles : LabLoads(c)

BSpec == BInit /\ [][BNext]_bvars
BFairSpec == BSpec /\ Fairness

-----------------------------------------------------------------------------
(* Properties.                                                             *)

\* The shape of the state; both lists name every driver that was loaded, once.
BuildTypeOK ==
    /\ TypeOK
    /\ stubs \subseteq DOMAIN Stub
    /\ Len(loads) <= MaxLoads
    /\ \A list \in {loadedModules, loadedDrivers} :
         /\ {list[i].name : i \in DOMAIN list} = {l.name : l \in {l \in ToSet(loads) : l.ok}}
         /\ \A i, j \in DOMAIN list : list[i].name = list[j].name => i = j

\* The bridge keeps every call and gives each its own object, with modules
\* that are complete when they are used.
CallsKept == OwnObject /\ NoCallDropped /\ ModulesComplete

LinkOf(load) == Link(Objs(load.ids), load.base, External(load.base))

\* A driver nothing was loaded over since: later calls, the ones that fail
\* included, left what it wrote.
Live(i) ==
    LET written == [k \in DOMAIN loads |-> Written(LinkingOf(loads[k]))] IN
    /\ loads[i].ok
    /\ \A j \in (i + 1)..Len(loads) : \A a \in DOMAIN written[i] \cap DOMAIN written[j] :
         written[j][a] = written[i][a]

Holds(mem, a, content) == a \in DOMAIN mem /\ mem[a] = content

\* A section's copy lies at an address: the cells that are in no field.
CopyAt(mem, l, o, s, at) ==
    LET sec == Section(l, o, s)
        inField(i) == \E rel \in ToSet(sec.relocs) : i \in Field(rel)
    IN  \A i \in 0..(Size(sec) - 1) : inField(i) \/ Holds(mem, at + i, Cell(o, sec, i))

\* Where a symbol of a section is, in the copies of the section in the image.
InCopies(mem, l, d) ==
    {at + SymbolAt(l, d).value : at \in
        {at \in l.base..(l.base + ImageSize(l)) : CopyAt(mem, l, d[1], SymbolAt(l, d).section, at)}}

\* The addresses a symbol <<object, slot>> may stand for.
AddressesOf(mem, l, d) ==
    LET name == SymbolAt(l, d).name IN
    IF SymbolAt(l, d).section > 0 THEN InCopies(mem, l, d)
    ELSE IF Definitions(l, name) # {} THEN UNION {InCopies(mem, l, e) : e \in Definitions(l, name)}
    ELSE IF name = DataExport THEN {a \in {l.base - SlotGap} : Holds(mem, a, SystemPointer)}
    ELSE {Thunk[n] : n \in DOMAIN Thunk \cap {name}} \cup {Stub[n] : n \in stubs \cap {name}}

\* Whether a field stands for an address, by its relocation type.
Means(mem, field, type, a) ==
    CASE type = "REL32" -> Holds(mem, field, Content("rel", a - (field + 1), 0))
      [] type = "ABS" -> /\ Holds(mem, field, Content("low", a % Span, 0))
                         /\ Holds(mem, field + 1, Content("high", a \div Span, 0))
      [] type = "ADDR32" -> Holds(mem, field, Content("low", a % Span, 0))
      [] OTHER -> TRUE

\* The copy of a section at an address has its own cells unchanged, and each of
\* its fields stands for its symbol.
CopyIsSound(mem, l, o, s, at) ==
    /\ CopyAt(mem, l, o, s, at)
    /\ \A rel \in ToSet(Section(l, o, s).relocs) : \E a \in AddressesOf(mem, l, <<o, rel.sym>>) :
         Means(mem, at + rel.va, rel.type, a)

\* Every copy is where the relocation pass looks for it, and sound.
CopiesAreSound(mem, l) ==
    \A o \in DOMAIN l.objs : \A s \in DOMAIN l.objs[o].sections :
        Kept(l, o, s) =>
            CopyIsSound(mem, l, o, s, l.base + l.rva[Section(l, o, s).name] + Tracked(l, o, s))

\* Only the first chunk of each output section has relocations.
FieldsLead(l) ==
    \A o \in DOMAIN l.objs : \A s \in DOMAIN l.objs[o].sections :
        Kept(l, o, s) /\ Section(l, o, s).relocs # <<>> => Tracked(l, o, s) = 0

\* The entry point is a definition of DriverEntry, in a copy of its section.
EntersDriverEntry(mem, l) ==
    LET definitions == Definitions(l, "DriverEntry") IN
    definitions # {} =>
        \E d \in definitions : l.base + EntryRva(l) \in InCopies(mem, l, d)

\* A driver that was loaded is in memory as its sources say: both layout passes
\* agree, every field leads to the symbol it names and DriverEntry is entered,
\* as long as relocations are in leading chunks only.
DriversAreLinked ==
    \A i \in DOMAIN loads : Live(i) /\ FieldsLead(LinkOf(loads[i])) =>
        CopiesAreSound(Memory, LinkOf(loads[i])) /\ EntersDriverEntry(Memory, LinkOf(loads[i]))

\* linkdriver.mjs: "each object's section content was copied into the bucket;
\* we must locate where each object's copy landed".  Every copy is relocated.
CopiesAreLinked ==
    \A i \in DOMAIN loads : Live(i) => CopiesAreSound(Memory, LinkOf(loads[i]))
=============================================================================

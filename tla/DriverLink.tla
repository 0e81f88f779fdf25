------------------------------ MODULE DriverLink ------------------------------
(***************************************************************************)
(* The driver linker of packages/compiler-worker: coff.mjs (parseCoff,     *)
(* linkSections) and linkdriver.mjs (linkDriver), as operators: linking is *)
(* one synchronous call.                                                   *)
(*                                                                         *)
(* A cell is four bytes.  An object is [machine, sections, table]: a       *)
(* section is [name, raw, vsize, ptr, relocs], its content the raw cells   *)
(* of the file from ptr on; the symbol table is a sequence of 18-byte      *)
(* slots, of which a symbol takes 1 + aux.  Of a cell the model keeps the  *)
(* object and the file position it was copied from.                        *)
(***************************************************************************)
EXTENDS Integers, Sequences, FiniteSets, SequencesExt

CONSTANTS PageSize,   \* cells of a page
          Alignment,  \* cells of the 16-byte alignment of a chunk
          Reach,      \* cells a signed 32-bit displacement spans
          Span        \* cells a 32-bit address spans

ASSUME LinkAssumption ==
    {PageSize, Alignment, Reach, Span} \subseteq Nat \ {0}

Order == <<".text", ".rdata", ".data", ".bss">>
OutNames == ToSet(Order)
NoAddress == -1

Up(n, unit) == ((n + unit - 1) \div unit) * unit

-----------------------------------------------------------------------------
(* coff.mjs: parseCoff.                                                    *)

\* The slots a symbol starts at: each is followed by its auxiliary slots.
Primary(table) ==
    LET walk[k \in 1..(Len(table) + 1)] ==
            IF k = 1 THEN 1
            ELSE IF walk[k - 1] \in DOMAIN table
            THEN walk[k - 1] + table[walk[k - 1]].aux + 1
            ELSE walk[k - 1]
    IN  {walk[k] : k \in DOMAIN walk} \cap DOMAIN table

Content(kind, a, b) == [kind |-> kind, a |-> a, b |-> b]
Zero == Content("zero", 0, 0)

\* A section without raw data is zero filled, another one is a slice of the
\* file, also where it has no file position.
Size(sec) == IF sec.raw > 0 THEN sec.raw ELSE sec.vsize
Cell(o, sec, i) == IF sec.raw > 0 THEN Content("file", o, sec.ptr + i) ELSE Zero

-----------------------------------------------------------------------------
(* coff.mjs: linkSections.                                                 *)

\* What each section of each object contributes, in the order of the passes.
InOrder(parts) == FlattenSeq([o \in DOMAIN parts |-> FlattenSeq(parts[o])])

\* The sections of one name, object by object; other names are dropped.
Chunks(objs, name) ==
    InOrder([o \in DOMAIN objs |-> [s \in DOMAIN objs[o].sections |->
                IF objs[o].sections[s].name = name THEN <<<<o, s>>>> ELSE <<>>]])

SectionOf(objs, c) == objs[c[1]].sections[c[2]]

\* Mutant of Starts: chunks follow each other unaligned.
StartsPacked(objs, chunks) ==
    LET start[k \in DOMAIN chunks] ==
            IF k = 1 THEN 0 ELSE start[k - 1] + Size(SectionOf(objs, chunks[k - 1]))
    IN  [k \in DOMAIN chunks |-> start[k]]

\* secBase: where each chunk starts in its output section.
Starts(objs, chunks) ==
    LET start[k \in DOMAIN chunks] ==
            IF k = 1 THEN 0
            ELSE Up(start[k - 1] + Size(SectionOf(objs, chunks[k - 1])), Alignment)
    IN  [k \in DOMAIN chunks |-> start[k]]

\* The output sections: their chunks and where each starts, and the slots of
\* each object's symbols.
LinkSections(objs) ==
    [chunks |-> [name \in OutNames |-> Chunks(objs, name)],
     starts |-> [name \in OutNames |-> Starts(objs, Chunks(objs, name))],
     symbols |-> [o \in DOMAIN objs |-> Primary(objs[o].table)]]

Total(objs, chunks, starts) ==
    IF chunks = <<>> THEN 0 ELSE Last(starts) + Size(SectionOf(objs, Last(chunks)))

-----------------------------------------------------------------------------
(* linkdriver.mjs: linkDriver.  A link is the record [objs, base, external *)
(* (what the resolver answers), m (LinkSections), size, rva].              *)

\* The first section starts after the header page, each on its own pages; a
\* name no object has takes no room.
Rva(size, name) ==
    LET at[k \in DOMAIN Order] ==
            IF k = 1 THEN PageSize ELSE at[k - 1] + Up(size[Order[k - 1]], PageSize)
    IN  at[CHOOSE k \in DOMAIN Order : Order[k] = name]

Placed(objs, base, external, m, size) ==
    [objs |-> objs, base |-> base, external |-> external, m |-> m, size |-> size,
     rva |-> [name \in OutNames |-> Rva(size, name)]]

Sized(objs, base, external, m) ==
    Placed(objs, base, external, m,
           [name \in OutNames |-> Total(objs, m.chunks[name], m.starts[name])])

Link(objs, base, external) == Sized(objs, base, external, LinkSections(objs))

Section(l, o, s) == l.objs[o].sections[s]
Kept(l, o, s) == s \in DOMAIN l.objs[o].sections /\ Section(l, o, s).name \in OutNames

SymbolAt(l, d) == l.objs[d[1]].table[d[2]]

\* The external definitions <<object, slot>> of a name in a section that is
\* kept.
Definitions(l, name) ==
    {d \in UNION {{o} \X l.m.symbols[o] : o \in DOMAIN l.objs} :
        LET sym == SymbolAt(l, d) IN
        /\ sym.name = name /\ sym.section > 0 /\ sym.class = "external" /\ sym.aux = 0
        /\ Kept(l, d[1], sym.section)}

\* The map of symbols keeps the last definition set.
LastOf(definitions) ==
    CHOOSE d \in definitions :
        \A e \in definitions : e[1] < d[1] \/ (e[1] = d[1] /\ e[2] <= d[2])

\* The RVA of an exported name.
SymbolRva(l, d) ==
    LET sym == SymbolAt(l, d)
        sec == Section(l, d[1], sym.section).name
        k == CHOOSE k \in DOMAIN l.m.chunks[sec] : l.m.chunks[sec][k] = <<d[1], sym.section>>
    IN  l.rva[sec] + l.m.starts[sec][k] + sym.value

\* symAddr: a symbol of the link, or what the caller's resolver answers.
SymAddr(l, name) ==
    IF Definitions(l, name) # {} THEN l.base + SymbolRva(l, LastOf(Definitions(l, name)))
    ELSE IF name \in DOMAIN l.external THEN l.external[name] ELSE NoAddress

\* track: the second pass over the chunks, which must find every copy where
\* linkSections put it.
Retraced(objs, chunks) ==
    LET end[k \in 0..Len(chunks)] ==
            IF k = 0 THEN 0 ELSE Up(end[k - 1], Alignment) + Size(SectionOf(objs, chunks[k]))
    IN  [k \in DOMAIN chunks |-> Up(end[k - 1], Alignment)]

Tracked(l, o, s) ==
    LET chunks == l.m.chunks[Section(l, o, s).name] IN
    Retraced(l.objs, chunks)[CHOOSE k \in DOMAIN chunks : chunks[k] = <<o, s>>]

\* Where a relocation points; NoAddress when nothing is known of its symbol.
Target(l, o, rel) ==
    LET sym == l.objs[o].table[rel.sym] IN
    IF rel.sym \notin l.m.symbols[o] THEN NoAddress
    ELSE IF sym.section > 0
    THEN l.base + l.rva[Section(l, o, sym.section).name] + Tracked(l, o, sym.section) + sym.value
    ELSE SymAddr(l, sym.name)

\* The relocations in the order they are applied, <<object, section, record>>.
Relocations(l) ==
    LET ofSection(o, s) ==
            IF Kept(l, o, s) THEN [r \in DOMAIN Section(l, o, s).relocs |->
                                     <<o, s, Section(l, o, s).relocs[r]>>]
            ELSE <<>>
    IN  InOrder([o \in DOMAIN l.objs |->
            [s \in DOMAIN l.objs[o].sections |-> ofSection(o, s)]])

Writes(cells) == [does |-> "write", cells |-> cells]
Does(what) == [does |-> what, cells |-> <<>>]

\* REL32: from the end of the field; a target out of reach throws.
Rel32(place, target) ==
    IF target - (place + 1) \in (-Reach)..(Reach - 1)
    THEN Writes(<<Content("rel", target - (place + 1), 0)>>) ELSE Does("throw")

\* What a field becomes, by the type of its relocation.
Encoded(type, place, target) ==
    CASE target = NoAddress -> Does("unresolved")
      [] target # NoAddress /\ type = "REL32" -> Rel32(place, target)
      [] target # NoAddress /\ type = "ABS" ->
           Writes(<<Content("low", target % Span, 0), Content("high", target \div Span, 0)>>)
      [] target # NoAddress /\ type = "ADDR32" -> Writes(<<Content("low", target % Span, 0)>>)
      [] target # NoAddress /\ type = "SECREL" -> Does("skip")
      [] OTHER -> Does("throw")

\* A symbol of a section that is dropped ends in a type error.
IntoDropped(l, o, rel) ==
    /\ rel.sym \in l.m.symbols[o]
    /\ l.objs[o].table[rel.sym].section > 0
    /\ ~Kept(l, o, l.objs[o].table[rel.sym].section)

\* One relocation <<object, section, record>>.
Effect(l, x) ==
    IF IntoDropped(l, x[1], x[3]) THEN Does("throw")
    ELSE Encoded(x[3].type, l.base + l.rva[Section(l, x[1], x[2]).name] + x[3].va,
                 Target(l, x[1], x[3]))

\* The output sections as linkSections fills them: zeros between the chunks.
Merged(l, name) ==
    LET chunks == l.m.chunks[name]
        in(k, i) == i - l.m.starts[name][k] \in 0..(Size(SectionOf(l.objs, chunks[k])) - 1)
        cell(k, i) == Cell(chunks[k][1], SectionOf(l.objs, chunks[k]), i - l.m.starts[name][k])
    IN  [i \in 0..(l.size[name] - 1) |->
            IF \E k \in DOMAIN chunks : in(k, i)
            THEN cell(CHOOSE k \in DOMAIN chunks : in(k, i), i) ELSE Zero]

\* After the relocations rels with the given effects.  A field is patched at
\* its offset in the object's own section, whatever offset the copy has; a
\* later patch of the same cell wins.
Patched(l, rels, effects, name) ==
    LET hits(i) == {k \in DOMAIN rels : /\ Section(l, rels[k][1], rels[k][2]).name = name
                                        /\ i - rels[k][3].va + 1 \in DOMAIN effects[k].cells}
        last(i) == CHOOSE k \in hits(i) : \A j \in hits(i) : j <= k
        merged == Merged(l, name)
    IN  [i \in DOMAIN merged |->
            IF hits(i) = {} THEN merged[i]
            ELSE effects[last(i)].cells[i - rels[last(i)][3].va + 1]]

OnlyX64(objs) == \A o \in DOMAIN objs : objs[o].machine = "x64"

\* The link succeeds: the objects parse, no relocation throws and in the end
\* none was left unresolved.
Accepts(objs, effects) ==
    OnlyX64(objs) /\ \A k \in DOMAIN effects : effects[k].does \notin {"throw", "unresolved"}

\* The undefined symbols the caller's resolver has been asked for when the
\* link ends or throws.
Asked(l, rels, effects) ==
    LET seen == {k \in DOMAIN rels : \A j \in 1..(k - 1) : effects[j].does # "throw"}
        sym(k) == l.objs[rels[k][1]].table[rels[k][3].sym]
    IN  {sym(k).name : k \in {k \in seen : /\ OnlyX64(l.objs)
                                           /\ rels[k][3].sym \in l.m.symbols[rels[k][1]]
                                           /\ sym(k).section = 0
                                           /\ Definitions(l, sym(k).name) = {}}}

\* DriverEntry, else the start of .text.
EntryRva(l) ==
    IF Definitions(l, "DriverEntry") = {} THEN l.rva[".text"]
    ELSE SymbolRva(l, LastOf(Definitions(l, "DriverEntry")))

\* The image as mapPe lays it out: the header page, then each section.
ImageSize(l) == Up(l.rva[".bss"] + l.size[".bss"], PageSize)

Image(l, cells) ==
    LET in(name, i) == i - l.rva[name] \in DOMAIN cells[name] IN
    [i \in 0..(ImageSize(l) - 1) |->
        IF \E name \in OutNames : in(name, i)
        THEN LET name == CHOOSE name \in OutNames : in(name, i) IN cells[name][i - l.rva[name]]
        ELSE Zero]

\* What the caller of linkDriver gets, and what its resolver was asked.
Outcome(l, rels, effects) ==
    [ok |-> Accepts(l.objs, effects), asked |-> Asked(l, rels, effects),
     image |-> IF Accepts(l.objs, effects)
               THEN Image(l, [name \in OutNames |-> Patched(l, rels, effects, name)])
               ELSE <<>>]

Effects(l, rels) == [k \in DOMAIN rels |-> Effect(l, rels[k])]
LinkDriver(l) == Outcome(l, Relocations(l), Effects(l, Relocations(l)))
=============================================================================

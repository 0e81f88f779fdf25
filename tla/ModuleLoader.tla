---------------------------- MODULE ModuleLoader ----------------------------
(***************************************************************************)
(* The module loader of the PE harness, pe-runner/src/loader.mjs: DLL      *)
(* images from opts.systemRoot are mapped one above the other, their       *)
(* imports bound to the exports of what is loaded already and to modelled  *)
(* thunks otherwise, and the PEB's loader list rebuilt.  The sample itself *)
(* is registered with the region it was mapped to.  Addresses of images    *)
(* are in pages; an export is the pair of its module and its name, and a   *)
(* thunk the pair of Thunk and the name.                                   *)
(* Writing the list's entries, names and file paths is left out, and so is *)
(* finding a module by its name without the extension.                     *)
(***************************************************************************)
EXTENDS Naturals, SequencesExt, FiniteSetsExt

CONSTANTS Dlls,      \* names LoadLibrary is called with
          Image,     \* DLL -> its image: [size, imports, exports, broken], for those there are
          Main,      \* the sample itself
          Thunk,     \* stands for the modelled APIs
          MaxLoads   \* bound: images mapped in one run

(* An image's imports are a set of pairs <<dll, name>>; its exports map a   *)
(* name to [fwd |-> FALSE], or to [fwd |-> TRUE, dll, name, bare], bare if   *)
(* the forwarder names the module without its extension; broken is "no", or  *)
(* where the image throws: "parse" or "map".                                 *)
ASSUME LoaderAssumption ==
    /\ DOMAIN Image \subseteq Dlls
    /\ {Main, Thunk, "none", "endless"} \cap Dlls = {}
    /\ MaxLoads \in Nat
    /\ \A d \in DOMAIN Image :
          /\ Image[d].size \in Nat
          /\ \A imp \in Image[d].imports : imp = <<imp[1], imp[2]>> /\ imp[2] \in STRING
          /\ \A n \in DOMAIN Image[d].exports :
                LET e == Image[d].exports[n] IN
                n \in STRING /\ e.fwd \in BOOLEAN /\ (e.fwd => e.name \in STRING)
    /\ IsFiniteSet(UNION {{d} \X DOMAIN Image[d].exports : d \in DOMAIN Image})

VARIABLES main,       \* the sample's own record: the region it was mapped to, [base, size]
          modules,    \* what is loaded, in order: [key, base, size, bound]
          mapped,     \* every region mapped for a DLL: [base, size]
          nextBase,
          synthetic,  \* handles given for modules there is no image of
          ldr         \* the PEB's list, as last rebuilt

loaderVars == <<main, modules, mapped, nextBase, synthetic, ldr>>

\* MODULE_BASE_START, 0x180000000, in pages.  It is also what linkers give an x64 DLL.
ModuleBaseStart == 1572864

\* A new world's loader, the sample registered as its first module in the region it is in.
LoaderInit(region) ==
    /\ main = region
    /\ modules = <<>> /\ mapped = <<>> /\ nextBase = ModuleBaseStart /\ synthetic = 0
    /\ ldr = <<Main>>

LoaderRestart ==
    /\ UNCHANGED main
    /\ modules' = <<>> /\ mapped' = <<>> /\ nextBase' = ModuleBaseStart /\ synthetic' = 0
    /\ ldr' = <<Main>>

Keys == {modules[k].key : k \in DOMAIN modules}
Exports(d) == Image[d].exports

-----------------------------------------------------------------------------
(* Resolving.                                                              *)

\* Where a forwarder is looked for: modules.get with the part before the last dot.  The
\* loaded modules go by their whole file names, so a bare name is not found.
Dependency(e) == IF e.bare THEN {} ELSE {e.dll} \cap Keys

Nowhere == <<"none", "none">>
Endless == <<"endless", "endless">>

\* One step of resolveExport, the chains with one forwarder less being known.
Follow(chain, at, n) ==
    IF n \notin DOMAIN Exports(at) THEN Nowhere
    ELSE LET e == Exports(at)[n] IN
         IF ~e.fwd THEN <<at, n>>
         ELSE IF Dependency(e) = {} THEN Nowhere
         ELSE chain[<<e.dll, e.name>>]

\* More steps than there are exports: the chain comes back to itself.
Fuel == 1 + Cardinality(UNION {{d} \X DOMAIN Exports(d) : d \in DOMAIN Image})

\* What a forwarder can name of the images.
Links == (DOMAIN Image) \X STRING

\* resolveExport, within k steps: the code the export leads to, or Nowhere.  A chain that
\* comes back to itself exhausts the stack, and throws.
Chain[k \in 0..Fuel] ==
    [x \in Links |-> IF k = 0 THEN Endless ELSE Follow(Chain[k - 1], x[1], x[2])]

ResolveExport(d, name) == Chain[Fuel][<<d, name>>]

\* resolveExternal against what is loaded, and resolveImport's thunk otherwise.
CombinedResolve(imp) ==
    LET real == IF imp[1] \in Keys THEN ResolveExport(imp[1], imp[2]) ELSE Nowhere
    IN  IF real = Nowhere THEN <<Thunk, imp[2]>> ELSE real

\* GetProcAddress(h, name), h being an address: of the DLL mapped there, which comes before the
\* sample, and whatever has no such export has a thunk; the sample and the synthetic handles
\* have no exports here.  An ordinal is looked for under a name no export has, so it is a
\* thunk's.
ProcAddress(h, name, byOrdinal) ==
    LET at == {m \in ToSet(modules) : m.base = h}
        real == IF at = {} \/ byOrdinal THEN Nowhere
                ELSE ResolveExport((CHOOSE m \in at : TRUE).key, name)
    IN  CASE real = Nowhere -> <<Thunk, name>>
          [] real = Endless -> Nowhere
          [] OTHER -> real

-----------------------------------------------------------------------------
(* Loading.                                                                *)

\* (next + 0xfffff) & ~0xffff: 0xfffff bytes further on, rounded down to 64 KB.  An address
\* that is aligned already moves by 0xf0000, that of the first image too.
Aligned(b) == 16 * ((b + 255) \div 16)

\* The address the next image goes to is looked for from here: a MB above the last one.
NextBase(base, size) == base + size + 256

\* loadImage of an image not loaded yet.  Nothing is asked about what is mapped already, the
\* sample's region included.  The region is mapped and the next base advanced
\* before the image is mapped into it, so an image that throws then leaves them behind.
LoadImage(d) ==
    LET i == Image[d]
        base == Aligned(nextBase)
        bound == [imp \in i.imports |-> CombinedResolve(imp)]
        throws == i.broken = "map" \/ \E imp \in i.imports : bound[imp] = Endless
    IN  /\ Len(mapped) < MaxLoads
        /\ \/ i.broken = "parse" /\ UNCHANGED <<modules, mapped, nextBase, ldr>>
           \/ /\ i.broken # "parse"
              /\ nextBase' = NextBase(base, i.size)
              /\ mapped' = Append(mapped, [base |-> base, size |-> i.size])
              /\ IF throws THEN UNCHANGED <<modules, ldr>>
                 ELSE /\ modules' = Append(modules, [key |-> d, base |-> base, size |-> i.size,
                                                     bound |-> bound])
                      /\ ldr' = Append(ldr, d)
        /\ UNCHANGED <<main, synthetic>>

\* Mutant of DoLoad: what is loaded already is mapped again.
DoLoadAgain(d) ==
    \/ d \in DOMAIN Image /\ LoadImage(d)
    \/ d \notin DOMAIN Image /\ UNCHANGED loaderVars

\* doLoad: what is loaded already is found again; without an image the caller gets a handle
\* of its own.  The API model swallows what loadImage throws.
DoLoad(d) ==
    \/ d \in Keys /\ UNCHANGED loaderVars
    \/ d \in DOMAIN Image \ Keys /\ LoadImage(d)
    \/ /\ d \notin DOMAIN Image
       /\ synthetic < MaxLoads
       /\ synthetic' = synthetic + 1
       /\ UNCHANGED <<main, modules, mapped, nextBase, ldr>>

-----------------------------------------------------------------------------
(* Properties.                                                             *)

LoaderTypeOK ==
    /\ \A k \in DOMAIN modules : modules[k].key \in DOMAIN Image
    /\ \A j, k \in DOMAIN modules : j # k => modules[j].key # modules[k].key
    /\ nextBase \in Nat /\ synthetic \in 0..MaxLoads
    /\ ldr = <<Main>> \o [k \in DOMAIN modules |-> modules[k].key]

\* Where the first image goes: 0x1800F0000.
FirstBase == Aligned(ModuleBaseStart)

\* No two images share memory, also when an image is loaded again after it failed, and what
\* a failed load leaves behind is no module's.  Nor do the sample and an image, if the sample
\* ends below the first image's address; the loader itself does not see to that.
ModulesApart ==
    /\ \A j, k \in DOMAIN mapped :
          j < k => mapped[j].base + mapped[j].size <= mapped[k].base
    /\ \A k \in DOMAIN modules :
          [base |-> modules[k].base, size |-> modules[k].size] \in ToSet(mapped)
    /\ main.base + main.size <= FirstBase =>
          \A k \in DOMAIN mapped : main.base + main.size <= mapped[k].base

\* No image is mapped over the sample.  It does not hold: mm.map refuses nothing, and a DLL
\* sample at the default base, MODULE_BASE_START, that is larger than 0xf0000 bytes has the
\* first image mapped into it.  No run checks it.
SampleStaysApart ==
    \A k \in DOMAIN mapped :
        \/ main.base + main.size <= mapped[k].base
        \/ mapped[k].base + mapped[k].size <= main.base

\* loader.mjs, "binds its imports against already-loaded modules first ... and the modeled
\* Win32 thunks otherwise": an import leads into code of a module loaded before its own, or
\* to the thunk of its name; never into a module whose load failed, and never to the thunk
\* when the module it names was loaded and exports the code itself.
ImportsBound ==
    \A k \in DOMAIN modules : \A imp \in DOMAIN modules[k].bound :
        LET to == modules[k].bound[imp]
            before == {modules[j].key : j \in 1..(k - 1)}
            exported == imp[1] \in before /\ imp[2] \in DOMAIN Exports(imp[1])
        IN  /\ to[1] \in before \cup {Thunk}
            /\ to[1] = Thunk => to[2] = imp[2]
            /\ to[1] # Thunk => ~Exports(to[1])[to[2]].fwd
            /\ exported /\ ~Exports(imp[1])[imp[2]].fwd => to = imp

\* loader.mjs, "(real EAT walk, forwarder chains)": when the module an export forwards to is
\* loaded and exports the code, that is what the export's address is.
ForwardersResolve ==
    \A m \in ToSet(modules) : \A n \in DOMAIN Exports(m.key) :
        LET e == Exports(m.key)[n] IN
        e.fwd /\ e.dll \in Keys /\ e.name \in DOMAIN Exports(e.dll) /\ ~Exports(e.dll)[e.name].fwd
            => ProcAddress(m.base, n, FALSE) = <<e.dll, e.name>>
=============================================================================

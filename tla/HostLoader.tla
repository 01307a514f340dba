----------------------------- MODULE HostLoader -----------------------------
(***************************************************************************)
(* How em16 loads Oberon modules before it starts (em16/src/main.cpp):     *)
(* loadMod reads one .816 file, loads the modules it imports first, by     *)
(* calling itself, places code and variables behind what is there, binds   *)
(* the references of the code to the modules already loaded, and enters    *)
(* the module into the list.  main loads the files of its command line in  *)
(* turn, then runs the bodies of the modules, and the traps of NEW take    *)
(* their memory behind the variables.                                      *)
(*                                                                         *)
(* A file is what loadMod takes from it: imports, sizes, exports and       *)
(* references, and how much of it is there.  A loaded module is a record   *)
(* in loaded, the newest first, as in the code.  A file is named as the    *)
(* module in it.                                                           *)
(***************************************************************************)
EXTENDS Integers, SequencesExt

CONSTANTS
    File,          \* the files that can be found, by module name
    CommandLines,  \* what main may be started with, sequences of names
    BankSize,      \* 65536; code begins at the start of bank 1
    VarBase,       \* MODULE_VAR_BASE, where variables begin in bank 0
    MaxEntries,    \* the entries mod_entries has room for, 64
    MaxImports,    \* MAX_IMPORTS, 16: import_map has the imports 1 to 15
    MaxExports,    \* MAX_EXPORTS, 64: a module keeps its exports 1 to 63
    Wild,          \* what a field may be given that is read past the end of import_map
    HeapLimit,     \* heap_limit, the last address of the heap
    Requests,      \* the sizes programs ask NEW for
    MaxBlocks      \* the blocks a program asks for at most (a bound of the model)

Names == DOMAIN File
Kinds == {"JSR", "JSL", "LDA", "PER", "vtable", "ancestor"}

\* imports: names in the order of their numbers mno, from 1; refs: [kind, at,
\* mno, no], where no is an exno of module mno, or a code offset when mno is 0;
\* read: how far the file can be read, "all", or up to the relocation table,
\* which is "bad", or less ("cut").
ASSUME FileAssumption ==
    /\ BankSize \in Nat \ {0} /\ VarBase \in Nat /\ MaxEntries \in Nat /\ HeapLimit \in Nat
    /\ MaxImports \in Nat \ {0} /\ MaxExports \in Nat \ {0} /\ Wild \subseteq Nat /\ Wild # {}
    /\ Requests \subseteq 0 .. BankSize - 1 /\ MaxBlocks \in Nat
    /\ \A n \in Names :
        /\ File[n].imports \in Seq(STRING) /\ File[n].exports \in Seq(Nat)
        /\ File[n].code \in Nat /\ File[n].data \in Nat
        /\ File[n].read \in {"all", "bad", "cut"}
        /\ \A r \in File[n].refs :
               r.kind \in Kinds /\ r.mno \in 0 .. Len(File[n].imports) /\ r.no \in Nat

VARIABLES
    args,          \* the files of the command line still to be loaded
    calls,         \* the calls of loadMod under way, the outermost first
    loaded,        \* loaded_modules
    nextCode, nextVar, \* current_load_address, current_var_address
    entries,       \* mod_entries
    manifest,      \* the boot manifest at $0D00, which the OS reads its modules from
    running, ran,  \* whether the modules are being run, and how many have been
    blocks         \* the blocks NEW has returned, the oldest first

vars == <<args, calls, loaded, nextCode, nextVar, entries, manifest, running, ran, blocks>>

None == [name |-> "none"]
\* The first n elements of s: what a table of n has room for.
Upto(s, n) == SubSeq(s, 1, IF Len(s) < n THEN Len(s) ELSE n)
CodeStart == BankSize                     \* MODULE_BANK << 16
\* The newest module of a name in the list.
Find(list, n) ==
    LET k == SelectInSeq(list, LAMBDA m : m.name = n) IN IF k = 0 THEN None ELSE list[k]
find_module_by_name(n) == Find(loaded, n)

Init ==
    /\ args \in CommandLines /\ calls = <<>> /\ loaded = <<>>
    /\ nextCode = 0 /\ nextVar = VarBase
    /\ entries = <<>> /\ manifest = <<>> /\ running = FALSE /\ ran = 0 /\ blocks = <<>>

\* A call of loadMod: the module, the map of the imports resolved so far, and
\* whether one is missing.
Call(n) == [name |-> n, map |-> <<>>, missing |-> FALSE]
Caller == calls[Len(calls)]
Resolved(call, m) == [call EXCEPT !.map = Append(@, m), !.missing = @ \/ m = None]

\* Of the imports in a file, those that import_map has room for.  The others are
\* only counted: neither looked up nor loaded nor missed.
LookedUp(n) == Upto(File[n].imports, MaxImports - 1)
\* Of its exports, those the module keeps.
KeptExports(n) == Upto(File[n].exports, MaxExports - 1)

-----------------------------------------------------------------------------
(* References.                                                             *)

\* The bytes a field has room for: an address in a bank, or a whole one.
InBank(addr) == addr % BankSize

\* The value a reference gets: an address, its low word for the kinds of two
\* bytes.  An export the target does not have, or has not kept, leaves the field
\* alone.
Exports(m, no) == no \in 1 .. Len(m.exports)
ExportOf(m, no, otherwise) == IF m # None /\ Exports(m, no) THEN m.base + m.exports[no] ELSE otherwise

\* A mutant: the imports are taken for numbered from nought.
TargetOffByOne(r, map) == IF r.mno < 2 THEN None ELSE map[r.mno - 1]
Target(r, map) == IF r.mno = 0 THEN None ELSE map[r.mno]

\* apply_relocation: the references of the code, by the instruction they are in.
BoundInCode(r, base, var, to) ==
    IF r.kind = "JSR" THEN InBank(base + r.no)
    ELSE IF r.kind = "LDA" THEN (IF r.mno = 0 THEN var ELSE IF to # None THEN to.var ELSE 0)
    ELSE IF r.kind = "PER" THEN InBank(ExportOf(to, r.no, r.no))
    ELSE IF to = None THEN CodeStart + base + InBank(r.no)
    ELSE IF Exports(to, r.no) THEN CodeStart + to.base + to.exports[r.no] ELSE r.no

\* The references of type descriptors: to the ancestors' and to the methods.
BoundInTables(r, base, var, to) ==
    IF r.kind = "ancestor" THEN (IF r.mno = 0 THEN var ELSE IF to # None THEN to.var ELSE 0)
    ELSE InBank(IF r.mno = 0 THEN base + r.no ELSE ExportOf(to, r.no, r.no))

\* A reference to an import that is counted but not in import_map: the array is read
\* past its end, and the field gets whatever comes of it.  (The program may also
\* crash there; a behaviour may stop in any state.)
Stray(r) == r.mno >= MaxImports /\ r.kind # "JSR"
Strays(n) == {r \in File[n].refs : Stray(r)}

InTables == {"vtable", "ancestor"}
Bound(r, base, var, map) ==
    LET to == Target(r, map)
    IN  IF r.kind \in InTables THEN BoundInTables(r, base, var, to)
                               ELSE BoundInCode(r, base, var, to)

-----------------------------------------------------------------------------
(* loadMod.                                                                *)

\* A mutant: an importer has its place in the list before its imports.
ReturnFirst(entry) ==
    LET outer == Front(calls)
        room == Len(entries) < MaxEntries
    IN  /\ entries' = IF room /\ (outer = <<>> \/ entry # None) THEN <<entry>> \o entries
                      ELSE entries
        /\ calls' = IF outer = <<>> THEN <<>>
                    ELSE [outer EXCEPT ![Len(outer)] = Resolved(@, Find(loaded', Caller.name))]
\* A call that ends with an entry, the module loaded, or with 0 (None) returns to
\* main, which keeps the entry whatever it is, or to the importer, which keeps a
\* real one and looks its import up again.
Return(entry) ==
    LET outer == Front(calls)
        room == Len(entries) < MaxEntries
    IN  /\ entries' = IF room /\ (outer = <<>> \/ entry # None) THEN Append(entries, entry)
                      ELSE entries
        /\ calls' = IF outer = <<>> THEN <<>>
                    ELSE [outer EXCEPT ![Len(outer)] = Resolved(@, Find(loaded', Caller.name))]

\* main calls loadMod for the next file of its command line.
LoadNext ==
    /\ ~running /\ calls = <<>> /\ args # <<>>
    /\ args' = Tail(args)
    /\ IF Head(args) \in Names
       THEN calls' = <<Call(Head(args))>> /\ UNCHANGED entries
       ELSE /\ entries' = IF Len(entries) < MaxEntries THEN Append(entries, None) ELSE entries
            /\ UNCHANGED calls
    /\ UNCHANGED <<loaded, nextCode, nextVar, manifest, running, ran, blocks>>

\* The next import: in the list, or in a file, or missing.
Import ==
    /\ calls # <<>> /\ Len(Caller.map) < Len(LookedUp(Caller.name))
    /\ LET n == LookedUp(Caller.name)[Len(Caller.map) + 1]
           m == find_module_by_name(n)
       IN  calls' = IF m = None /\ n \in Names THEN Append(calls, Call(n))
                    ELSE [calls EXCEPT ![Len(calls)] = Resolved(Caller, m)]
    /\ UNCHANGED <<args, loaded, nextCode, nextVar, entries, manifest, running, ran, blocks>>

ImportsDone == calls # <<>> /\ Len(Caller.map) = Len(LookedUp(Caller.name))

\* An import is missing or the file ends too early: nothing is entered.
GiveUp ==
    /\ ImportsDone
    /\ Caller.missing \/ File[Caller.name].read = "cut"
    /\ loaded' = loaded /\ Return(None)
    /\ UNCHANGED <<args, nextCode, nextVar, manifest, running, ran, blocks>>

\* The sections of the file go behind what is there: the code in its banks; the
\* variables, strings and descriptors in bank 0.  wild is what the stray references
\* get.
Laid(call, wild) ==
    LET f == File[call.name]
    IN  [name |-> call.name, base |-> nextCode, var |-> nextVar,
         code |-> f.code, data |-> f.data, exports |-> KeptExports(call.name), whole |-> f.read = "all",
         map |-> [k \in DOMAIN call.map |->
                     [name |-> call.map[k].name, base |-> call.map[k].base, var |-> call.map[k].var]],
         refs |-> {[r |-> r, to |-> IF Stray(r) THEN wild[r]
                                    ELSE Bound(r, nextCode, nextVar, call.map)] :
                      r \in {s \in f.refs : f.read = "all" \/ s.kind \in InTables}}]

\* The module is placed, entered and bound.  The addresses for the next one move
\* on only when the relocation table has been read.
Place ==
    /\ ImportsDone /\ ~Caller.missing /\ File[Caller.name].read # "cut"
    /\ \E wild \in [Strays(Caller.name) -> Wild] :
       LET info == Laid(Caller, wild)
       IN  /\ loaded' = <<info>> \o loaded
           /\ nextCode' = IF info.whole THEN nextCode + info.code ELSE nextCode
           /\ nextVar' = IF info.whole THEN nextVar + info.data ELSE nextVar
           /\ Return([name |-> info.name, base |-> info.base])
    /\ UNCHANGED <<args, manifest, running, ran, blocks>>

-----------------------------------------------------------------------------
(* main, once everything is loaded.                                        *)

\* The boot manifest: the modules in the order they were loaded, from the 64
\* loaded last, and where the next one would go.
Manifest == LET kept == Upto(loaded, MaxEntries)
            IN  [k \in DOMAIN kept |->
                    LET m == Reverse(kept)[k]
                    IN  [name |-> m.name, base |-> m.base, var |-> m.var, exports |-> m.exports]]
Start ==
    /\ ~running /\ calls = <<>> /\ args = <<>>
    /\ running' = TRUE /\ manifest' = Manifest
    /\ UNCHANGED <<args, calls, loaded, nextCode, nextVar, entries, ran, blocks>>

\* run_modules: the next body, unless its file failed to load.
RunNext ==
    /\ running /\ ran < Len(entries)
    /\ ran' = ran + 1
    /\ UNCHANGED <<args, calls, loaded, nextCode, nextVar, entries, manifest, running, blocks>>

\* A mutant: the heap begins where the variables do.
heap_topEarly == IF blocks = <<>> THEN VarBase ELSE Last(blocks).at + Last(blocks).taken
\* heap_alloc, in words: the size is rounded up and kept in sixteen bits.
heap_top == IF blocks = <<>> THEN nextVar ELSE Last(blocks).at + Last(blocks).taken
Rounded(size) == InBank((size + 1) - ((size + 1) % 2))
New(size) ==
    /\ running /\ Len(blocks) < MaxBlocks
    /\ heap_top + Rounded(size) <= HeapLimit
    /\ blocks' = Append(blocks, [at |-> heap_top, size |-> size, taken |-> Rounded(size)])
    /\ UNCHANGED <<args, calls, loaded, nextCode, nextVar, entries, manifest, running, ran>>

Next == LoadNext \/ Import \/ GiveUp \/ Place \/ Start \/ RunNext \/ \E size \in Requests : New(size)

Spec == Init /\ [][Next]_vars

-----------------------------------------------------------------------------
(* What the programs rely on.                                              *)

Overlap(a, n, b, m) == a < b + m /\ b < a + n

\* The modules that were read to the end.
Whole == {k \in DOMAIN loaded : loaded[k].whole}

\* No two modules that were read to the end share a byte of code or of
\* variables, and NEW gives out neither those nor a byte twice, and none beyond
\* its limit (current_load_address, current_var_address, heap_alloc).
AreasApart ==
    /\ \A j, k \in Whole : j # k =>
           /\ ~Overlap(loaded[j].base, loaded[j].code, loaded[k].base, loaded[k].code)
           /\ ~Overlap(loaded[j].var, loaded[j].data, loaded[k].var, loaded[k].data)
    /\ \A j \in DOMAIN blocks :
           /\ blocks[j].at + blocks[j].size <= HeapLimit
           /\ \A k \in Whole : ~Overlap(blocks[j].at, blocks[j].size, loaded[k].var, loaded[k].data)
           /\ \A k \in DOMAIN blocks \ {j} :
                  ~Overlap(blocks[j].at, blocks[j].size, blocks[k].at, blocks[k].size)

\* The place a reference of module m asks for: in itself, or in the module its
\* file calls imports[mno].  A module of that name had been loaded before it.
Meant(m, r) ==
    IF r.mno = 0 THEN {m}
    ELSE {t \in ToSet(loaded) : t.name = File[m.name].imports[r.mno] /\ t # m}
Address(t, m, r) ==
    IF r.kind \in {"LDA", "ancestor"} THEN t.var
    ELSE CodeStart + t.base + (IF r.mno = 0 THEN r.no ELSE File[t.name].exports[r.no])
Shown(kind, addr) == IF kind \in {"JSR", "PER", "vtable"} THEN InBank(addr) ELSE addr

\* The references that loadMod has room for: to the first 15 imports (MAX_IMPORTS)
\* and to the first 63 exports of one (MAX_EXPORTS).
HasRoom(r) ==
    /\ r.mno < MaxImports
    /\ r.mno # 0 /\ r.kind \in {"JSL", "PER", "vtable"} => r.no < MaxExports

\* Every reference of a loaded module that loadMod has room for leads to what its
\* file asks for, whichever modules were loaded in between, whoever loaded them, and
\* however many more imports, exports and references the files have.
ReferencesBind ==
    \A m \in ToSet(loaded) : \A b \in m.refs :
        HasRoom(b.r) => \E t \in Meant(m, b.r) : b.to = Shown(b.r.kind, Address(t, m, b.r))

\* The body of a module runs after those of the modules it is bound to, also when
\* there are more modules than entries; and the OS finds a module in the manifest
\* behind those it is bound to, as long as they fit (run_modules, main).
ImportsComeFirst ==
    \A m \in ToSet(loaded) :
        /\ \A k \in 1 .. ran :
               entries[k] = [name |-> m.name, base |-> m.base] =>
                   \A i \in DOMAIN m.map :
                       \E j \in 1 .. k - 1 :
                           entries[j] = [name |-> m.map[i].name, base |-> m.map[i].base]
        /\ running /\ Len(loaded) <= MaxEntries =>
               \E k \in DOMAIN manifest :
                   /\ manifest[k].name = m.name /\ manifest[k].base = m.base
                   /\ \A i \in DOMAIN m.map :
                          \E j \in 1 .. k - 1 :
                              manifest[j].name = m.map[i].name /\ manifest[j].var = m.map[i].var
=============================================================================

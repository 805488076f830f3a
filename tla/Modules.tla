-------------------------------- MODULE Modules --------------------------------
(***************************************************************************)
(* Loadable modules: the kernel's symbol table (kernel/ksyms.c), the       *)
(* drivers and the modules built into the kernel (drivers/driver.c,        *)
(* drivers/modules.c), the registry of modules (kernel/module.c), the      *)
(* loader of relocatable objects (kernel/module_elf.c), and the order in   *)
(* which kernel_main brings them up.                                       *)
(*                                                                         *)
(* A module file is a record: whether its header is one of a relocatable   *)
(* i386 object, its sections, its relocations, and what module_info says.  *)
(* An address inside a module is relative to where the module was loaded,  *)
(* which is aligned to a page.                                             *)
(***************************************************************************)
EXTENDS Integers, Sequences, FiniteSets, SequencesExt

CONSTANTS MAX_MODULES, MAX_DRIVERS, MAX_KSYMS,
          PADDING,          \* what module_elf_load adds to the size of the sections
          CoreSymbols,      \* names that kernel_main exports, in order
          BuiltIn,          \* names of the modules built into the kernel, in order
          Absent,           \* drivers whose device is missing
          Files             \* module files

Section == [alloc : BOOLEAN, bits : BOOLEAN, inFile : BOOLEAN, size : Nat, align : Nat]

ASSUME ModulesAssumption ==
    /\ {MAX_MODULES, MAX_DRIVERS, MAX_KSYMS} \subseteq Nat \ {0} /\ PADDING \in Nat
    /\ CoreSymbols \in Seq(STRING) /\ BuiltIn \in Seq(STRING)
    /\ Len(BuiltIn) <= MAX_MODULES /\ Len(BuiltIn) <= MAX_DRIVERS
    /\ \A i, j \in DOMAIN BuiltIn : BuiltIn[i] = BuiltIn[j] => i = j
    /\ \A f \in Files : {f.name, f.path} \subseteq STRING /\ f.sections \in Seq(Section)

VARIABLES stage,      \* how far kernel_main has come
          ksyms,      \* names in the symbol table, in order
          drivers,    \* registered drivers, in order
          modules,    \* the registry: [name, dynamic, loaded, file], in order
          held,       \* kind of heap block -> how many are in use
          answer      \* what the last system call or load returned

modVars == <<stage, ksyms, drivers, modules, held, answer>>

Stages == <<"cold", "exported", "heap", "up">>
Kinds == {"buffer", "image", "sections", "struct", "name"}
NoFile == [name |-> ""]

ModulesInit ==
    /\ stage = "cold"
    /\ ksyms = <<>> /\ drivers = <<>> /\ modules = <<>>
    /\ held = [k \in Kinds |-> 0]
    /\ answer = 0

-----------------------------------------------------------------------------
(* Boot.                                                                   *)

HeapReady == stage \in {"heap", "up"}

\* ksym_register: nothing is registered without memory for the entry.
Registered(names, name) ==
    IF Len(names) >= MAX_KSYMS \/ name \in ToSet(names) \/ ~HeapReady THEN names
    ELSE Append(names, name)

\* ksym_init, ksym_export_core, ksym_export_drivers, ksym_export_net and
\* driver_modules_register.
ExportSymbols ==
    /\ stage = "cold" /\ stage' = "exported"
    /\ ksyms' = FoldLeft(Registered, <<>>, CoreSymbols)
    /\ drivers' = <<>>
    /\ modules' = [i \in DOMAIN BuiltIn |->
                      [name |-> BuiltIn[i], dynamic |-> FALSE, loaded |-> FALSE, file |-> NoFile]]
    /\ UNCHANGED <<held, answer>>

\* kheap_init
HeapUp ==
    /\ stage = "exported" /\ stage' = "heap"
    /\ UNCHANGED <<ksyms, drivers, modules, held, answer>>

\* The rest of kernel_main, down to the first program.
SystemUp ==
    /\ stage = "heap" /\ stage' = "up"
    /\ UNCHANGED <<ksyms, drivers, modules, held, answer>>

IndexOf(name) == {i \in DOMAIN modules : modules[i].name = name}

\* driver_register.  Fault: the driver counts although its device is missing.
DriverRegistered_Absent(name) == Len(drivers) < MAX_DRIVERS
DriverRegistered(name) == Len(drivers) < MAX_DRIVERS /\ name \notin Absent

\* module_load: a module that is built in; a second time does nothing.
ModuleLoad(name) ==
    /\ HeapReady
    /\ \E i \in IndexOf(name) :
        /\ ~modules[i].dynamic
        /\ IF modules[i].loaded THEN answer' = 0 /\ UNCHANGED <<drivers, modules>>
           ELSE IF DriverRegistered(name)
           THEN /\ answer' = 0
                /\ drivers' = Append(drivers, name)
                /\ modules' = [modules EXCEPT ![i].loaded = TRUE]
           ELSE answer' = -1 /\ UNCHANGED <<drivers, modules>>
    /\ UNCHANGED <<stage, ksyms, held>>

-----------------------------------------------------------------------------
(* The loader.  A load in progress is a record: the blocks it holds, how   *)
(* many more the heap can give it, and whether it failed.                  *)

Got(s, kind) ==
    IF s.room = 0 THEN [s EXCEPT !.ok = FALSE]
    ELSE [s EXCEPT !.room = @ - 1, !.held[kind] = @ + 1]
Gave(s, kinds) == [s EXCEPT !.held = [k \in Kinds |-> @[k] - IF k \in kinds THEN 1 ELSE 0]]
Failed(s) == [s EXCEPT !.ok = FALSE]

AlignUp(a, n) == IF n > 1 THEN ((a + n - 1) \div n) * n ELSE a

\* The end of the first i sections, all of them aligned as they ask for.
\* Fault: the size is added up without the alignment.
SectionsEnd_Unaligned(secs) ==
    LET end[i \in 0 .. Len(secs)] ==
            IF i = 0 THEN 0 ELSE end[i - 1] + (IF secs[i].alloc THEN secs[i].size ELSE 0)
    IN end
SectionsEnd(secs) ==
    LET end[i \in 0 .. Len(secs)] ==
            IF i = 0 THEN 0
            ELSE IF ~secs[i].alloc THEN end[i - 1]
            ELSE AlignUp(end[i - 1], secs[i].align) + secs[i].size
    IN end
ImageSize(f) == SectionsEnd(f.sections)[Len(f.sections)] + PADDING
\* Where section i is placed.
SectionAt(f, i) == AlignUp(SectionsEnd(f.sections)[i - 1], f.sections[i].align)
Loaded(f, i) == i \in DOMAIN f.sections /\ f.sections[i].alloc

\* A relocation of section rel.target at rel.at, for a symbol of this file
\* (sec is its section) or of the kernel (name).
InBounds(f, rel) == rel.at + 4 <= f.sections[rel.target].size
Resolvable(rel) == rel.name = "" \/ rel.name \in ToSet(ksyms)
Relocatable(f) ==
    \A i \in DOMAIN f.rels :
        LET rel == f.rels[i] IN
        /\ rel.type # "rela"
        /\ Loaded(f, rel.target) => InBounds(f, rel) /\ Resolvable(rel)
ContentsInFile(f) ==
    \A i \in DOMAIN f.sections : f.sections[i].alloc /\ f.sections[i].bits => f.sections[i].inFile

\* module_elf_load.  Fault: the table of addresses is kept when a symbol is
\* missing.
ElfLoad_KeepsTable(s, f) ==
    LET image == Got(s, "image")
        table == Got(image, "sections") IN
    IF ~f.header \/ ~image.ok THEN Failed(s)
    ELSE IF ~table.ok THEN Failed(Gave(image, {"image"}))
    ELSE IF ~ContentsInFile(f) \/ ~Relocatable(f) THEN Failed(Gave(table, {"image"}))
    ELSE Gave(table, {"sections"})
ElfLoad(s, f) ==
    LET image == Got(s, "image")
        table == Got(image, "sections") IN
    IF ~f.header \/ ~image.ok THEN Failed(s)
    ELSE IF ~table.ok THEN Failed(Gave(image, {"image"}))
    ELSE IF ~ContentsInFile(f) \/ ~Relocatable(f) THEN Failed(Gave(table, {"image", "sections"}))
    ELSE Gave(table, {"sections"})

\* module_load_from_memory.  Without a module_info the name is the caller's.
\* A module whose init function fails is taken off the registry again.
\* Fault: a module of the same name is not looked for.
FromMemory_Twice(s, f, name) ==
    LET loaded == ElfLoad(s, f)
        struct == Got(loaded, "struct")
        named  == Got(struct, "name") IN
    IF ~loaded.ok THEN loaded
    ELSE IF name = "" THEN Failed(Gave(loaded, {"image"}))
    ELSE IF ~struct.ok THEN Failed(Gave(loaded, {"image"}))
    ELSE IF ~named.ok THEN Failed(Gave(struct, {"image", "struct"}))
    ELSE IF Len(modules) >= MAX_MODULES \/ f.init = "fails"
    THEN Failed(Gave(named, {"image", "struct", "name"}))
    ELSE named
FromMemory(s, f, name) ==
    LET loaded == ElfLoad(s, f)
        struct == Got(loaded, "struct")
        named  == Got(struct, "name") IN
    IF ~loaded.ok THEN loaded
    ELSE IF name = "" \/ IndexOf(name) # {} THEN Failed(Gave(loaded, {"image"}))
    ELSE IF ~struct.ok THEN Failed(Gave(loaded, {"image"}))
    ELSE IF ~named.ok THEN Failed(Gave(struct, {"image", "struct"}))
    ELSE IF Len(modules) >= MAX_MODULES \/ f.init = "fails"
    THEN Failed(Gave(named, {"image", "struct", "name"}))
    ELSE named

NameOf(f, given) == IF f.name # "" THEN f.name ELSE given

\* The outcome of a load that started from s.
Settle(s, f, given) ==
    LET end == FromMemory(s, f, NameOf(f, given)) IN
    /\ held' = Gave(end, {"buffer"}).held
    /\ answer' = IF end.ok THEN 0 ELSE -1
    /\ modules' = IF ~end.ok THEN modules
                  ELSE Append(modules, [name |-> NameOf(f, given), dynamic |-> TRUE,
                                        loaded |-> TRUE, file |-> f])
    /\ UNCHANGED <<stage, ksyms, drivers>>

\* sys_init_module, for a heap that can give another room blocks.
InitModule(f, root, room) ==
    /\ stage = "up"
    /\ LET buffer == Got([ok |-> TRUE, room |-> room, held |-> held], "buffer") IN
       IF f.size = "empty" \/ f.size = "large" \/ ~root \/ ~buffer.ok
       THEN answer' = -1 /\ UNCHANGED <<stage, ksyms, drivers, modules, held>>
       ELSE Settle(buffer, f, "")

\* module_load_from_file: like init_module from the kernel, with the name of
\* the file for a module that has none.
LoadFile(f, room) ==
    /\ HeapReady
    /\ LET buffer == Got([ok |-> TRUE, room |-> room, held |-> held], "buffer") IN
       IF f.size = "empty" \/ f.size = "large" \/ ~buffer.ok
       THEN answer' = -1 /\ UNCHANGED <<stage, ksyms, drivers, modules, held>>
       ELSE Settle(buffer, f, f.path)

\* insmod: reads the file into its own memory first.
Insmod(f, root, room) ==
    /\ stage = "up"
    /\ IF f.size = "large" THEN answer' = 1 /\ UNCHANGED <<stage, ksyms, drivers, modules, held>>
       ELSE InitModule(f, root, room)

\* sys_delete_module and module_unload
DeleteModule(name, root) ==
    /\ stage = "up"
    /\ IF root /\ \E i \in IndexOf(name) : modules[i].dynamic
       THEN \E i \in IndexOf(name) :
            /\ answer' = 0
            /\ modules' = RemoveAt(modules, i)
            /\ held' = [held EXCEPT !["image"] = @ - 1, !["struct"] = @ - 1, !["name"] = @ - 1]
       ELSE answer' = -1 /\ UNCHANGED <<modules, held>>
    /\ UNCHANGED <<stage, ksyms, drivers>>

ModuleNames == ToSet(BuiltIn) \cup {f.name : f \in Files}
Rooms == 0 .. Cardinality(Kinds)     \* a load asks for each kind once

ModulesNext ==
    \/ ExportSymbols \/ HeapUp \/ SystemUp
    \/ \E name \in ToSet(BuiltIn) : ModuleLoad(name)
    \/ \E f \in Files, room \in Rooms : LoadFile(f, room)
    \/ \E f \in Files, root \in BOOLEAN, room \in Rooms : Insmod(f, root, room)
    \/ \E name \in ModuleNames, root \in BOOLEAN : DeleteModule(name, root)

ModulesSpec == ModulesInit /\ [][ModulesNext]_modVars

-----------------------------------------------------------------------------
Dynamic == {i \in DOMAIN modules : modules[i].dynamic}

\* Between two calls the heap holds an image, a structure and a name for each
\* module that was loaded, and nothing else: whichever check or allocation of
\* a load failed, everything it had allocated was freed.
HeapExact ==
    \A k \in Kinds : held[k] = IF k \in {"buffer", "sections"} THEN 0 ELSE Cardinality(Dynamic)

\* No two modules have the same name, built in or loaded.
ModuleNamesUnique ==
    \A i, j \in DOMAIN modules : modules[i].name = modules[j].name => i = j

\* A driver is registered exactly when the module that brings it counts as
\* loaded, and once: a failed probe can be tried again.
DriversMatch ==
    /\ \A i, j \in DOMAIN drivers : drivers[i] = drivers[j] => i = j
    /\ ToSet(drivers) = {modules[i].name : i \in {j \in DOMAIN modules :
                                                      ~modules[j].dynamic /\ modules[j].loaded}}
    /\ ToSet(drivers) \cap Absent = {}

\* The sections of a loaded module are aligned as they ask for, lie in the
\* memory that was allocated for the module, and none overlaps another.
SectionsApart ==
    \A m \in Dynamic : LET f == modules[m].file IN
        \A i \in DOMAIN f.sections : Loaded(f, i) =>
            /\ f.sections[i].align > 1 => SectionAt(f, i) % f.sections[i].align = 0
            /\ SectionAt(f, i) + f.sections[i].size <= ImageSize(f)
            /\ \A j \in DOMAIN f.sections : Loaded(f, j) /\ j # i =>
                \/ SectionAt(f, i) + f.sections[i].size <= SectionAt(f, j)
                \/ SectionAt(f, j) + f.sections[j].size <= SectionAt(f, i)

\* Loading leaves one module of a name, the memory it keeps and no more, its
\* sections apart, and the drivers of the kernel (module_elf_load,
\* module_load_from_memory, driver_register).
ModulesSound == HeapExact /\ ModuleNamesUnique /\ SectionsApart /\ DriversMatch

\* kernel.c says of ksym_export_core "Export core kernel symbols for
\* modules": once the system is up they are in the table.
SymbolsExported == stage = "up" => ToSet(CoreSymbols) \subseteq ToSet(ksyms)
=============================================================================

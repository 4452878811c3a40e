---------------------------- MODULE GeneratedCode ----------------------------
(***************************************************************************)
(* The modules that the protoc plugin writes, at work: perl compiles a     *)
(* module, whose BEGIN block requires the modules of its imports, each in  *)
(* an eval, and then adds the file to the generated pool.  A module that   *)
(* dies while it is compiled cannot be required again; one that is not     *)
(* installed can be tried later.  perl knows modules by their names, and   *)
(* the plugin leaves the directory of a file out of the name: two files of *)
(* one package and base name share a module.                               *)
(***************************************************************************)
EXTENDS DescriptorPool

CONSTANT MaxSets      \* bound: descriptor sets the program adds

VARIABLES
    installed,        \* the files whose modules perl can find
    loaded,           \* "no", "loading", "ok", "failed"
    stack,            \* the modules being compiled, each with the next import
    missed,           \* the files whose modules were required and not there
                      \* (history, like the rest)
    mistaken,         \* those for which another file's module was there
    hollow,           \* the modules that loaded without their file
    preloaded         \* the files the program added itself

lvars == <<installed, loaded, stack, missed, mistaken, hollow, preloaded>>
vars == <<gvars, pvars, lvars>>

TypeOK ==
    /\ PoolTypeOK
    /\ installed \subseteq ProtoFiles
    /\ loaded \in [ProtoFiles -> {"no", "loading", "ok", "failed"}]
    /\ \A i \in DOMAIN stack : loaded[stack[i].file] = "loading"

Init ==
    /\ GeneratorInit
    /\ PoolInit
    /\ installed = {}
    /\ loaded = [f \in ProtoFiles |-> "no"]
    /\ stack = <<>>
    /\ missed = {}
    /\ mistaken = {}
    /\ hollow = {}
    /\ preloaded = {}

Module(f) == (CHOOSE r \in response : r.module.file = f).module
Described(bytes) == CHOOSE f \in ProtoFiles : serialized[f] = bytes
Top == stack[Len(stack)]
Below == SubSeq(stack, 1, Len(stack) - 1)

(* What answers a require of a name: the module of that name that was begun *)
(* (it is in %INC, also when it died), else the one installed.             *)
Named(name) == {g \in ProtoFiles : GetPerlPackage(g) = name}
Begun(name) == {g \in Named(name) : loaded[g] # "no"}
Answer(name) == IF Begun(name) # {} THEN Begun(name) ELSE installed \cap Named(name)

(* A file name with two dots or more leaves a dot in the name. *)
Dotted(name) == Len(name[Len(name)]) > 1

-----------------------------------------------------------------------------
(* The plugin, then make install or a library path added later. *)

RunPlugin ==
    /\ stack = <<>>
    /\ Generate
    /\ UNCHANGED <<pvars, lvars>>

(* The modules of two files with one name take two runs of protoc, and the  *)
(* one installed last is there.                                            *)
Install(f) ==
    /\ stack = <<>>
    /\ \E r \in response : r.module.file = f
    /\ f \notin installed
    /\ installed' = (installed \ Named(Module(f).pkg)) \cup {f}
    /\ UNCHANGED <<gvars, pvars, loaded, stack, missed, mistaken, hollow, preloaded>>

(* perl does not compile `package P::Left.v1'.  `require P::Left.v1' asks   *)
(* for another name, or keeps the module it is in from being compiled; that *)
(* goes by what stands behind the dot.                                     *)
Compile(f, below) ==
    \/ /\ ~Dotted(Module(f).pkg)
       /\ loaded' = [loaded EXCEPT ![f] = "loading"]
       /\ stack' = Append(below, [file |-> f, next |-> 1])
    \/ /\ \/ Dotted(Module(f).pkg)
          \/ \E i \in DOMAIN Module(f).requires : Dotted(Module(f).requires[i])
       /\ loaded' = [loaded EXCEPT ![f] = "failed"]
       /\ stack' = below

(* require of the module of f: compiled unless it was begun before. *)
Begin(f, below) ==
    IF loaded[f] = "no" THEN Compile(f, below)
                        ELSE stack' = below /\ UNCHANGED loaded

(* By the program. *)
Require(f) ==
    /\ stack = <<>>
    /\ f \in Answer(GetPerlPackage(f)) /\ loaded[f] = "no"
    /\ Compile(f, stack)
    /\ UNCHANGED <<gvars, pvars, installed, missed, mistaken, hollow, preloaded>>

(* By the module on top, for its import f. *)
RequireName(name, f, below) ==
    \/ /\ Dotted(name) \/ Answer(name) = {}
       /\ stack' = below
       /\ missed' = missed \cup {f}
       /\ UNCHANGED <<loaded, mistaken>>
    \/ /\ ~Dotted(name)
       /\ \E g \in Answer(name) : Begin(g, below) /\ mistaken' = mistaken \cup ({f} \ {g})
       /\ UNCHANGED missed

(* Faulty variant: only the first import of a module is required.          *)
Faulty_RequireImport ==
    /\ stack # <<>>
    /\ Top.next <= Len(Module(Top.file).requires)
    /\ RequireName(Module(Top.file).requires[Top.next], dependency[Top.file][Top.next],
                   Append(Below, [Top EXCEPT !.next = Len(Module(Top.file).requires) + 1]))
    /\ UNCHANGED <<gvars, pvars, installed, hollow, preloaded>>

(* eval { require ... } in the BEGIN block. *)
RequireImport ==
    /\ stack # <<>>
    /\ Top.next <= Len(Module(Top.file).requires)
    /\ RequireName(Module(Top.file).requires[Top.next], dependency[Top.file][Top.next],
                   Append(Below, [Top EXCEPT !.next = @ + 1]))
    /\ UNCHANGED <<gvars, pvars, installed, hollow, preloaded>>

Finish(how) ==
    /\ stack' = Below
    /\ loaded' = [loaded EXCEPT ![Top.file] = how]

(* Faulty variant: an error of add_serialized_file does not end the module. *)
Faulty_AddOwnFile ==
    /\ stack # <<>>
    /\ Top.next > Len(Module(Top.file).requires)
    /\ LET f == Described(Decode(Module(Top.file).b64))
       IN  \/ Added(f) /\ UNCHANGED hollow
           \/ (GaveUp(f) \/ Ignored(f)) /\ hollow' = hollow \cup {f}
           \/ Died(f) /\ UNCHANGED hollow
    /\ Finish("ok")
    /\ UNCHANGED <<gvars, installed, missed, mistaken, preloaded>>

(* generated_pool->add_serialized_file(decode_base64(...)).  The file stays *)
(* in the pool when generate_for_file dies of one of its classes.          *)
AddOwnFile ==
    /\ stack # <<>>
    /\ Top.next > Len(Module(Top.file).requires)
    /\ LET f == Described(Decode(Module(Top.file).b64))
       IN  \/ Added(f) /\ (Finish("ok") \/ Finish("failed")) /\ UNCHANGED hollow
           \/ (GaveUp(f) \/ Ignored(f)) /\ Finish("ok") /\ hollow' = hollow \cup {f}
           \/ Died(f) /\ Finish("failed") /\ UNCHANGED hollow
    /\ UNCHANGED <<gvars, installed, missed, mistaken, preloaded>>

-----------------------------------------------------------------------------
(* The program between requires. *)

ProgramAddsSet(fs) ==
    /\ stack = <<>>
    /\ fs # {}
    /\ Cardinality(preloaded \cup fs) <= MaxSets
    /\ AddSet(fs)
    /\ preloaded' = preloaded \cup fs
    /\ UNCHANGED <<gvars, installed, loaded, stack, missed, mistaken, hollow>>

ProgramFreezes == stack = <<>> /\ (Freeze \/ DropWrapper) /\ UNCHANGED <<gvars, lvars>>

Next ==
    \/ RunPlugin
    \/ \E f \in ProtoFiles : Install(f) \/ Require(f)
    \/ RequireImport
    \/ AddOwnFile
    \/ \E fs \in SUBSET ProtoFiles : ProgramAddsSet(fs)
    \/ ProgramFreezes

Spec == Init /\ [][Next]_vars

-----------------------------------------------------------------------------
(* Properties. *)

Absent ==
    missed \cup mistaken \cup hollow \cup
        {f \in ProtoFiles : loaded[f] = "failed" \/ (loaded[f] = "loading" /\ mistaken # {})}

(* A stub takes the place of a file or of its types only when the module of *)
(* the file was required and could not be found, was taken for that of     *)
(* another file, loaded without its file, or died: whatever the order in   *)
(* which a program requires modules, the imports of a module come before   *)
(* it.  Once a module was taken for another, its imports may come round,   *)
(* and the stub is of a module that is still being compiled.               *)
StubsOnlyForMissing ==
    /\ \A f \in DOMAIN files : files[f] = "stub" => f \in Absent
    /\ \A t \in stubbed : t[1] \in Absent

(* Stubs are for good.  A module whose file has one can be installed later, *)
(* and what loads without an error still has its own file and types in the *)
(* pool, unless add_serialized_file gave up on it in silence.              *)
LoadedMeansDefined ==
    \A f \in ProtoFiles \ hollow :
        loaded[f] = "ok" => Real(f) /\ Symbols(f) \cap stubbed = {}
=============================================================================

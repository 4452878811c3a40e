--------------------------- MODULE DescriptorPool ---------------------------
(***************************************************************************)
(* xs/descriptor_pool/*.c and lib/Protobuf/DescriptorPool.pm: the pool of  *)
(* the generated code.  A file that depends on one the pool does not have, *)
(* or uses a type nobody has defined, gets a stub in its place: an empty   *)
(* file, or a file with an empty message, also where an enum is wanted.    *)
(* What is frozen is the Perl wrapper of the pool, and the flag goes with  *)
(* it.                                                                     *)
(***************************************************************************)
EXTENDS Generator

CONSTANTS
    enums,            \* the enums of each file: names within the package
    uses,             \* the messages and enums that the fields of each file have
    extends,          \* the messages that it extends
    long,             \* the files, messages and enums whose names are too long
                      \* for the length byte of a stub
    Attempts          \* how often add_serialized_file tries

Enums == UNION {{<<f, name>> : name \in enums[f]} : f \in ProtoFiles}

(* What a file needs to be defined: the types of its fields and extensions, *)
(* and those of its methods.                                               *)
Uses(f) == uses[f] \cup UNION {UNION {{method.input, method.output} :
                                        method \in service.methods} : service \in services[f]}

(* A file uses its own types and those of its imports (import public is     *)
(* left out).                                                              *)
ASSUME PoolAssumption ==
    /\ Attempts \in Nat \ {0}
    /\ Types \cap Enums = {}
    /\ \A f \in ProtoFiles :
          /\ extends[f] \subseteq uses[f]
          /\ \A t \in Uses(f) :
                /\ t \in Types \cup Enums
                /\ t[1] = f \/ \E i \in DOMAIN dependency[f] : t[1] = dependency[f][i]

VARIABLES
    files,            \* the files of the pool, each "real" or "stub"
    stubbed,          \* what stubs define, as messages all of it
    frozen            \* the flag of the wrapper

pvars == <<files, stubbed, frozen>>

PoolTypeOK ==
    /\ DOMAIN files \subseteq ProtoFiles
    /\ \A f \in DOMAIN files : files[f] \in {"real", "stub"}
    /\ stubbed \subseteq Types \cup Enums

PoolInit ==
    /\ files = [f \in {} |-> ""]
    /\ stubbed = {}
    /\ frozen = FALSE

Has(f) == f \in DOMAIN files
Real(f) == Has(f) /\ files[f] = "real"
Symbols(f) == {t \in Types \cup Enums : t[1] = f}
Imports(f) == {dependency[f][i] : i \in DOMAIN dependency[f]}
Enter(fs, how) == [f \in DOMAIN files \cup fs |-> IF f \in fs THEN how ELSE files[f]]

(* What stands between a file and the pool: imports that are not there, and *)
(* types that no real file and no stub defines.                            *)
MissingFiles(f) == {g \in Imports(f) : ~Has(g)}
MissingTypes(f) == {t \in Uses(f) : t[1] # f /\ ~Real(t[1]) /\ t \notin stubbed}

(* upb_DefPool_AddFile refuses a second file of the name and a second       *)
(* definition of a name.                                                   *)
Duplicate(f) == Has(f) \/ Symbols(f) \cap stubbed # {}

(* A stub is a message, and nothing can extend it or have it as an enum. *)
Extended(f, ts) == extends[f] \cap (stubbed \cup ts) # {}
Mistyped(f, ts) == Uses(f) \cap Enums \cap (stubbed \cup ts) # {}

Keep == UNCHANGED frozen

-----------------------------------------------------------------------------
(* add_serialized_file calls PerlUpb_DescriptorPool_AddSerializedFile; its  *)
(* error names one import or type that is missing, a stub is added for it  *)
(* and the file is tried again.  upb looks at the name of the file first,  *)
(* then at its imports, then at the names it defines and last at those its *)
(* fields, methods and extensions use.                                     *)
Tries(fs, ts) == Cardinality(fs) + Cardinality(ts) + 1
Short(S) == S \ long

(* Added, with the stubs it took. *)
Added(f) ==
    /\ ~frozen /\ ~Duplicate(f)
    /\ (MissingFiles(f) \cup MissingTypes(f)) \cap long = {}
    /\ Tries(MissingFiles(f), MissingTypes(f)) <= Attempts
    /\ ~Extended(f, MissingTypes(f)) /\ ~Mistyped(f, MissingTypes(f))
    /\ files' = [Enter(MissingFiles(f) \cup {f}, "stub") EXCEPT ![f] = "real"]
    /\ stubbed' = stubbed \cup MissingTypes(f)
    /\ Keep

(* The last attempt only added a stub, or the rest of them went on one that *)
(* could not be added, its name being too long: add_serialized_file returns *)
(* undef, without an error.                                                *)
Stuck(f, fs) ==
    IF fs = MissingFiles(f) THEN ~Duplicate(f) /\ MissingTypes(f) \cap long # {}
                            ELSE MissingFiles(f) \cap long # {}

GaveUp(f) ==
    /\ ~frozen /\ ~Has(f)
    /\ \E fs \in SUBSET Short(MissingFiles(f)), ts \in SUBSET Short(MissingTypes(f)) :
          /\ ts # {} => fs = MissingFiles(f) /\ ~Duplicate(f)
          /\ \/ Tries(fs, ts) = Attempts + 1 /\ Cardinality(ts \cap Enums) <= 1
             \/ Tries(fs, ts) <= Attempts /\ ts \cap Enums = {} /\ Stuck(f, fs)
          /\ files' = Enter(fs, "stub")
          /\ stubbed' = stubbed \cup ts
    /\ Keep

(* A message that the file extends is a stub, which has no extension range: *)
(* the error is "safe to ignore" and undef is returned.                    *)
Ignored(f) ==
    /\ ~frozen /\ ~Duplicate(f)
    /\ MissingFiles(f) \cap long = {}
    /\ \E ts \in SUBSET (Short(MissingTypes(f)) \ Enums) :
          /\ Tries(MissingFiles(f), ts) <= Attempts
          /\ Extended(f, ts)
          /\ stubbed' = stubbed \cup ts
    /\ files' = Enter(MissingFiles(f), "stub")
    /\ Keep

(* It died: the pool is frozen, has the file, or has a stub of one of its   *)
(* types, which is found when the imports have been stubbed.               *)
Refused(f) ==
    /\ frozen \/ Duplicate(f)
    /\ LET fs == IF frozen \/ Has(f) THEN {} ELSE MissingFiles(f)
       IN  /\ fs \cap long = {}
           /\ Tries(fs, {}) <= Attempts
           /\ files' = Enter(fs, "stub")
    /\ UNCHANGED stubbed /\ Keep

(* An enum that is missing got the stub of a message, which the next        *)
(* attempt dies of.                                                        *)
Mismatched(f) ==
    /\ ~frozen /\ ~Duplicate(f)
    /\ MissingFiles(f) \cap long = {}
    /\ \E ts \in SUBSET Short(MissingTypes(f)) :
          /\ Tries(MissingFiles(f), ts) <= Attempts
          /\ Cardinality(ts \cap Enums) <= 1
          /\ Mistyped(f, ts)
          /\ stubbed' = stubbed \cup ts
    /\ files' = Enter(MissingFiles(f), "stub")
    /\ Keep

Died(f) == Refused(f) \/ Mismatched(f)

(* PerlUpb_DescriptorPool_AddSerializedFileDescriptorSet, called by the     *)
(* program: the files one after the other until one is refused.  Those     *)
(* before it stay, as if the set had ended there.  No stubs are made.      *)
AddSet(fs) ==
    /\ ~frozen
    /\ fs \subseteq ProtoFiles
    /\ \A f \in fs : ~Duplicate(f)
    /\ \A f \in fs : Imports(f) \subseteq DOMAIN files \cup fs
    /\ \A f \in fs : {t \in MissingTypes(f) : t[1] \notin fs} = {}
    /\ \A f \in fs : ~Extended(f, {}) /\ ~Mistyped(f, {})
    /\ files' = Enter(fs, "real")
    /\ UNCHANGED stubbed /\ Keep

(* PerlUpb_DescriptorPool_Freeze *)
Freeze ==
    /\ ~frozen
    /\ frozen' = TRUE
    /\ UNCHANGED <<files, stubbed>>

(* The program lets go of the wrapper, or clears the object cache: the next *)
(* generated_pool makes a wrapper that is not frozen                       *)
(* (PerlUpb_DescriptorPool_GetWrapper).  The pool itself stays.            *)
DropWrapper ==
    /\ frozen
    /\ frozen' = FALSE
    /\ UNCHANGED <<files, stubbed>>
=============================================================================

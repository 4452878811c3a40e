----------------------------- MODULE Generator -----------------------------
(***************************************************************************)
(* protoc/generator.cc and helpers.cc, the protoc plugin, next to the part *)
(* of xs/protobuf/utils.c that names the classes at run time.  Both derive *)
(* the Perl class of a message from its file, package and name, each in    *)
(* its own way.                                                            *)
(*                                                                         *)
(* A word is a piece of a name between separators, [w, cap]: cap says that *)
(* it begins with a small letter, a capital, or something that is neither  *)
(* (a digit, an underscore).  A dotted name is a sequence of words, a file *)
(* name a sequence of parts (between dots, directories left out) of words  *)
(* (between underscores), a class name a sequence of segments of parts.    *)
(***************************************************************************)
EXTENDS Integers, Sequences, FiniteSets

CONSTANTS
    ProtoFiles,       \* the files of the request
    ToGenerate,       \* file_to_generate, a sequence
    basename,         \* file name of each file
    package,          \* package of each file, <<>>: none
    messages,         \* the messages of each file: names within the package
    dependency,       \* the imports of each file, a sequence
    serialized,       \* the bytes of each file's descriptor
    services          \* the services of each file: [name, methods], a method
                      \* is [name, input, output]

(* A word is not empty. *)
Words == [w : STRING \ {""}, cap : {"small", "capital", "none"}]

(* Descriptors are bytes, and a file is known by them.  protoc refuses a    *)
(* file that imports itself, however far round.                            *)
ASSUME GeneratorAssumption ==
    /\ IsFiniteSet(ProtoFiles)
    /\ basename \in [ProtoFiles -> Seq(Seq(Words))]
    /\ \A f \in ProtoFiles : Len(basename[f]) > 1
    /\ package \in [ProtoFiles -> Seq(Words)]
    /\ messages \in [ProtoFiles -> SUBSET Seq(Words)]
    /\ dependency \in [ProtoFiles -> Seq(ProtoFiles)]
    /\ \E depth \in [ProtoFiles -> 0 .. Cardinality(ProtoFiles)] :
          \A f \in ProtoFiles : \A i \in DOMAIN dependency[f] :
              depth[dependency[f][i]] < depth[f]
    /\ serialized \in [ProtoFiles -> Seq(0 .. 255)]
    /\ \A f, g \in ProtoFiles : serialized[f] = serialized[g] => f = g

VARIABLES
    response,         \* the modules generated
    todo              \* the files still to generate

gvars == <<response, todo>>

(* toupper, also as capitalize_path has it, changes only a small letter. *)
Upper(word) == IF word.cap = "small" THEN [word EXCEPT !.cap = "capital"] ELSE word
Segment(word) == << <<word>> >>

(* PerlUpb_FullNameToClassName and back: dots and double colons. *)
FullNameToClassName(name) == [i \in DOMAIN name |-> Segment(name[i])]
ClassNameToFullName(class) == [i \in DOMAIN class |-> class[i][1][1]]

(* CapitalizePackage *)
CapitalizePackage(name) == [i \in DOMAIN name |-> Segment(Upper(name[i]))]

(* Without the last part, and ToCamelCase: the first word and what follows  *)
(* an underscore begin with a capital, what follows a dot stays.           *)
FileSegment(f) ==
    [p \in 1 .. Len(basename[f]) - 1 |->
        [i \in DOMAIN basename[f][p] |->
            IF p > 1 /\ i = 1 THEN basename[f][p][i] ELSE Upper(basename[f][p][i])]]

GetPerlPackage(f) == Append(CapitalizePackage(package[f]), FileSegment(f))

(* RegisterTypesRecursively: the class of a message, nested ones under the  *)
(* one they are in, and the name it is registered under.  BuildTypeMap     *)
(* puts a dot before the package, so a file without one gets two.          *)
PerlClass(f, name) == GetPerlPackage(f) \o FullNameToClassName(name)
NoName == [w |-> "", cap |-> "none"]
TypeKey(f, name) ==
    IF package[f] = <<>> THEN <<NoName>> \o name ELSE package[f] \o name

Types == UNION {{<<f, name>> : name \in messages[f]} : f \in ProtoFiles}
FullName(t) == package[t[1]] \o t[2]

(* protoc refuses two messages of one name, and methods with a type it does *)
(* not know.                                                               *)
ASSUME NamesAssumption ==
    /\ \A t, u \in Types : FullName(t) = FullName(u) => t = u
    /\ \A f \in ProtoFiles : \A service \in services[f] :
          /\ service.name \in Words
          /\ \A method \in service.methods : method.input \in Types /\ method.output \in Types

(* The class a service method's request and response get. *)
ResolvePerlClass(full) ==
    LET known == {t \in Types : TypeKey(t[1], t[2]) = full}
    IN  IF known = {} THEN CapitalizePackage(full)
        ELSE LET t == CHOOSE t \in known : TRUE IN PerlClass(t[1], t[2])

(* The base64 text of the descriptor, which the module decodes again: four  *)
(* digits for three bytes, -1 for the padding.                             *)
Pad == -1
ByteAt(s, j) == IF j <= Len(s) THEN s[j] ELSE 0
Triple(s, g) == 256 * (256 * ByteAt(s, 3 * g + 1) + ByteAt(s, 3 * g + 2)) + ByteAt(s, 3 * g + 3)
Digits(s, g) ==
    <<((Triple(s, g) \div 64) \div 64) \div 64,
      ((Triple(s, g) \div 64) \div 64) % 64,
      IF 3 * g + 2 <= Len(s) THEN (Triple(s, g) \div 64) % 64 ELSE Pad,
      IF 3 * g + 3 <= Len(s) THEN Triple(s, g) % 64 ELSE Pad>>
Encode(s) ==
    [n \in 1 .. 4 * ((Len(s) + 2) \div 3) |-> Digits(s, (n - 1) \div 4)[((n - 1) % 4) + 1]]

(* MIME::Base64::decode_base64 *)
DigitAt(b, n) == IF b[n] = Pad THEN 0 ELSE b[n]
Group(b, g) ==
    64 * (64 * (64 * DigitAt(b, 4 * g + 1) + DigitAt(b, 4 * g + 2)) + DigitAt(b, 4 * g + 3))
        + DigitAt(b, 4 * g + 4)
Decode(b) ==
    LET pads == Cardinality({n \in DOMAIN b : b[n] = Pad})
    IN  [i \in 1 .. 3 * (Len(b) \div 4) - pads |->
            LET val == Group(b, (i - 1) \div 3)
            IN  <<(val \div 256) \div 256, (val \div 256) % 256, val % 256>>[((i - 1) % 3) + 1]]

(* ToSnakeCase: a method is named in small letters. *)
ToSnakeCase(name) ==
    [i \in DOMAIN name |->
        IF name[i].cap = "capital" THEN [name[i] EXCEPT !.cap = "small"] ELSE name[i]]

(* The client of a service: a sub for each method, with the classes of its  *)
(* request and response.  A file without a package leaves a dot before the *)
(* name of the service.                                                    *)
ServicePath(f, service) ==
    IF package[f] = <<>> THEN <<NoName, service.name>> ELSE Append(package[f], service.name)

Stubs(f) ==
    UNION {{[path |-> ServicePath(f, service), service |-> service.name,
             sub |-> ToSnakeCase(method.name), of |-> method,
             req_class |-> ResolvePerlClass(FullName(method.input)),
             res_class |-> ResolvePerlClass(FullName(method.output))] :
                 method \in service.methods} : service \in services[f]}

(* GenerateModule: the BEGIN block requires the modules of the imports, in  *)
(* their order, and then adds the file.                                    *)
GenerateModule(f) ==
    [file |-> f,
     pkg |-> GetPerlPackage(f),
     requires |-> [i \in DOMAIN dependency[f] |-> GetPerlPackage(dependency[f][i])],
     b64 |-> Encode(serialized[f]),
     stubs |-> Stubs(f)]

(* GenerateTypes: the module of type constraints next to it.  A constraint  *)
(* has the simple name of its message, however deep that is nested, also   *)
(* behind a prefix for lists and maps of it.                               *)
PrintMessageTypes(f, name) ==
    {[name |-> <<prefix, name[Len(name)]>>, class |-> PerlClass(f, name)] :
         prefix \in {"", "Repeated", "MapString"}}

GenerateTypes(f) ==
    [pkg |-> Append(GetPerlPackage(f), Segment([w |-> "types", cap |-> "capital"])),
     declares |-> UNION {PrintMessageTypes(f, name) : name \in messages[f]}]

GeneratorInit == response = {} /\ todo = ToGenerate

(* One turn of the loop in Generate.  A file that the request does not      *)
(* describe is passed over.                                                *)
Generate ==
    /\ todo # <<>>
    /\ todo' = Tail(todo)
    /\ response' = response \cup {[module |-> GenerateModule(f), types |-> GenerateTypes(f)] :
                                    f \in {Head(todo)} \cap ProtoFiles}

-----------------------------------------------------------------------------
(* xs/protobuf/utils.c: get_file_module cuts the file name at its first    *)
(* dot, PerlUpb_GetMessageStash capitalizes every part of the name.        *)
get_file_module(f) ==
    << [i \in DOMAIN basename[f][1] |-> Upper(basename[f][1][i])] >>

capitalize_path(name) == [i \in DOMAIN name |-> Segment(Upper(name[i]))]

(* Faulty variant: the class is named without the file.                    *)
Faulty_GetMessageStash(f, name) == capitalize_path(package[f]) \o capitalize_path(name)

GetMessageStash(f, name) ==
    Append(capitalize_path(package[f]), get_file_module(f)) \o capitalize_path(name)

(* Protobuf::ClassGenerator, whose classes have the accessors: the file as  *)
(* get_file_module has it, the message by its name as it is.               *)
GenerateForMessage(f, name) ==
    Append(capitalize_path(package[f]), get_file_module(f)) \o FullNameToClassName(name)

-----------------------------------------------------------------------------
(* Properties. *)

Capitals(name) == \A i \in DOMAIN name : name[i].cap # "small"
Styled(f, name) == Len(basename[f]) = 2 /\ Capitals(name)

(* The class that the generated code names for a message is the class its  *)
(* objects are blessed into at run time, exactly when no part of the       *)
(* message's name begins with a small letter and the file name has one     *)
(* dot; so do the type constraints.  The class that ClassGenerator makes   *)
(* for it is that class exactly when no part begins with a small letter,   *)
(* whatever the file name.  The stubs of services name it too, exactly     *)
(* when the message's file has a package as well, and call the service by  *)
(* its full name when their own file has one.                              *)
ClassNamesAgree ==
    \A r \in response :
        LET f == r.module.file
        IN  /\ \A name \in messages[f] :
                  /\ (PerlClass(f, name) = GetMessageStash(f, name)) <=> Styled(f, name)
                  /\ (GenerateForMessage(f, name) = GetMessageStash(f, name)) <=> Capitals(name)
                  /\ ClassNameToFullName(FullNameToClassName(name)) = name
            /\ \A d \in r.types.declares :
                  (\E name \in messages[f] : d.class = GetMessageStash(f, name))
                     <=> \E name \in messages[f] : d.class = PerlClass(f, name) /\ Styled(f, name)
            /\ \A s \in r.module.stubs :
                  LET out == s.of.output
                  IN  /\ (s.res_class = GetMessageStash(out[1], out[2]))
                            <=> Styled(out[1], out[2]) /\ package[out[1]] # <<>>
                      /\ (s.path = Append(package[f], s.service)) <=> package[f] # <<>>
=============================================================================

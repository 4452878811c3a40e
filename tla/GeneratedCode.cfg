SPECIFICATION Spec
CONSTANTS
    base = base
    twin = twin
    opts = opts
    left = left
    top = top
    ghost = ghost
    ProtoFiles <- MCFiles
    ToGenerate <- MCToGenerate
    basename <- MCBasename
    package <- MCPackage
    messages <- MCMessages
    enums <- MCEnums
    long <- MCLong
    dependency <- MCDependency
    uses <- MCUses
    extends <- MCExtends
    serialized <- MCSerialized
    services <- MCServices
    Attempts = 4
    MaxSets = 1
INVARIANTS
    ClassNamesAgree
    StubsOnlyForMissing
    LoadedMeansDefined
CHECK_DEADLOCK FALSE

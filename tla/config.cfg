\* Two resources of one name in two namespaces, each with one Secret and one ConfigMap, and one worker.
SPECIFICATION FairBuildSpec
CONSTANTS
    a = a
    b = b
    c = c
    list = list
    Items = {a, b, c}
    Wide = wide
    Rounded = rounded
    Literals = {list, wide}
    Arrays = {list}
    Refs = {ref}
    Nil = Nil
    Namespaces = {north, south}
    Names = {p}
    NamespaceAll = every
    Configs <- TheConfigs
    Starts <- TheStarts
    Values = {kept, rotated}
    Stores <- TheStores
    MaxEdits = 2
    MaxChanges = 1
    MaxSyncs = 2
INVARIANTS BuildTypeOK BuiltAsWritten InvalidHasCause CopyApart
PROPERTIES IndexerReadOnly StatusIsAboutConfig CatchesUp
\* With every edit, change and sync made, nothing need happen.
CHECK_DEADLOCK FALSE

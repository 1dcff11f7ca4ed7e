-------------------------------- MODULE Bundles --------------------------------
(***************************************************************************)
(* How a bundle is made of files (bundle/mod.rs).  A file is [by, path,    *)
(* readable, utf8, parses]: it is added by the operation of a builder for  *)
(* a module, for data, or for a file of either kind, which is what those   *)
(* for directories do with each file as they read it.                      *)
(***************************************************************************)
EXTENDS Resolver

CONSTANTS
    TypeScript,     \* the words that have an extension of TypeScript
    Files,          \* the files that are added
    MaxFiles        \* bound: how many

ASSUME FilesAssumption ==
    /\ Files \subseteq [by : {"module", "data", "file"}, path : Seq(Segments) \ {<<>>},
                       readable : BOOLEAN, utf8 : BOOLEAN, parses : BOOLEAN]
    /\ MaxFiles \in Nat

VARIABLES
    building,       \* the builder: [modules, data, failed]
    added           \* the files it was given, in their order

bundleVars == <<building, added>>

NewBuilder == [modules |-> [name \in {} |-> <<>>], data |-> {}, failed |-> FALSE]

Failing(builder) == [builder EXCEPT !.failed = TRUE]

\* BundlePath::new: neither "", "." nor "..", nor any with a backslash.
ValidPath(path) == ToSet(path) \subseteq Words

\* Only TypeScript is parsed.
Transpiles(file) == Last(file.path) \in TypeScript => file.parses

WithModule(builder, name, path) ==
    [builder EXCEPT !.modules = [n \in DOMAIN @ \cup {name} |-> IF n = name THEN path ELSE @[n]]]

\* A slip: a module of the same name takes the place of the first.
ReplaceModule(builder, file) ==
    LET name == FromPath(file.path)
    IN  IF name = <<>> \/ ~Transpiles(file) THEN Failing(builder) ELSE WithModule(builder, name, file.path)

InsertModule(builder, file) ==
    LET name == FromPath(file.path)
    IN  IF name = <<>> \/ name \in DOMAIN builder.modules \/ ~Transpiles(file) THEN Failing(builder)
        ELSE WithModule(builder, name, file.path)

InsertData(builder, file) ==
    IF file.path \in builder.data THEN Failing(builder) ELSE [builder EXCEPT !.data = @ \cup {file.path}]

InsertFile(builder, file) ==
    IF FromPath(file.path) = <<>> THEN InsertData(builder, file)
    ELSE IF ~file.utf8 THEN Failing(builder)
    ELSE InsertModule(builder, file)

Insert(builder, file) ==
    CASE file.by = "module" -> InsertModule(builder, file)
      [] file.by = "data" -> InsertData(builder, file)
      [] file.by = "file" -> InsertFile(builder, file)

\* The first failure stays, and nothing is inserted after it.
Attempt(builder, file) ==
    IF builder.failed THEN builder
    ELSE IF ~file.readable \/ ~ValidPath(file.path) THEN Failing(builder)
    ELSE Insert(builder, file)

\* BundleBuilder::build: a bundle, or nothing.
Built(builder) ==
    IF builder.failed \/ DOMAIN builder.modules = {} THEN <<>>
    ELSE <<[modules |-> builder.modules, data |-> builder.data]>>

Add(file) ==
    /\ Len(added) < MaxFiles
    /\ building' = Attempt(building, file)
    /\ added' = Append(added, file)

BundleInit == building = NewBuilder /\ added = <<>>

BundleNext == \E file \in Files : Add(file)

BundleSpec == BundleInit /\ [][BundleNext]_bundleVars

-----------------------------------------------------------------------------
(* The reference: what the files say in whatever order they come. *)

IsData(file) == file.by = "data" \/ (file.by = "file" /\ FromPath(file.path) = <<>>)

Insertable(file) ==
    /\ file.readable /\ ValidPath(file.path)
    /\ \/ IsData(file)
       \/ FromPath(file.path) # <<>> /\ (file.by = "module" \/ file.utf8) /\ Transpiles(file)

Key(file) == IF IsData(file) THEN <<"data", file.path>> ELSE <<"module", FromPath(file.path)>>

\* Some file cannot be inserted, or takes the place of another.
Broken(files) ==
    \/ \E i \in DOMAIN files : ~Insertable(files[i])
    \/ \E i, j \in DOMAIN files : i # j /\ Key(files[i]) = Key(files[j])

Expected(files) ==
    LET modules == {i \in DOMAIN files : ~IsData(files[i])}
        PathOf(name) == files[CHOOSE i \in modules : FromPath(files[i].path) = name].path
    IN  IF Broken(files) \/ modules = {} THEN <<>>
        ELSE <<[modules |-> [name \in {FromPath(files[i].path) : i \in modules} |-> PathOf(name)],
                data |-> {files[i].path : i \in DOMAIN files \ modules}]>>

\* A bundle has every file it is made of, each under a name of its own, or is not made at
\* all, in whatever order the files are read (BundleBuilder::insert_file, attempt, build).
BundlesWhole == Built(building) = Expected(added)
===============================================================================

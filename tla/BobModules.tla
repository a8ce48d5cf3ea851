------------------------------ MODULE BobModules ------------------------------
(***************************************************************************)
(* The modules of a build after the mutators that split and flatten them:  *)
(* what each consumes and provides, and the tagged dependencies the later  *)
(* mutators add between them.  A module is a record of its properties; a   *)
(* dependency is a pair of a tag and a module.                             *)
(***************************************************************************)
EXTENDS BobFile, Naturals

CONSTANT Mods    \* module -> its properties

Props == Mods
Modules == DOMAIN Props

Prop(m, p) == Props[m][p]
Kind(m) == Prop(m, "kind")
Enabled(m) == Prop(m, "enabled")

Libraries == {m \in Modules : Kind(m) \in {"binary", "shared", "static"}}
StrictLibraries == {m \in Modules : Kind(m) \in {"strict_library", "strict_binary", "test"}}
GenerateLibraries == {m \in Modules : Kind(m) \in {"generate_static", "generate_shared", "generate_binary"}}
GenerateCommon == GenerateLibraries \cup {m \in Modules : Kind(m) \in {"generate_source", "transform_source"}}
StrictGenerate == {m \in Modules : Kind(m) \in {"genrule", "gensrcs"}}
External == {m \in Modules : Kind(m) = "external"}
Imported == {m \in Modules : Kind(m) = "import_library"}
Toolchains == {m \in Modules : Kind(m) = "toolchain"}
Filegroups == {m \in Modules : Kind(m) = "filegroup"}

(* The Go interfaces the walks ask about *)
Consumers == Libraries \cup StrictLibraries \cup GenerateCommon \cup StrictGenerate
             \cup {m \in Modules : Kind(m) = "resource"}
Providers == Consumers \cup Filegroups \cup Imported \cup {m \in Modules : Kind(m) \in {"kernel_module", "import_binary"}}
Phonies == Modules \ (External \cup Toolchains \cup {m \in Modules : Kind(m) \in {"alias", "install_group"}})

(* Mutant: both variants have one name.                                    *)
UnsplitName(m) == <<Prop(m, "name")>>
(* One name is a phony target for each variant when there are several *)
shortName(m) == IF Prop(m, "variants") > 1 THEN <<Prop(m, "name"), "__", Prop(m, "target")>> ELSE <<Prop(m, "name")>>
outputName(m) == IF Prop(m, "out") = "" THEN Prop(m, "name") ELSE Prop(m, "out")
isBuiltByDefault(m) ==
    IF Prop(m, "default") # "unset" THEN Prop(m, "default") = "yes"
    ELSE \/ Kind(m) \in {"binary", "strict_binary"} /\ Prop(m, "target") = "target"
         \/ Kind(m) = "kernel_module"

getLinkName(m) == <<outputName(m), ".so">>
getSoname(m) == getLinkName(m) \o (IF Prop(m, "version") = <<>> THEN <<>> ELSE <<Head(Prop(m, "version"))>>)
getRealName(m) == getLinkName(m) \o Prop(m, "version")

-----------------------------------------------------------------------------
(* Files *)

LOCAL NewHere(m, name, tags) == New(At(<<>>, name), Prop(m, "target"), tags)
LOCAL NewGenerated(m, path, tags) == New(path, Prop(m, "name"), tags \cup {"generated"})

(* ResolveFiles: the sources a module names itself *)
SourceTags(m) == IF m \in StrictLibraries \cup StrictGenerate \cup Filegroups THEN {} ELSE {"src"}
ImplicitSources(m) ==
    IF m \notin GenerateLibraries /\ Kind(m) # "generate_source" THEN {}
    ELSE {New(At(<<>>, n), Prop(m, "name"), {"implicit"}) : n \in Prop(m, "implicit")}
GetDirectFiles(m) ==
    {New(At(<<>>, n), Prop(m, "name"), SourceTags(m)) : n \in Prop(m, "srcs")} \cup ImplicitSources(m)

(* The other modules a module names as sources.  transform_source leaves   *)
(* out the ones in its srcs.                                               *)
GetTargets(m) ==
    CASE m \in Libraries \cup GenerateLibraries \cup {x \in GenerateCommon : Kind(x) = "generate_source"} ->
           Prop(m, "targets") \cup Prop(m, "generated_sources")
      [] Kind(m) = "transform_source" -> Prop(m, "generated_sources")
      [] OTHER -> Prop(m, "targets")
OutFileTargets(m) == IF m \in Filegroups THEN GetTargets(m) ELSE {}

SharedOutFiles(m) ==
    LET so == NewHere(m, getRealName(m), {"shared", "installable"})
        link1 == NewLink(At(<<>>, getSoname(m)), Prop(m, "target"), so, {"installable"})
        link2 == NewLink(At(<<>>, getLinkName(m)), Prop(m, "target"), link1, {"installable"}) IN
    {so, NewHere(m, getRealName(m) \o <<".toc">>, {"toc", "implicit"})}
        \cup (IF Prop(m, "version") = <<>> THEN {} ELSE {link1, link2})

(* The depfile and response file ModuleGenerateCommon adds to its outputs *)
SideFiles(m) ==
    (IF Prop(m, "rsp") THEN {NewGenerated(m, At(<<>>, <<"." , Prop(m, "name"), ".rsp">>), {"rsp", "implicit"})} ELSE {})
    \cup (IF Prop(m, "depfile") THEN {NewGenerated(m, At(<<>>, <<Prop(m, "name"), ".d">>), {"dep", "implicit"})} ELSE {})

LibExtension(m) == CASE Kind(m) = "generate_static" -> <<".a">> [] Kind(m) = "generate_shared" -> <<".so">> [] OTHER -> <<>>
GeneratedName(m) == <<outputName(m)>> \o LibExtension(m)
GenerateLibraryOutFiles(m) ==
    IF Kind(m) = "generate_binary"
    THEN {NewGenerated(m, At(<<>>, GeneratedName(m)), {"binary", "executable", "installable"})}
    ELSE SideFiles(m) \cup {NewGenerated(m, At(<<>>, GeneratedName(m)), {"installable"})}
         \cup {NewGenerated(m, At(<<>>, h), {"header", "implicit"}) : h \in Prop(m, "headers")}
         \cup (IF Kind(m) = "generate_shared" THEN {NewHere(m, GeneratedName(m) \o <<".toc">>, {"implicit"})} ELSE {})

(* What one source of a transform_source becomes: a file for each of the   *)
(* extensions out.replace puts in place of the matched one                 *)
TransformedPaths(m, f) == {ReplaceExtension(ScopedPath(f), x) : x \in Prop(m, "replace")}
GensrcsPath(m, f) == ReplaceExtension(ScopedPath(f), Prop(m, "output_extension"))

DynamicOutFiles(m, sources) ==
    IF Kind(m) = "gensrcs" THEN {NewGenerated(m, GensrcsPath(m, f), {}) : f \in sources}
    ELSE SideFiles(m) \cup {NewGenerated(m, p, {"installable"}) : p \in UNION {TransformedPaths(m, f) : f \in sources}}

StaticOutFiles(m) ==
    CASE Kind(m) = "binary" -> {NewHere(m, <<outputName(m)>>, {"binary", "executable", "installable"})}
      [] Kind(m) = "shared" -> SharedOutFiles(m)
      [] Kind(m) = "static" -> {NewHere(m, <<outputName(m), ".a">>, {"archive", "installable"})}
      [] Kind(m) = "strict_library" -> {NewHere(m, <<Prop(m, "name"), ".a">>, {"archive", "installable"}),
                                        NewHere(m, <<Prop(m, "name"), ".so">>, {"shared", "installable"})}
      [] Kind(m) \in {"strict_binary", "test"} -> {NewHere(m, <<Prop(m, "name")>>, {"binary", "installable"})}
      [] m \in GenerateLibraries -> GenerateLibraryOutFiles(m)
      [] Kind(m) = "generate_source" ->
           {NewGenerated(m, At(<<>>, n), {"installable"}) : n \in Range(Prop(m, "outs"))} \cup SideFiles(m)
      [] Kind(m) = "genrule" -> {NewGenerated(m, At(<<>>, n), {}) : n \in Range(Prop(m, "outs"))}
      [] Kind(m) = "kernel_module" ->
           {New(At(<<>>, <<Prop(m, "name"), ".ko">>), Prop(m, "name"), {"kernel", "installable"})}
      [] Kind(m) = "resource" -> {[f EXCEPT !.tags = @ \cup {"installable"}] : f \in GetDirectFiles(m)}
      [] m \in Filegroups -> GetDirectFiles(m)
      [] Kind(m) \in {"import_library", "import_binary"} ->
           {New(At(<<>>, n), "", {"src"}) : n \in Prop(m, "srcs")}
      [] OTHER -> {}

-----------------------------------------------------------------------------
(* Dependencies *)

On(t, S) == {<<t, x>> : x \in S}

(* ResolveGenericDepsMutator: how a dependency listed in deps is linked *)
GenericDeps(m) ==
    UNION {CASE Kind(d) = "static" -> On("static", {d})
             [] Kind(d) = "shared" -> On("shared", {d})
             [] Kind(d) = "strict_library" ->
                  On(IF ~Prop(d, "linkstatic") THEN "shared"
                     ELSE IF Prop(d, "alwayslink") THEN "whole_static" ELSE "static", {d})
             [] OTHER -> {} : d \in Prop(m, "deps")}

DependerDeps(m) ==
    IF ~Enabled(m) THEN {} ELSE
    On("filegroup", OutFileTargets(m)) \cup On("install_dep", Prop(m, "install_deps"))
    \cup (IF m \in Consumers THEN On("filegroup", GetTargets(m)) ELSE {})
    \cup (IF m \notin Libraries THEN {}
          ELSE On("whole_static", Prop(m, "whole_static_libs")) \cup On("static", Prop(m, "static_libs"))
               \cup On("header", Prop(m, "header_libs") \cup Prop(m, "export_header_libs"))
               \cup On("shared", Prop(m, "shared_libs")))
    \cup (IF m \in StrictLibraries THEN On("dep", Prop(m, "deps")) \cup On("toolchain", Prop(m, "toolchain"))
                                        \cup GenericDeps(m)
          ELSE {})
    \cup (IF Kind(m) = "kernel_module" THEN On("kernel_module", Prop(m, "extra_symbols")) ELSE {})

AliasDeps(m) ==
    (IF Kind(m) = "alias" THEN On("alias", Prop(m, "targets")) ELSE {})
    \cup On("alias", {x \in Modules : m \in Prop(x, "add_to_alias")})

GeneratedDependerDeps(m) ==
    IF ~Enabled(m) THEN {} ELSE
    (IF m \notin Libraries THEN {}
     ELSE On("generated_sources", Prop(m, "generated_sources")) \cup On("generated_headers", Prop(m, "generated_headers"))
          \cup On("export_generated_headers", Prop(m, "export_generated_headers"))
          \cup On("generated", Prop(m, "generated_deps")))
    \cup (IF m \notin GenerateCommon THEN {}
          ELSE On("host_tool", Prop(m, "host_bin")) \cup On("generated_sources", Prop(m, "generated_sources"))
               \cup On("generated", Prop(m, "generated_deps") \cup Prop(m, "tool_targets")))
    \cup (IF m \notin StrictGenerate THEN {}
          ELSE On("generated_sources", Prop(m, "targets")) \cup On("host_tool", Prop(m, "host_bin"))
               \cup On("generated", Prop(m, "targets") \cup Prop(m, "tool_targets")))

(* Everything reachable from S by the edges R *)
Closure(S, R) ==
    LET steps == Cardinality({e[1] : e \in R})
        within[n \in 0 .. steps] ==
            IF n = 0 THEN S
            ELSE LET T == within[n - 1] IN T \cup {e[2] : e \in {x \in R : x[1] \in T}}
    IN within[steps]
LOCAL EdgesOf(next(_)) == UNION {{x} \X next(x) : x \in Modules}

OnTag(edges, tags) == {e[2] : e \in {x \in edges : x[1] \in tags}}

(* The libraries the link of m needs of its static libraries' own: the     *)
(* static ones not already inside a whole one, and the shared ones         *)
WholeEdges == EdgesOf(LAMBDA x : Prop(x, "whole_static_libs"))
StaticEdges == EdgesOf(LAMBDA x : IF x \in Libraries THEN Prop(x, "static_libs") \cup Prop(x, "whole_static_libs")
                                  ELSE {})
Contained(S) == Closure(UNION {Prop(x, "whole_static_libs") : x \in S}, WholeEdges)
Linkable(m) == Closure(Prop(m, "static_libs") \cup Prop(m, "whole_static_libs"), StaticEdges)
ResolvedStaticLibs(m) ==
    IF m \notin Libraries THEN {} ELSE Linkable(m) \ Contained(Linkable(m) \cup {m})
(* exportLibFlagsMutator: what is linked into m brings its shared libraries *)
ExtraSharedLibs(m) ==
    IF Kind(m) \notin {"binary", "shared"} THEN {} ELSE UNION {Prop(x, "shared_libs") : x \in Linkable(m)}
SortedDeps(m) == IF Enabled(m) THEN On("static", ResolvedStaticLibs(m)) \cup On("shared", ExtraSharedLibs(m)) ELSE {}

(* collectReexportLibsDependenciesMutator walks down the libraries a       *)
(* module links for as long as each passes on what the next one exports.   *)
LinkEdges(m) == {e \in DependerDeps(m) \cup SortedDeps(m) : e[1] \in {"whole_static", "static", "shared"}
                                                           /\ e[2] \in Libraries}
PassedLibs(m, p, x) ==
    IF p = m \/ x \in Prop(p, "reexport_libs") THEN Prop(x, "reexport_libs") ELSE {}
PassedHeaders(m, p, x) ==
    IF p = m \/ x \in Prop(p, "export_generated_headers") THEN Prop(x, "export_generated_headers") ELSE {}
Passed(m, p, x) == PassedLibs(m, p, x) \cup PassedHeaders(m, p, x)
Linking == Table([m \in Modules |-> {e[2] : e \in LinkEdges(m)}])
ReexportWalk(m) ==
    Closure({m}, EdgesOf(LAMBDA p : {x \in Linking[p] : Passed(m, p, x) # {}}))
ReexportDeps(m) ==
    IF m \notin Libraries \/ ~Enabled(m) THEN {}
    ELSE On("reexport", UNION {Passed(m, d[1], d[2]) : d \in UNION {{p} \X Linking[p] : p \in ReexportWalk(m)}})

Deps == Table([m \in Modules |->
    DependerDeps(m) \cup AliasDeps(m) \cup GeneratedDependerDeps(m) \cup SortedDeps(m) \cup ReexportDeps(m)])
DepsTagged(m, tags) == OnTag(Deps[m], tags)

(* ReferenceGetFilesImpl: on through every provider that does not consume, *)
(* whatever the edge; what a filegroup edge leads to is a source.          *)
Provided(files) == {f \in files : ~IsType(f, "rsp") /\ ~IsType(f, "dep")}
Sources(m, edges) ==
    LET through == Providers \ Consumers
        walked == {m} \cup Closure({e[2] : e \in edges[m]} \cap through,
                                   EdgesOf(LAMBDA x : {e[2] : e \in edges[x]} \cap through)) IN
    UNION {OnTag(edges[x], {"filegroup"}) : x \in walked}

(* Dynamic outputs are resolved bottom-up, before the later mutators run *)
EarlyDeps == Table([m \in Modules |-> DependerDeps(m)])
OutFiles[m \in Modules] ==
    IF Kind(m) \notin {"gensrcs", "transform_source"} THEN StaticOutFiles(m)
    ELSE DynamicOutFiles(m, GetDirectFiles(m) \cup
                            UNION {Provided(OutFiles[x]) : x \in Sources(m, EarlyDeps) \cap Providers})

Outs == Table([m \in Modules |-> OutFiles[m]])
GetFiles == Table([m \in Modules |->
    GetDirectFiles(m) \cup UNION {Provided(Outs[x]) : x \in Sources(m, Deps) \cap Providers}])

(* Mutant: only the generators the module names itself.                    *)
NamedHeaderModules(m) == DepsTagged(m, {"generated_headers", "export_generated_headers"})
(* Files a compile of m must wait for, as it may include them *)
ImportedHeaderModules(m) ==
    DepsTagged(m, {"generated_headers", "export_generated_headers", "static", "shared", "reexport"})
    \cup UNION {DepsTagged(x, {"export_generated_headers"}) : x \in DepsTagged(m, {"static", "shared", "reexport"})}
GetGeneratedHeadersFiles(m) ==
    BuildPaths({f \in UNION {Outs[x] : x \in ImportedHeaderModules(m) \cap Providers} :
        (IsType(f, "generated") \/ IsType(f, "implicit")) /\ f.tags \cap {"rsp", "dep", "toc"} = {}})

(* The generators whose directories are on the include path of m: the      *)
(* exported flags of every direct dependency, whatever its tag             *)
IncludedGenerators(m) == {x \in {e[2] : e \in Deps[m]} : Prop(x, "export_gen_include_dirs")}
=============================================================================

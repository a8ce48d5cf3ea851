--------------------------- MODULE AndroidBpModules ---------------------------
(***************************************************************************)
(* The androidbp back end, module by module: what each Bob module becomes  *)
(* in Android.bp.  A Soong module is a type, a name and, for each of its   *)
(* properties, the set of names, sources or flags it lists.  An empty list *)
(* is not written, so it is the same as an absent one.                     *)
(***************************************************************************)
EXTENDS BobFlags, LinuxBackend

Enableable == Libraries \cup StrictLibraries \cup GenerateCommon \cup StrictGenerate \cup Filegroups
              \cup {m \in Modules : Kind(m) \in {"resource", "kernel_module"}}

(* generatedDependerMutator: only the ninja back ends follow what the srcs *)
(* and tool_files of a genrule name                                        *)
AndroidEdges(m) ==
    DependerDeps(m) \cup AliasDeps(m) \cup SortedDeps(m)
    \cup {e \in GeneratedDependerDeps(m) : m \in StrictGenerate => e[1] = "host_tool"}

(* findRequiredModulesMutator: from what is built by default, through      *)
(* every dependency, up to what is disabled                                *)
IsTop(m) == IF m \in Enableable THEN Enabled(m) /\ isBuiltByDefault(m) ELSE Kind(m) # "alias"
Required ==
    Closure({m \in Modules : IsTop(m)},
            UNION {{m} \X {x \in {e[2] : e \in AndroidEdges(m)} : Enabled(x)} : m \in Modules})
enabledAndRequired(m) == m \in Enableable => Enabled(m) /\ m \in Required

-----------------------------------------------------------------------------
(* Where a module is installed *)

expandAndroidMkInstallVars(path) ==
    LET to == CASE path = <<>> -> <<>>
                [] Head(path) \in {"$(TARGET_OUT)", "$(TARGET_OUT_SYSTEM)", "$(TARGET_OUT_VENDOR)"} -> <<>>
                [] Head(path) = "$(TARGET_OUT_DATA)" -> <<"data">>
                [] Head(path) \in {"$(TARGET_OUT_ETC)", "$(TARGET_OUT_VENDOR_ETC)"} -> <<"etc">>
                [] Head(path) \in {"$(TARGET_OUT_EXECUTABLES)", "$(TARGET_OUT_VENDOR_EXECUTABLES)"} -> <<"bin">>
                [] Head(path) \in {"$(TARGET_OUT_SHARED_LIBRARIES)", "$(TARGET_OUT_VENDOR_SHARED_LIBRARIES)"} -> <<"lib">>
                [] Head(path) \in {"$(TARGET_OUT_TESTCASES)", "$(TARGET_OUT_DATA_NATIVE_TEST)"} -> <<"tests">>
                [] OTHER -> <<Head(path)>> IN
    IF path = <<>> THEN path ELSE to \o Tail(path)
(* The longer prefix first; a path that has none is all base *)
findAndroidInstallLocationSplit(path) ==
    CASE Len(path) >= 2 /\ SubSeq(path, 1, 2) \in {<<"etc", "firmware">>, <<"data", "nativetest">>} -> 2
      [] Len(path) >= 1 /\ path[1] \in {"bin", "lib", "etc", "firmware", "data", "tests"} -> 1
      [] OTHER -> Len(path)
splitAndroidPath(path) ==
    LET n == findAndroidInstallLocationSplit(path) IN [base |-> SubSeq(path, 1, n), rel |-> SubSeq(path, n + 1, Len(path))]
InstallsSoong(m) == Prop(m, "install_path") # <<>>
getSoongInstallPath(m) ==
    LET split == splitAndroidPath(expandAndroidMkInstallVars(Prop(m, "install_path"))) IN
    CASE ~InstallsSoong(m) -> [base |-> <<>>, rel |-> <<>>]
      [] split.base = <<"etc", "firmware">> -> [split EXCEPT !.base = <<"firmware">>]
      [] split.base = <<"data", "nativetest">> -> [split EXCEPT !.base = <<"tests">>]
      [] OTHER -> split

-----------------------------------------------------------------------------
(* Names *)

(* A resource becomes one Soong module a file; slashes become underscores  *)
ResourceFiles(m) == GetFiles[m]
getAndroidbpResourceName(m, f) ==
    shortName(m) \o <<"__">> \o [i \in DOMAIN f.path.name |-> IF f.path.name[i] = "/" THEN "_" ELSE f.path.name[i]]
ResourceNames(m) == {getAndroidbpResourceName(m, f) : f \in ResourceFiles(m)}

(* The direct dependency a name stands for: the last that has it *)
Answering(m, n) ==
    SelectSeq(DirectDeps[m], LAMBDA e : <<Prop(e[2], "name")>> = n \/ (e[2] \in Libraries /\ shortName(e[2]) = n))
(* Mutant: a library with two variants is named as if it had one.          *)
bpModuleNamesUnsplit(m, n) ==
    LET dep == Last(Answering(m, n))[2] IN
    IF Kind(dep) = "resource" THEN ResourceNames(dep) ELSE {<<Prop(dep, "name")>>}
bpModuleNamesForDep(m, n) ==
    LET dep == Last(Answering(m, n))[2] IN
    CASE Kind(dep) = "resource" -> ResourceNames(dep)
      [] dep \in Libraries \/ Kind(dep) = "strict_library" -> {shortName(dep)}
      [] OTHER -> {<<Prop(dep, "name")>>}
Nameless(m, n) ==
    \/ Answering(m, n) = <<>>
    \/ Kind(Last(Answering(m, n))[2]) = "resource" /\ ResourceNames(Last(Answering(m, n))[2]) = {}
NameOf(x) == <<Prop(x, "name")>>
bpModuleNamesForDeps(m, S) == UNION {bpModuleNamesForDep(m, NameOf(x)) : x \in S}

(* Mutant: the libraries a module loads are not installed with it.         *)
ListedInstallDepModules(m) == Prop(m, "install_deps")
(* What must be installed with a library, by its short name; one variant   *)
(* of each name                                                            *)
InstallDepModules(m) ==
    Range(FirstBy(LAMBDA x : Prop(x, "name"),
        LET deps == SelectSeq(DirectDeps[m], LAMBDA e : e[1] \in {"install_dep", "shared"} /\ e[2] \notin External) IN
        [i \in DOMAIN deps |-> deps[i][2]]))
addRequiredModules(m) ==
    IF ~InstallsSoong(m) THEN {} ELSE UNION {bpModuleNamesForDep(m, shortName(x)) : x \in InstallDepModules(m)}

-----------------------------------------------------------------------------
(* C modules *)

MachineFlags == {"-mthumb", "-marm", "-mno-thumb", "-m32"}
StandardFlags == {"-std=c99", "-std=c++14"}
AndroidCompileFlags(texts) == {t \in texts : t[1] \notin MachineFlags \cup StandardFlags}
AndroidLinkFlags(texts) == {t \in texts : t[1] \notin MachineFlags}
GetCompilerStandard(flags) == LET std == SelectSeq(flags, LAMBDA t : t[1] \in StandardFlags) IN
                              IF std = <<>> THEN {} ELSE {Last(std)}
(* Thumb and arm are both asked for *)
GetArmModeFails(texts) == <<"-mthumb">> \in texts /\ {<<"-marm">>, <<"-mno-thumb">>} \cap texts # {}
GetArmMode(texts) ==
    CASE <<"-mthumb">> \in texts -> {"thumb"} [] {<<"-marm">>, <<"-mno-thumb">>} \cap texts # {} -> {"arm"} [] OTHER -> {}

SoongModule(type, name) ==
    [type |-> type, name |-> name, owner |-> {}, srcs |-> {}, cflags |-> {}, ldflags |-> {}, includes |-> {},
     export_includes |-> {}, std |-> {}, arm |-> {}, static_libs |-> {}, shared_libs |-> {}, whole_static_libs |-> {},
     header_libs |-> {}, reexported |-> {}, generated_sources |-> {}, generated_headers |-> {},
     export_generated_headers |-> {}, required |-> {}, uses |-> {}, sanitize |-> <<>>, multilib |-> FALSE]
(* Compilable and not generated: those come by generated_sources           *)
OwnSources(m) == BuildPaths({f \in Compiled(m) : ~IsType(f, "generated")})
Exported(m) ==
    Texts(SelectSeq(FlagsInTransitive[m],
                    LAMBDA f : MatchesType(f, {"exported"}) /\ MatchesType(f, {"cc"}) /\ ~MatchesType(f, {"include"})))
LibraryCflags(m) == Texts(SelectSeq(FlagsIn(m), LAMBDA f : f.types = {"cc"})) \o Exported(m)
Own(m, v) == Texts(SelectSeq(FlagsIn(m), LAMBDA f : Variable(f) = v /\ ~MatchesType(f, {"include"})))

(* Soong takes directories, and does the exporting itself *)
Dirs(m, p, root) == {<<root, d>> : d \in Range(Strings(m, p))}
Dir(f) == Tail(toStringInclude(f))

TaggedNames(m, t) == {NameOf(x) : x \in DepsTagged(m, {t})}
(* A library passed on is one of those linked by name, or is not passed on *)
Reexported(m, shared, static, header) ==
    bpModuleNamesForDeps(m, Prop(m, "reexport_libs")) \cap (shared \cup static \cup header)

(* Mutant: the libraries a static library brings are left out.             *)
DeclaredStaticLibNames(m) == bpModuleNamesForDeps(m, Prop(m, "static_libs"))
StaticLibNames(m) == bpModuleNamesForDeps(m, ResolvedStaticLibs(m))
SharedLibNames(m) == bpModuleNamesForDeps(m, Prop(m, "shared_libs") \cup ExtraSharedLibs(m))
addCcLibraryProps(m, mod) ==
    LET static == StaticLibNames(m)
        header == bpModuleNamesForDeps(m, Prop(m, "header_libs") \cup Prop(m, "export_header_libs"))
        cflags == LibraryCflags(m) IN
    [mod EXCEPT !.srcs = OwnSources(m),
                !.generated_sources = TaggedNames(m, "generated_sources"),
                !.generated_headers = TaggedNames(m, "generated_headers") \cup TaggedNames(m, "export_generated_headers"),
                !.export_generated_headers = TaggedNames(m, "export_generated_headers"),
                !.cflags = AndroidCompileFlags(Range(cflags \o Own(m, "conlyflags") \o Own(m, "cxxflags"))),
                !.ldflags = AndroidLinkFlags({<<t>> : t \in Range(StringsOf(LinkOptions(m), "ldflags"))}),
                !.std = GetCompilerStandard(cflags \o Own(m, "conlyflags")) \cup GetCompilerStandard(cflags \o Own(m, "cxxflags")),
                !.arm = GetArmMode(Range(cflags \o Own(m, "conlyflags") \o Own(m, "cxxflags"))),
                !.includes = Dirs(m, "include_dirs", "") \cup Dirs(m, "local_include_dirs", "$SrcDir")
                              \cup Dirs(m, "export_local_system_include_dirs", "$SrcDir"),
                !.shared_libs = SharedLibNames(m),
                !.static_libs = static,
                !.whole_static_libs = bpModuleNamesForDeps(m, Prop(m, "whole_static_libs")),
                !.header_libs = header,
                !.reexported = bpModuleNamesForDeps(m, Prop(m, "export_header_libs"))
                               \cup Reexported(m, SharedLibNames(m), static, header),
                !.owner = Prop(m, "owners"),
                !.required = addRequiredModules(m)]
(* The ways in which it gives up *)
LibraryDies(m) ==
    \/ Strings(m, "export_include_dirs") # <<>> \/ Strings(m, "export_system_include_dirs") # <<>>
    \/ GetArmModeFails(Range(LibraryCflags(m) \o Own(m, "conlyflags") \o Own(m, "cxxflags")))
    \/ \E x \in Prop(m, "shared_libs") \cup ExtraSharedLibs(m) \cup ResolvedStaticLibs(m) \cup Prop(m, "whole_static_libs")
              \cup Prop(m, "reexport_libs") : Nameless(m, NameOf(x))
    \/ InstallsSoong(m) /\ (\/ InstallDepModules(m) \ Phonies # {}
                            \/ \E x \in InstallDepModules(m) : Nameless(m, shortName(x)))
    \/ Prop(m, "post_install_tool") # {}
    \/ DepsTagged(m, {"generated_sources", "generated_headers", "export_generated_headers"})
           \ {x \in Modules : Kind(x) \in {"generate_source", "transform_source", "genrule", "gensrcs"}} # {}
    \/ Cardinality(Prop(m, "owners")) > 1

(* Soong builds one architecture of a generated library *)
LinkedBelow == UNION {{m} \X DepsTagged(m, {"static", "shared", "whole_static"}) : m \in Modules}
linksToGeneratedLibrary(m) == (Closure({m}, LinkedBelow) \ {m}) \cap GenerateLibraries # {}
BothArchitectures(m) == Prop(m, "target") = "target" /\ ~linksToGeneratedLibrary(m)

(* A group of properties is written each time it is asked for *)
BackendConfigurations(m) == IF m \in Libraries THEN {m} ELSE Prop(m, "toolchain")
MteProps(m) == UNION {Prop(x, "mte") : x \in BackendConfigurations(m)}
addMTEProps(m) == IF "memtag_heap" \in MteProps(m) THEN <<MteProps(m)>> ELSE <<>>
addHWASANProps(m) ==
    IF (\E x \in BackendConfigurations(m) : Prop(x, "hwasan")) /\ "diag_memtag_heap" \notin MteProps(m)
    THEN <<{"hwaddress"}>> ELSE <<>>

addBinaryProps(m, mod) ==
    [mod EXCEPT !.multilib = InstallsSoong(m) /\ BothArchitectures(m), !.sanitize = addMTEProps(m) \o addHWASANProps(m)]
addStaticOrSharedLibraryProps(m, mod) ==
    [mod EXCEPT !.export_includes = Dirs(m, "export_local_include_dirs", "$SrcDir")
                                    \cup Dirs(m, "export_local_system_include_dirs", "$SrcDir"),
                !.multilib = BothArchitectures(m), !.sanitize = addHWASANProps(m)]

HostOr(m, host, target) == IF Prop(m, "target") = "host" THEN host ELSE target
binaryActions_bp(m) ==
    LET type == IF getSoongInstallPath(m).base = <<"tests">> THEN HostOr(m, "cc_test_host", "cc_test")
                ELSE HostOr(m, "cc_binary_host", "cc_binary") IN
    {addBinaryProps(m, addCcLibraryProps(m, SoongModule(type, shortName(m))))}
sharedActions_bp(m) ==
    {addStaticOrSharedLibraryProps(m, addCcLibraryProps(m,
        SoongModule(HostOr(m, "cc_library_host_shared", "cc_library_shared"), shortName(m))))}
staticActions_bp(m) ==
    {addStaticOrSharedLibraryProps(m, addCcLibraryProps(m,
        SoongModule(HostOr(m, "cc_library_host_static", "cc_library_static"), shortName(m))))}
(* Where a library or a program can be installed *)
BaseDies(m) ==
    getSoongInstallPath(m).base \notin
        (CASE Kind(m) = "binary" -> {<<>>, <<"bin">>, <<"tests">>} [] Kind(m) = "shared" -> {<<>>, <<"lib">>}
           [] OTHER -> {getSoongInstallPath(m).base})

(* Strict modules: names by the tag of the dependency, and every flag that *)
(* reaches them but the directories, which are only the module's own.      *)
TagNames(m, t) == bpModuleNamesForDeps(m, DepsTagged(m, {t}))
IncludesIn(flags) == {Dir(f) : f \in {g \in Range(flags) : "include" \in g.types}}
addCompilableProps(m, mod) ==
    LET reaching == {f \in Range(FlagsInTransitive[m]) : "include" \notin f.types}
        compile == {FlagString(f) : f \in {g \in reaching : Variable(g) \in {"cflags", "conlyflags", "cxxflags"}}}
        ordered == Texts(SelectSeq(FlagsInTransitive[m], LAMBDA f : f \in reaching /\ Variable(f) # "none")) IN
    [mod EXCEPT !.srcs = OwnSources(m),
                !.cflags = AndroidCompileFlags(compile),
                !.ldflags = AndroidLinkFlags({FlagString(f) : f \in {g \in reaching :
                                Variable(g) = "none" /\ MatchesType(g, {"linker", "transitive_linker"})}}),
                !.std = GetCompilerStandard(ordered),
                !.arm = IF GetArmModeFails(compile) THEN {} ELSE GetArmMode(compile),
                !.includes = IncludesIn(FlagsIn(m)),
                !.export_includes = IF Kind(m) # "strict_library" THEN {}
                                    ELSE IncludesIn(SelectSeq(FlagsOut(m), LAMBDA f : {"exported", "local"} \subseteq f.types)),
                !.shared_libs = TagNames(m, "shared"),
                !.static_libs = TagNames(m, "static"),
                !.whole_static_libs = TagNames(m, "whole_static"),
                !.generated_sources = TagNames(m, "generated_sources"),
                !.generated_headers = TagNames(m, "generated_headers"),
                !.export_generated_headers = TaggedNames(m, "export_generated_headers"),
                !.sanitize = addMTEProps(m) \o addHWASANProps(m),
                !.owner = Prop(m, "owners") \cup UNION {Prop(x, "owners") : x \in DepsTagged(m, {"toolchain"})},
                !.multilib = Kind(m) # "test" /\ BothArchitectures(m)]
strictLibraryActions_bp(m) == {addCompilableProps(m, SoongModule("cc_library", shortName(m)))}
executableTestActions(m) == {addCompilableProps(m, SoongModule(HostOr(m, "cc_test_host", "cc_test"), shortName(m)))}
strictBinaryActions_bp(m) ==
    {addCompilableProps(m, SoongModule(HostOr(m, "cc_binary_host", "cc_binary"), shortName(m)))}
StrictDies(m) ==
    \/ \E x \in DepsTagged(m, {"shared", "static", "whole_static"}) : Nameless(m, NameOf(x))
    \/ Cardinality(Prop(m, "owners") \cup UNION {Prop(x, "owners") : x \in DepsTagged(m, {"toolchain"})}) > 1

-----------------------------------------------------------------------------
(* The other kinds *)

OwnFiles(m) == BuildPaths(GetDirectFiles(m))
ColonNames(m) == {NameOf(x) : x \in Prop(m, "targets")}
ResourceType(m) ==
    LET base == getSoongInstallPath(m).base IN
    CASE base \in {<<"data">>, <<"tests">>} -> "prebuilt_data_bob" [] base = <<"etc">> -> "prebuilt_etc"
      [] base = <<"firmware">> -> "prebuilt_firmware" [] base = <<"bin">> -> "cc_prebuilt_binary" [] OTHER -> "none"
resourceActions_bp(m) ==
    {[SoongModule(ResourceType(m), getAndroidbpResourceName(m, f)) EXCEPT !.srcs = {BuildPath(f)}, !.owner = Prop(m, "owners")] :
        f \in ResourceFiles(m)}
filegroupActions(m) ==
    {[SoongModule("filegroup", shortName(m)) EXCEPT !.srcs = OwnFiles(m), !.uses = ColonNames(m), !.owner = Prop(m, "owners")]}

(* A tool is named after its variant when it has more than one *)
ToolName(x) == IF Prop(x, "variants") > 1 THEN <<Prop(x, "name"), "__", Prop(x, "target")>> ELSE NameOf(x)
androidGenerateCommonActions(m, mod) ==
    [mod EXCEPT !.srcs = OwnFiles(m),
                !.uses = ColonNames(m) \cup {NameOf(x) : x \in Prop(m, "tool_targets")}
                         \cup {ToolName(x) : x \in Prop(m, "host_bin")},
                !.export_includes = IF Prop(m, "export_gen_include_dirs") THEN {<<"gen", Prop(m, "name")>>} ELSE {}]
genruleActions_bp(m) == {androidGenerateCommonActions(m, SoongModule(Kind(m), shortName(m)))}

populateCommonProps(m, mod) ==
    [mod EXCEPT !.uses = @ \cup bpModuleNamesForDeps(m, Prop(m, "host_bin"))
                         \cup {shortName(x) : x \in DepsTagged(m, {"generated"}) \ Filegroups},
                !.generated_sources = {shortName(x) : x \in DepsTagged(m, {"generated_sources"})},
                !.export_includes = IF Prop(m, "export_gen_include_dirs") THEN {<<"gen", Prop(m, "name")>>} ELSE {}]
generateSourceActions_bp(m) ==
    {populateCommonProps(m, [SoongModule("genrule_bob", shortName(m)) EXCEPT !.srcs = OwnFiles(m), !.uses = ColonNames(m)])}
transformSourceActions(m) ==
    {populateCommonProps(m, [SoongModule("gensrcs_bob", shortName(m)) EXCEPT !.srcs = OwnFiles(m)])}

(* An alias stands for what the aliases below it do; without any, for      *)
(* nothing, and is not written                                             *)
AliasedBy(m) ==
    LET below(x) == {y \in {e[2] : e \in Deps[x]} : enabledAndRequired(x) /\ enabledAndRequired(y)}
        aliases == {m} \cup Closure({y \in below(m) : Kind(y) = "alias"},
                                   UNION {{x} \X {y \in below(x) : Kind(y) = "alias"} : x \in Modules}) IN
    {y \in UNION {below(x) : x \in aliases} : Kind(y) # "alias"}
aliasActions_bp(m) ==
    LET names == UNION {IF Kind(x) = "resource" THEN ResourceNames(x)
                        ELSE {IF x \in Phonies THEN shortName(x) ELSE NameOf(x)} : x \in AliasedBy(m)} IN
    IF names = {} THEN {} ELSE {[SoongModule("phony", NameOf(m)) EXCEPT !.required = names]}

-----------------------------------------------------------------------------
(* GenerateBuildActions: what a module writes, and when it ends the run *)

BpModules(m) ==
    CASE m \in Filegroups -> filegroupActions(m)
      [] Kind(m) = "alias" -> aliasActions_bp(m)
      [] m \in StrictGenerate -> IF Enabled(m) THEN genruleActions_bp(m) ELSE {}
      [] ~enabledAndRequired(m) -> {}
      [] Kind(m) = "binary" -> binaryActions_bp(m)
      [] Kind(m) = "shared" -> sharedActions_bp(m)
      [] Kind(m) = "static" -> staticActions_bp(m)
      [] Kind(m) = "strict_library" -> strictLibraryActions_bp(m)
      [] Kind(m) = "strict_binary" -> strictBinaryActions_bp(m)
      [] Kind(m) = "test" -> executableTestActions(m)
      [] Kind(m) = "resource" -> resourceActions_bp(m)
      [] Kind(m) = "generate_source" -> generateSourceActions_bp(m)
      [] Kind(m) = "transform_source" -> transformSourceActions(m)
      [] OTHER -> {}
GenerateDies(m) ==
    \/ \E x \in Prop(m, "host_bin") : Nameless(m, NameOf(x)) \/ Kind(x) \notin {"binary", "generate_binary", "import_binary"}
    \/ (DepsTagged(m, {"generated_sources"}) \cup (DepsTagged(m, {"generated"}) \ Filegroups)) \ Phonies # {}
(* The names of its files clash even before those of other modules do      *)
ResourceDies(m) ==
    \/ ResourceType(m) = "none" \/ Cardinality(Prop(m, "owners")) > 1
    \/ Cardinality(ResourceNames(m)) # Cardinality(ResourceFiles(m))
Dies(m) ==
    \/ m \in Filegroups /\ Cardinality(Prop(m, "owners")) > 1
    \/ /\ enabledAndRequired(m)
       /\ CASE m \in Libraries -> LibraryDies(m) \/ BaseDies(m)
            [] m \in StrictLibraries -> StrictDies(m)
            [] m \in GenerateLibraries \/ Kind(m) = "kernel_module" -> TRUE
            [] m \in GenerateCommon -> GenerateDies(m)
            [] Kind(m) = "resource" -> ResourceDies(m)
            [] OTHER -> FALSE
=============================================================================

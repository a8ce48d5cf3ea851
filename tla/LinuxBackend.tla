----------------------------- MODULE LinuxBackend -----------------------------
(***************************************************************************)
(* The linux back end: the ninja statements each kind of module becomes.   *)
(* A statement has outputs, inputs, implicit inputs, order-only inputs,    *)
(* and the files its command opens ("reads"): those follow from the        *)
(* arguments the command is given, not from the inputs it declares.        *)
(* toc says whether users of a shared library depend on its table of       *)
(* contents instead of on the library (BOB_ALWAYS_LINK_SHARED_LIBS).       *)
(***************************************************************************)
EXTENDS BobGenerated

Statement(rule, outs, in, imp, ord, reads) ==
    [rule |-> rule, outs |-> outs, in |-> in, imp |-> imp, ord |-> ord, reads |-> reads,
     restat |-> FALSE, default |-> FALSE]

(* The files a command opens when it opens f: f, and what f links to *)
Followed(f) == {BuildPath(g) : g \in {f} \cup f.symlink \cup UNION {h.symlink : h \in f.symlink}}

addPhony(m, installDeps, optional) ==
    [Statement("phony", {At(<<>>, shortName(m))}, installDeps, {}, {}, {}) EXCEPT !.default = ~optional]
PhonyOf(m, installDeps) == addPhony(m, installDeps, ~isBuiltByDefault(m))

(* Generated commands run under the restat rule *)
touchRule(main, extra) == Statement("touch", extra, {main}, {}, {}, {})

(* buildRules: ninja allows one output with a depfile, so the command is   *)
(* declared to make the first and a touch to make the others from it.      *)
BuildRule(io, dependents, needed) ==
    LET split == io.depfile /\ Len(io.outs) > 1
        outs == IF split THEN {io.outs[1]} ELSE Range(io.outs)
        rule == IF split THEN "gen_split" ELSE IF io.depfile THEN "gen_dep" ELSE "gen"
        gen == Statement(rule, outs, io.in, io.implicitSrcs \cup dependents, {}, io.in \cup io.implicitSrcs \cup needed) IN
    {[gen EXCEPT !.restat = TRUE]} \cup (IF split THEN {touchRule(io.outs[1], Range(Tail(io.outs)))} ELSE {})

(* What a generating command opens: its sources, the tools it is given,    *)
(* the host binary and every shared library that loads with it             *)
LoadedLibs(m) ==
    Closure(UNION {DepsTagged(b, {"shared"}) : b \in DepsTagged(m, {"host_tool"})}, SharedEdges)
        \ (External \cup Imported)
getSharedLibLinkPath(m) ==
    IF Kind(m) = "strict_library"
    THEN Join(SharedLibsDir(Prop(m, "target")), BuildPath(CHOOSE f \in Outs[m] : IsType(f, "shared")))
    ELSE At(SharedLibsDir(Prop(m, "target")), IF Kind(m) = "shared" THEN getLinkName(m) ELSE GeneratedName(m))
CommandReads(m) ==
    DependentFiles(m) \cup DependentTools(m) \cup (UNION {GetOutputs(Outs[x]) : x \in DepsTagged(m, {"host_tool"})})
    \cup {getSharedLibLinkPath(x) : x \in LoadedLibs(m)}
generateCommonActions(m) == UNION {BuildRule(io, Dependents(m), CommandReads(m)) : io \in Inouts(m)}
generateStrictCommonActions(m) == UNION {BuildRule(io, Dependents(m), CommandReads(m)) : io \in Inouts(m)}

-----------------------------------------------------------------------------
(* Compiling and linking *)

ObjDir(m) == BuildDir \o <<Prop(m, "target"), "objects", outputName(m)>>
Compiled(m) == {f \in GetFiles[m] : Ext(f.path.name) \in {".s", ".S", ".c", ".cc", ".cpp"}}
ObjectFile(m, f) == LET p == RelBuildPath(f) IN At(ObjDir(m) \o p.dir, p.name \o <<".o">>)
Objects(m) == {ObjectFile(m, f) : f \in Compiled(m)}
NonCompiledDeps(m) == BuildPaths(GetFiles[m] \ Compiled(m))
BuildWrapperDeps(m) == IF m \in Libraries /\ Prop(m, "wrapper") THEN DependentFiles(m) ELSE {}
IncludableHeaders(m) ==
    BuildPaths(UNION {{f \in Outs[x] : IsType(f, "generated") /\ IsType(f, "header")} : x \in IncludedGenerators(m)})
CompileObjs(m) ==
    {Statement("compile", {ObjectFile(m, f)}, {BuildPath(f)}, {}, GetGeneratedHeadersFiles(m) \cup BuildWrapperDeps(m),
               {BuildPath(f)} \cup IncludableHeaders(m) \cup BuildWrapperDeps(m)) : f \in Compiled(m)}

Archives(S) == BuildPaths(UNION {Tagged(Outs[x], "archive") : x \in S})
GetWholeStaticLibs(m) == Archives(DepsTagged(m, {"whole_static"}))
GetStaticLibs(m) ==
    Archives(IF m \in StrictLibraries THEN DepsTagged(m, {"static"}) ELSE ResolvedStaticLibs(m))
ArchivableActions(m) ==
    {Statement("archive", BuildPaths(Tagged(Outs[m], "archive")), Objects(m), GetWholeStaticLibs(m),
               BuildWrapperDeps(m), Objects(m) \cup GetWholeStaticLibs(m))}

SharedDeps(m) == DepsTagged(m, {"shared"}) \ External
getSharedLibLinkPaths(m) == {getSharedLibLinkPath(x) : x \in SharedDeps(m) \ Imported}
getSharedLibTocPaths(m) == BuildPaths(UNION {Tagged(Outs[x], "toc") : x \in SharedDeps(m)})

(* -l<name> and -L: the file the linker finds by the name of each shared   *)
(* library, through the links it is made of                                *)
SharedLibFound(x) ==
    CASE Kind(x) = "shared" -> UNION {Followed(f) : f \in {g \in Outs[x] : g.path.name = getLinkName(x)}}
      [] Kind(x) = "strict_library" -> BuildPaths(Tagged(Outs[x], "shared"))
      [] x \in Imported -> BuildPaths(Outs[x])
      [] OTHER -> {getSharedLibLinkPath(x)}
getSharedLibFlags(m) == UNION {SharedLibFound(x) : x \in SharedDeps(m)}

getVersionScript(m) ==
    (UNION {GetOutputs(Outs[x]) : x \in Prop(m, "version_script_module")})
    \cup BuildPaths({New(At(<<>>, n), "", {"src"}) : n \in Prop(m, "version_script")})
getCommonLibArgs(m) == GetWholeStaticLibs(m) \cup GetStaticLibs(m) \cup getSharedLibFlags(m) \cup getVersionScript(m)
ccLinkImplicits(m, useToc) ==
    GetWholeStaticLibs(m) \cup GetStaticLibs(m) \cup getVersionScript(m)
    \cup (IF useToc THEN getSharedLibTocPaths(m) ELSE getSharedLibLinkPaths(m))
LinkOrder(m, toc) == BuildWrapperDeps(m) \cup (IF toc THEN getSharedLibLinkPaths(m) ELSE {})

Link(m, rule, outs, toc, ord) ==
    Statement(rule, BuildPaths(outs), Objects(m), ccLinkImplicits(m, toc) \cup NonCompiledDeps(m), ord,
              Objects(m) \cup getCommonLibArgs(m))
SharedLinkActions(m, toc) ==
    {Link(m, "link_shared", {f \in Outs[m] : IsType(f, "shared") /\ ~IsSymLink(f)}, toc, LinkOrder(m, toc))}
(* Mutant: the table is rewritten even when it says the same.              *)
addSharedLibTocAlways(so, toc) == Statement("toc", {toc}, {so}, {}, {}, {so})
addSharedLibToc(so, toc) == [Statement("toc", {toc}, {so}, {}, {}, {so}) EXCEPT !.restat = TRUE]
RealName(m) == IF Kind(m) = "shared" THEN getRealName(m) ELSE getLinkName(m)
(* Mutant: the table is made from itself.                                  *)
SharedTocOfToc(m) == {addSharedLibToc(BuildPath(f), BuildPath(f)) : f \in Tagged(Outs[m], "toc")}
SharedTocActions(m) ==
    {addSharedLibToc(At(SharedLibsDir(Prop(m, "target")), RealName(m)), BuildPath(f)) : f \in Tagged(Outs[m], "toc")}
SharedSymlinkActions(m) ==
    {Statement("symlink", {BuildPath(f)}, {BuildPath(ExpandLink(f))}, {}, {}, {}) : f \in {g \in Outs[m] : IsSymLink(g)}}

-----------------------------------------------------------------------------
(* Installing *)

(* Mutant: only what the module lists itself.                              *)
ListedInstallDeps(m) == DepsTagged(m, {"install_dep"})
InstallDeps(m) ==
    CASE m \in Libraries -> DepsTagged(m, {"install_dep", "shared"}) \ External
      [] Kind(m) = "kernel_module" -> DepsTagged(m, {"install_dep", "kernel_module"})
      [] m \in StrictLibraries -> {}
      [] OTHER -> DepsTagged(m, {"install_dep"})
InstallPath(m) == BuildDir \o Prop(m, "install_path")
Stripped(m) == m \in Libraries /\ Kind(m) # "static" /\ Prop(m, "strip")
StrippedPath(m, f) == At(BuildDir \o <<Prop(m, "target"), "strip">>, BuildPath(f).name)
InstallFile(m, f) ==
    LET src == IF Stripped(m) THEN StrippedPath(m, f) ELSE BuildPath(f)
        tool == BuildPaths({New(At(<<>>, n), "", {"src"}) : n \in Prop(m, "post_install_tool")}) IN
    (IF Stripped(m) THEN {Statement("strip", {src}, {BuildPath(f)}, {}, {}, {BuildPath(f)})} ELSE {})
        \cup {Statement("install", {At(InstallPath(m), src.name)}, {src}, tool, {}, {src} \cup tool)}
InstallLink(m, f) ==
    {Statement("symlink", {Join(InstallPath(m), f.path)}, {Join(InstallPath(m), ExpandLink(f).path)}, {}, {}, {})}
Installs(m) == Prop(m, "install_path") # <<>>
InstallActions(m) ==
    IF ~Installs(m) THEN {}
    ELSE UNION {IF IsSymLink(f) THEN InstallLink(m, f) ELSE InstallFile(m, f) : f \in Tagged(Outs[m], "installable")}

(* install returns the files it makes and the phony names of what must be  *)
(* installed with them, and nothing at all without an install path.        *)
install(m) ==
    IF ~Installs(m) THEN {}
    ELSE {IF IsSymLink(f) THEN Join(InstallPath(m), f.path) ELSE At(InstallPath(m), BuildPath(f).name) :
              f \in Tagged(Outs[m], "installable")}
         \cup {At(<<>>, shortName(x)) : x \in InstallDeps(m)}
InstalledAndBuilt(m) == {PhonyOf(m, install(m) \cup GetOutputs(Outs[m]))}

-----------------------------------------------------------------------------
(* The handler of each kind of module *)

aliasActions(m) ==
    {Statement("phony", {PhonyPath(Prop(m, "name"))},
               {At(<<>>, IF x \in Phonies THEN shortName(x) ELSE <<Prop(x, "name")>>) :
                    x \in {y \in DepsTagged(m, {"alias"}) : Enabled(y)}}, {}, {}, {})}
staticActions(m) == CompileObjs(m) \cup ArchivableActions(m) \cup InstallActions(m) \cup InstalledAndBuilt(m)
sharedActions(m, toc) ==
    CompileObjs(m) \cup SharedLinkActions(m, toc) \cup SharedTocActions(m) \cup SharedSymlinkActions(m)
    \cup InstallActions(m) \cup InstalledAndBuilt(m)
binaryActions(m, toc) ==
    CompileObjs(m) \cup {Link(m, "link_binary", Tagged(Outs[m], "binary"), toc, LinkOrder(m, toc))}
    \cup InstallActions(m) \cup InstalledAndBuilt(m)
strictLibraryActions(m, toc) ==
    CompileObjs(m) \cup SharedLinkActions(m, toc) \cup SharedTocActions(m) \cup ArchivableActions(m)
    \cup SharedSymlinkActions(m) \cup InstallActions(m) \cup InstalledAndBuilt(m)
strictBinaryActions(m, toc) ==
    CompileObjs(m) \cup {Link(m, "link_binary", Tagged(Outs[m], "binary"), toc, LinkOrder(m, toc))}
    \cup InstallActions(m) \cup InstalledAndBuilt(m)
resourceActions(m) == InstallActions(m) \cup {addPhony(m, install(m), FALSE)}
genruleActions(m) == generateStrictCommonActions(m) \cup {PhonyOf(m, GetOutputs(Outs[m]))}
generateSourceActions(m) == generateCommonActions(m) \cup InstallActions(m) \cup InstalledAndBuilt(m)
CopyTo(m, dest) == {Statement("copy", {dest}, GetOutputs(Outs[m]), {}, {}, GetOutputs(Outs[m]))}
genSharedActions(m) ==
    generateSourceActions(m) \cup CopyTo(m, getSharedLibLinkPath(m))
    \cup {addSharedLibToc(getSharedLibLinkPath(m), BuildPath(f)) : f \in Tagged(Outs[m], "toc")}
genBinaryActions(m) ==
    generateSourceActions(m) \cup CopyTo(m, At(BinaryOutputDir(Prop(m, "target")), GeneratedName(m)))
(* kbuild leaves Module.symvers next to the module it makes, as a side     *)
(* effect; the statements call it a phony product of the module.           *)
kernelModuleActions(m) ==
    LET symvers(x) == At(KernelModOutputDir \o <<Prop(x, "name")>>, <<"Module", ".symvers">>)
        used == DepsTagged(m, {"kernel_module"})
        in == BuildPaths(GetFiles[m]) IN
    {Statement("kbuild", GetOutputs(Outs[m]), in \cup {symvers(x) : x \in used}, {}, {},
               in \cup UNION {GetOutputs(Outs[x]) : x \in used}),
     Statement("phony", {symvers(m)}, GetOutputs(Outs[m]), {}, {}, {})}
    \cup InstallActions(m) \cup InstalledAndBuilt(m)
importCCLibraryActions(m) == {addPhony(m, {}, FALSE)}
importCCBinaryActions(m) == {addPhony(m, GetOutputs(Outs[m]), FALSE)}

(* GenerateBuildActions of a module, all but the dead ends.  Four kinds    *)
(* write their statements whether they are enabled or not.                 *)
EnabledActions(m, toc) ==
    CASE Kind(m) = "static" -> staticActions(m)
      [] Kind(m) = "shared" -> sharedActions(m, toc)
      [] Kind(m) = "binary" -> binaryActions(m, toc)
      [] Kind(m) \in {"strict_binary", "test"} -> strictBinaryActions(m, toc)
      [] Kind(m) = "resource" -> resourceActions(m)
      [] Kind(m) \in {"genrule", "gensrcs"} -> genruleActions(m)
      [] Kind(m) \in {"generate_source", "transform_source", "generate_static"} -> generateSourceActions(m)
      [] Kind(m) = "generate_shared" -> genSharedActions(m)
      [] Kind(m) = "generate_binary" -> genBinaryActions(m)
      [] Kind(m) = "kernel_module" -> kernelModuleActions(m)
      [] OTHER -> {}
LinuxActions(m, toc) ==
    CASE Kind(m) = "alias" -> aliasActions(m)
      [] Kind(m) = "strict_library" -> strictLibraryActions(m, toc)
      [] Kind(m) = "import_library" -> importCCLibraryActions(m)
      [] Kind(m) = "import_binary" -> importCCBinaryActions(m)
      [] OTHER -> IF Enabled(m) THEN EnabledActions(m, toc) ELSE {}

(* pathToLibFlag, extraSymbolsModules: what ends the run instead *)
LinuxDies(m) ==
    Enabled(m) /\ (\/ \E x \in DepsTagged(m, {"shared"}) : ~Prop(x, "lib_prefix") /\ x \notin External \cup Imported
                   \/ \E x \in DepsTagged(m, {"kernel_module"}) : Kind(x) # "kernel_module")
=============================================================================

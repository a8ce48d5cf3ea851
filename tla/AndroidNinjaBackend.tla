------------------------- MODULE AndroidNinjaBackend -------------------------
(***************************************************************************)
(* The androidninja back end: a second writer of ninja statements, with    *)
(* its own copy of every handler of the linux one.  What it shares by      *)
(* calling (addPhony, getVersionScript, GetWholeStaticLibs, the rules) is  *)
(* taken from LinuxBackend; what it copies is modelled again, from its own *)
(* text.                                                                   *)
(***************************************************************************)
EXTENDS LinuxBackend

AndroidObjDir(m) == BuildDir \o <<Prop(m, "target"), "objects", outputName(m)>>
AndroidObjectFile(m, f) == LET p == RelBuildPath(f) IN At(AndroidObjDir(m) \o p.dir, p.name \o <<".o">>)
AndroidObjects(m) == {AndroidObjectFile(m, f) : f \in Compiled(m)}
(* Mutant: the compiler wrapper is not waited for.                         *)
AndroidCompileObjsUnwrapped(m) ==
    {Statement("compile", {AndroidObjectFile(m, f)}, {BuildPath(f)}, {}, GetGeneratedHeadersFiles(m),
               {BuildPath(f)} \cup IncludableHeaders(m) \cup BuildWrapperDeps(m)) : f \in Compiled(m)}
AndroidCompileObjs(m) ==
    {Statement("compile", {AndroidObjectFile(m, f)}, {BuildPath(f)}, {},
                 GetGeneratedHeadersFiles(m) \cup BuildWrapperDeps(m),
                 {BuildPath(f)} \cup IncludableHeaders(m) \cup BuildWrapperDeps(m)) : f \in Compiled(m)}

AndroidSharedDeps(m) == DepsTagged(m, {"shared"}) \ External
AndroidGetSharedLibLinkPath(m) ==
    LET dir == SharedLibsDir(Prop(m, "target")) IN
    IF Kind(m) = "strict_library" THEN Join(dir, BuildPath(CHOOSE f \in Outs[m] : IsType(f, "shared")))
    ELSE At(dir, IF Kind(m) = "shared" THEN getLinkName(m) ELSE GeneratedName(m))
AndroidGetSharedLibLinkPaths(m) == {AndroidGetSharedLibLinkPath(x) : x \in AndroidSharedDeps(m)}
AndroidGetSharedLibTocPaths(m) == BuildPaths(UNION {Tagged(Outs[x], "toc") : x \in AndroidSharedDeps(m)})

(* -l:<name>.so for a library whose name does not start with lib; the name *)
(* of a strict library already carries its .so                             *)
pathToLibFlagAndroid(x) ==
    IF Kind(x) = "strict_library" /\ ~Prop(x, "lib_prefix")
    THEN {At(SharedLibsDir(Prop(x, "target")), <<Prop(x, "name"), ".so", ".so">>)}
    ELSE SharedLibFound(x)
AndroidGetSharedLibFlags(m) == UNION {pathToLibFlagAndroid(x) : x \in AndroidSharedDeps(m)}
AndroidGetCommonLibArgs(m) ==
    GetWholeStaticLibs(m) \cup GetStaticLibs(m) \cup AndroidGetSharedLibFlags(m) \cup getVersionScript(m)
AndroidCcLinkImplicits(m, useToc) ==
    GetWholeStaticLibs(m) \cup GetStaticLibs(m) \cup getVersionScript(m)
    \cup (IF useToc THEN AndroidGetSharedLibTocPaths(m) ELSE AndroidGetSharedLibLinkPaths(m))
AndroidLinkOrder(m, toc) == BuildWrapperDeps(m) \cup (IF toc THEN AndroidGetSharedLibLinkPaths(m) ELSE {})
AndroidLink(m, rule, outs, toc) ==
    Statement(rule, BuildPaths(outs), AndroidObjects(m), AndroidCcLinkImplicits(m, toc) \cup NonCompiledDeps(m),
                AndroidLinkOrder(m, toc), AndroidObjects(m) \cup AndroidGetCommonLibArgs(m))

AndroidSharedLinkActions(m, toc) ==
    {AndroidLink(m, "link_shared", {f \in Outs[m] : IsType(f, "shared") /\ ~IsSymLink(f)}, toc)}
AndroidAddSharedLibToc(so, toc) == [Statement("toc", {toc}, {so}, {}, {}, {so}) EXCEPT !.restat = TRUE]
AndroidSharedTocActions(m) ==
    {AndroidAddSharedLibToc(At(SharedLibsDir(Prop(m, "target")), RealName(m)), BuildPath(f)) : f \in Tagged(Outs[m], "toc")}
AndroidSharedSymlinkActions(m) ==
    {Statement("symlink", {BuildPath(f)}, {BuildPath(ExpandLink(f))}, {}, {}, {}) :
        f \in {g \in Outs[m] : IsSymLink(g)}}
AndroidArchivableActions(m) ==
    {Statement("archive", BuildPaths(Tagged(Outs[m], "archive")), AndroidObjects(m), GetWholeStaticLibs(m),
                 BuildWrapperDeps(m), AndroidObjects(m) \cup GetWholeStaticLibs(m))}

-----------------------------------------------------------------------------
(* Generated sources, installation *)

AndroidBuildRules(io, dependents, needed) ==
    LET split == io.depfile /\ Len(io.outs) > 1
        main == IF split THEN {io.outs[1]} ELSE Range(io.outs) IN
    {[Statement(IF split THEN "gen_split" ELSE IF io.depfile THEN "gen_dep" ELSE "gen", main, io.in, io.implicitSrcs \cup dependents, {},
                  io.in \cup io.implicitSrcs \cup needed) EXCEPT !.restat = TRUE]}
    \cup (IF split THEN {touchRule(io.outs[1], Range(Tail(io.outs)))} ELSE {})
AndroidGenerateCommonActions(m) == UNION {AndroidBuildRules(io, Dependents(m), CommandReads(m)) : io \in Inouts(m)}
AndroidGenerateStrictCommonActions(m) == UNION {AndroidBuildRules(io, Dependents(m), CommandReads(m)) : io \in Inouts(m)}

AndroidInstallFile(m, f) ==
    IF IsSymLink(f) THEN InstallLink(m, f)
    ELSE LET strip == Prop(m, "strip") /\ Kind(m) \in {"binary", "shared"}
             src == IF strip THEN StrippedPath(m, f) ELSE BuildPath(f)
             tool == BuildPaths({New(At(<<>>, n), "", {"src"}) : n \in Prop(m, "post_install_tool")}) IN
         (IF strip THEN {Statement("strip", {src}, {BuildPath(f)}, {}, {}, {BuildPath(f)})} ELSE {})
         \cup {Statement("install", {At(InstallPath(m), src.name)}, {src}, tool, {}, {src} \cup tool)}
AndroidInstall(m) ==
    IF Installs(m) THEN UNION {AndroidInstallFile(m, f) : f \in Tagged(Outs[m], "installable")} ELSE {}
AndroidInstalledAndBuilt(m) == AndroidInstall(m) \cup {PhonyOf(m, install(m) \cup GetOutputs(Outs[m]))}

-----------------------------------------------------------------------------
(* The handlers *)

AndroidAliasActions(m) ==
    {Statement("phony", {PhonyPath(Prop(m, "name"))},
                 {At(<<>>, IF x \in Phonies THEN shortName(x) ELSE <<Prop(x, "name")>>) :
                      x \in {y \in DepsTagged(m, {"alias"}) : Enabled(y)}}, {}, {}, {})}
AndroidBinaryActions(m, toc) ==
    AndroidCompileObjs(m) \cup {AndroidLink(m, "link_binary", Tagged(Outs[m], "binary"), toc)} \cup AndroidInstalledAndBuilt(m)
AndroidStrictBinaryActions(m, toc) ==
    AndroidCompileObjs(m) \cup {AndroidLink(m, "link_binary", Tagged(Outs[m], "binary"), toc)} \cup AndroidInstalledAndBuilt(m)
AndroidExecutableTestActions(m) == {}
AndroidSharedActions(m, toc) ==
    AndroidCompileObjs(m) \cup AndroidInstalledAndBuilt(m) \cup AndroidSharedSymlinkActions(m) \cup AndroidSharedLinkActions(m, toc)
    \cup AndroidSharedTocActions(m)
AndroidStaticActions(m) == AndroidCompileObjs(m) \cup AndroidArchivableActions(m) \cup AndroidInstalledAndBuilt(m)
AndroidStrictLibraryActions(m, toc) ==
    AndroidCompileObjs(m) \cup AndroidSharedLinkActions(m, toc) \cup AndroidSharedTocActions(m) \cup AndroidArchivableActions(m)
    \cup AndroidSharedSymlinkActions(m) \cup AndroidInstalledAndBuilt(m)
AndroidGenerateSourceActions(m) == AndroidGenerateCommonActions(m) \cup AndroidInstalledAndBuilt(m)
AndroidTransformSourceActions(m) == AndroidGenerateCommonActions(m) \cup AndroidInstalledAndBuilt(m)
AndroidGenStaticActions(m) == AndroidGenerateCommonActions(m) \cup AndroidInstalledAndBuilt(m)
AndroidGenSharedActions(m) ==
    AndroidGenerateCommonActions(m) \cup CopyTo(m, AndroidGetSharedLibLinkPath(m))
    \cup {AndroidAddSharedLibToc(AndroidGetSharedLibLinkPath(m), BuildPath(f)) : f \in Tagged(Outs[m], "toc")}
    \cup AndroidInstalledAndBuilt(m)
AndroidGenBinaryActions(m) ==
    AndroidGenerateCommonActions(m) \cup CopyTo(m, At(BinaryOutputDir(Prop(m, "target")), GeneratedName(m)))
    \cup AndroidInstalledAndBuilt(m)
AndroidGenruleActions(m) == AndroidGenerateStrictCommonActions(m) \cup {PhonyOf(m, GetOutputs(Outs[m]))}
AndroidGensrcsActions(m) == AndroidGenerateStrictCommonActions(m) \cup {PhonyOf(m, GetOutputs(Outs[m]))}
AndroidResourceActions(m) == AndroidInstall(m) \cup {addPhony(m, install(m), FALSE)}

AndroidEnabledActions(m, toc) ==
    CASE Kind(m) = "static" -> AndroidStaticActions(m)
      [] Kind(m) = "shared" -> AndroidSharedActions(m, toc)
      [] Kind(m) = "binary" -> AndroidBinaryActions(m, toc)
      [] Kind(m) = "strict_binary" -> AndroidStrictBinaryActions(m, toc)
      [] Kind(m) = "test" -> AndroidExecutableTestActions(m)
      [] Kind(m) = "resource" -> AndroidResourceActions(m)
      [] Kind(m) = "genrule" -> AndroidGenruleActions(m)
      [] Kind(m) = "gensrcs" -> AndroidGensrcsActions(m)
      [] Kind(m) = "generate_source" -> AndroidGenerateSourceActions(m)
      [] Kind(m) = "transform_source" -> AndroidTransformSourceActions(m)
      [] Kind(m) = "generate_static" -> AndroidGenStaticActions(m)
      [] Kind(m) = "generate_shared" -> AndroidGenSharedActions(m)
      [] Kind(m) = "generate_binary" -> AndroidGenBinaryActions(m)
      [] OTHER -> {}
AndroidNinjaActions(m, toc) ==
    CASE Kind(m) = "alias" -> AndroidAliasActions(m)
      [] Kind(m) = "strict_library" -> AndroidStrictLibraryActions(m, toc)
      [] OTHER -> IF Enabled(m) THEN AndroidEnabledActions(m, toc) ELSE {}

(* A kernel module that is built, and an imported shared library: linux    *)
(* takes both                                                              *)
AndroidKernelModuleActions(m) == Kind(m) = "kernel_module" /\ Enabled(m)
AndroidNinjaDies(m) == Enabled(m) /\ (AndroidKernelModuleActions(m) \/ AndroidSharedDeps(m) \cap Imported # {})
=============================================================================

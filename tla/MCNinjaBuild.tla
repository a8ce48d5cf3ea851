----------------------------- MODULE MCNinjaBuild -----------------------------
(***************************************************************************)
(* Small builds, one for each way modules feed each other, for TLC.        *)
(***************************************************************************)
EXTENDS NinjaBuild, MCModules

(* A program, a static library, and the versioned shared library it needs; *)
(* all installed, the program stripped, and an alias over them             *)
LibMods ==
    "app" :> Is("binary", "app", [srcs |-> Src("app"), static_libs |-> {"mid"}, shared_libs |-> {},
                 install_path |-> <<"bin">>, strip |-> TRUE, add_to_alias |-> {"all"}])
    @@ "mid" :> Is("static", "mid", [srcs |-> Src("mid"), shared_libs |-> {"so"}])
    @@ "so" :> Is("shared", "so", [srcs |-> Src("so"), version |-> <<".1", ".2">>, install_path |-> <<"lib">>])
    @@ "all" :> Is("alias", "all", [targets |-> {"off"}])
    @@ "off" :> Is("binary", "off", [enabled |-> FALSE])

(* One library in a host and a target variant; a generator that runs a     *)
(* host program and makes a source and a header from one template          *)
GenMods ==
    "dep_h" :> Is("shared", "dep", [variants |-> 2, target |-> "host", srcs |-> Src("dep")])
    @@ "dep_t" :> Is("shared", "dep", [variants |-> 2, srcs |-> Src("dep")])
    @@ "tool" :> Is("binary", "tool", [target |-> "host", srcs |-> Src("tool"), shared_libs |-> {"dep_h"}])
    @@ "gen" :> Is("generate_source", "gen", [outs |-> <<<<"gen", ".c">>, <<"gen", ".h">>>>, host_bin |-> {"tool"},
                 depfile |-> TRUE, rsp |-> TRUE, srcs |-> {<<"gen", ".in">>}, export_gen_include_dirs |-> TRUE])
    @@ "use" :> Is("binary", "use", [generated_sources |-> {"gen"}, generated_headers |-> {"gen"},
                 shared_libs |-> {"dep_t"}])

(* Generated libraries, a header that passes through a static library,     *)
(* and a compiler wrapper that is itself generated                         *)
GenLibMods ==
    "gs" :> Is("generate_shared", "gs", [srcs |-> {<<"gs", ".in">>}, headers |-> {<<"gs", ".h">>},
                 export_gen_include_dirs |-> TRUE, install_path |-> <<"lib">>])
    @@ "ga" :> Is("generate_static", "ga", [srcs |-> {<<"ga", ".in">>}, implicit |-> {<<"ga", ".cfg">>}])
    @@ "wrap" :> Is("generate_binary", "wrap", [target |-> "host", srcs |-> {<<"wrap", ".in">>}])
    @@ "user" :> Is("binary", "user", [srcs |-> Src("user"), wrapper |-> TRUE, generated_deps |-> {"wrap"},
                 static_libs |-> {"ga"}, shared_libs |-> {"gs"}, install_path |-> <<"bin">>])

(* Sources through filegroups, one command per source, and resources       *)
TransformMods ==
    "fg" :> Is("filegroup", "fg", [srcs |-> {<<"one", ".in">>}, targets |-> {"fg2"}])
    @@ "fg2" :> Is("filegroup", "fg2", [srcs |-> {<<"two", ".in">>}])
    @@ "rule" :> Is("genrule", "rule", [outs |-> <<<<"rule", ".in">>>>, targets |-> {"fg"}, tool_files |-> {<<"mk", ".py">>}])
    @@ "each" :> Is("gensrcs", "each", [targets |-> {"fg"}, output_extension |-> ".c"])
    @@ "tr" :> Is("transform_source", "tr", [srcs |-> {<<"tr", ".in">>}, generated_sources |-> {"rule"},
                  replace |-> {".c", ".h"}, export_gen_include_dirs |-> TRUE])
    @@ "arch" :> Is("static", "arch", [generated_sources |-> {"tr"}, generated_headers |-> {"tr"}, targets |-> {"each"}])
    @@ "res" :> Is("resource", "res", [srcs |-> {<<"res", ".txt">>}, install_path |-> <<"etc">>,
                  post_install_tool |-> {<<"fix", ".py">>}])

(* Strict libraries linked whole and in part, and a test                   *)
StrictMods ==
    "slib" :> Is("strict_library", "slib", [srcs |-> Src("slib"), linkstatic |-> TRUE])
    @@ "sall" :> Is("strict_library", "sall", [srcs |-> Src("sall"), linkstatic |-> TRUE, alwayslink |-> TRUE])
    @@ "sbin" :> Is("strict_binary", "sbin", [srcs |-> Src("sbin"), deps |-> {"slib"}])
    @@ "test" :> Is("test", "test", [srcs |-> Src("test"), deps |-> {"sall"}])

(* Kernel modules that use each other's symbols, what the tree imports     *)
(* ready-made, and a library outside the build                             *)
KernelMods ==
    "ko" :> Is("kernel_module", "ko", [srcs |-> Src("ko"), extra_symbols |-> {"base"}, install_path |-> <<"ko">>])
    @@ "base" :> Is("kernel_module", "base", [srcs |-> Src("base"), install_path |-> <<"ko">>])
    @@ "pre" :> Is("import_library", "pre", [srcs |-> {<<"pre", ".so">>}])
    @@ "bin" :> Is("import_binary", "bin", [srcs |-> {<<"bin", ".sh">>}])
    @@ "ext" :> Is("external", "ext", [enabled |-> TRUE])
    @@ "imp" :> Is("binary", "imp", [srcs |-> Src("imp"), shared_libs |-> {"ext"}])
    @@ "impl" :> Is("strict_binary", "impl", [srcs |-> Src("impl"), deps |-> {}])

(* A strict library used as a shared one                                   *)
SharedStrictMods ==
    "strict" :> Is("strict_library", "strict", [srcs |-> Src("strict")])
    @@ "by" :> Is("strict_binary", "by", [srcs |-> Src("by"), deps |-> {"strict"}])

AllMods == LibMods @@ GenMods @@ GenLibMods @@ TransformMods @@ StrictMods @@ KernelMods @@ SharedStrictMods
Scenes == {DOMAIN LibMods, DOMAIN GenMods, DOMAIN GenLibMods, DOMAIN TransformMods, DOMAIN StrictMods,
           DOMAIN KernelMods}
AllConfs == [scene : {DOMAIN LibMods, DOMAIN GenMods}, backend : {"linux"}, toc : {TRUE}, events : {2}]
            \cup [scene : Scenes, backend : {"linux"}, toc : {TRUE}, events : {1}]
            \cup [scene : Scenes, backend : {"linux"}, toc : {FALSE}, events : {1}]
            \cup [scene : Scenes, backend : {"androidninja"}, toc : {TRUE}, events : {1}]
StrictConfs == [scene : {DOMAIN SharedStrictMods}, backend : {"linux"}, toc : {TRUE}, events : {0}]

(* Targets asked for by name: the alias, a program, a library, a resource  *)
IsAsked(p) == Last(p.name) \in {"all", "gen", "user", "arch", "ko"}
(* The user deletes what he knows by name: a library or a program          *)
IsProduct(p) == Last(p.name) \in {".so", ".a", "app", "use", "user"}
=============================================================================

----------------------------- MODULE MCAndroidBp -----------------------------
(***************************************************************************)
(* Small trees for TLC, one for each way in which modules refer to each    *)
(* other in Android.bp.                                                    *)
(***************************************************************************)
EXTENDS AndroidBp, MCModules

(* A program over static and shared libraries that pass directories and    *)
(* flags on; a shared library in two variants, installed with two files    *)
LibMods ==
    "app" :> Is("binary", "app", [srcs |-> Src("app"), static_libs |-> {"mid"}, shared_libs |-> {"so_t"},
                 install_path |-> <<"$(TARGET_OUT_EXECUTABLES)", "tools">>,
                 flags |-> [cflags |-> <<"-Wall", "-std=c99">>, conlyflags |-> <<"-Wc">>, local_include_dirs |-> <<"app/inc">>]])
    @@ "mid" :> Is("static", "mid", [srcs |-> Src("mid"), static_libs |-> {"low"}, reexport_libs |-> {"low"},
                 whole_static_libs |-> {"part"}, flags |-> [export_cflags |-> <<"-DMID">>, cflags |-> <<"-mthumb">>]])
    @@ "low" :> Is("static", "low", [srcs |-> Src("low"), shared_libs |-> {"log"},
                 flags |-> [export_local_include_dirs |-> <<"low/inc">>, export_cflags |-> <<"-DLOW">>]])
    @@ "part" :> Is("static", "part", [srcs |-> Src("part"),
                 flags |-> [export_local_system_include_dirs |-> <<"part/sys">>]])
    @@ "so_h" :> Is("shared", "so", [variants |-> 2, target |-> "host", srcs |-> Src("so")])
    @@ "so_t" :> Is("shared", "so", [variants |-> 2, srcs |-> Src("so"), install_path |-> <<"lib">>, install_deps |-> {"conf"},
                 shared_libs |-> {"base_t"}, reexport_libs |-> {"base_t"}])
    @@ "base_h" :> Is("shared", "base", [variants |-> 2, target |-> "host", srcs |-> Src("base")])
    @@ "base_t" :> Is("shared", "base", [variants |-> 2, srcs |-> Src("base"), install_path |-> <<"lib">>,
                 flags |-> [export_local_include_dirs |-> <<"base/inc">>]])
    @@ "log" :> Is("external", "log", [flags |-> [export_cflags |-> <<"-DLOG">>]])
    @@ "conf" :> Is("resource", "conf", [srcs |-> {<<"a", "/", "x", ".cfg">>, <<"a", ".cfg">>},
                 install_path |-> <<"$(TARGET_OUT_ETC)", "firmware">>])
    @@ "spare" :> Is("static", "spare", [srcs |-> Src("spare")])
    @@ "all" :> Is("alias", "all", [targets |-> {"inner"}])
    @@ "inner" :> Is("alias", "inner", [targets |-> {"app", "conf"}])

(* Generators: a source and a header from a command that runs a program,   *)
(* one command per source, and a library that passes the header on         *)
GenMods ==
    "tool" :> Is("binary", "tool", [target |-> "host", srcs |-> Src("tool")])
    @@ "gen" :> Is("generate_source", "gen", [outs |-> <<<<"gen", ".c">>, <<"gen", ".h">>>>, host_bin |-> {"tool"},
                 srcs |-> {<<"gen", ".in">>}, targets |-> {"ins"}, generated_deps |-> {"rule"}, export_gen_include_dirs |-> TRUE])
    @@ "ins" :> Is("filegroup", "ins", [srcs |-> {<<"one", ".in">>}])
    @@ "rule" :> Is("genrule", "rule", [outs |-> <<<<"rule", ".h">>>>, host_bin |-> {"twin_h"}, targets |-> {"ins"}])
    @@ "twin_h" :> Is("strict_binary", "twin", [variants |-> 2, target |-> "host", srcs |-> Src("twin")])
    @@ "twin_t" :> Is("strict_binary", "twin", [variants |-> 2, srcs |-> Src("twin")])
    @@ "tr" :> Is("transform_source", "tr", [srcs |-> {<<"tr", ".in">>}, replace |-> {".c"}])
    @@ "lib" :> Is("static", "lib", [srcs |-> Src("lib"), export_generated_headers |-> {"gen"},
                 generated_sources |-> {"gen", "tr"}])
    @@ "use" :> Is("binary", "use", [srcs |-> Src("use"), static_libs |-> {"lib"}, default |-> "yes"])

(* Strict modules: defines that reach everything above them, a library     *)
(* linked whole, and a toolchain                                           *)
StrictMods ==
    "top" :> Is("strict_binary", "top", [srcs |-> Src("top"), deps |-> {"slib", "sall"}, toolchain |-> {"tc"},
                 flags |-> [copts |-> <<"-Wtop">>]])
    @@ "slib" :> Is("strict_library", "slib", [srcs |-> Src("slib"), deps |-> {"sbase"}, linkstatic |-> TRUE,
                 flags |-> [defines |-> <<"SLIB">>, local_defines |-> <<"HERE">>]])
    @@ "sall" :> Is("strict_library", "sall", [srcs |-> Src("sall"), linkstatic |-> TRUE, alwayslink |-> TRUE,
                 flags |-> [includes |-> <<"sall/inc">>]])
    @@ "sbase" :> Is("strict_library", "sbase", [srcs |-> Src("sbase"), flags |-> [defines |-> <<"SBASE">>]])
    @@ "tc" :> Is("toolchain", "tc", [flags |-> [cflags |-> <<"-Wtc">>], hwasan |-> TRUE, owners |-> {"arm"}])

(* Files that take one name, of two resources and of one; a module no      *)
(* Android.bp can say                                                      *)
ClashMods ==
    "res" :> Is("resource", "res", [srcs |-> {<<"a", "/", "b">>}, install_path |-> <<"data">>, default |-> "yes"])
    @@ "res2" :> Is("resource", "res", [srcs |-> {<<"a", "_", "b">>}, install_path |-> <<"etc">>, default |-> "yes"])
    @@ "pair" :> Is("resource", "pair", [srcs |-> {<<"a", "/", "b">>, <<"a", "_", "b">>}, install_path |-> <<"etc">>,
                 default |-> "yes"])
    @@ "one" :> Is("resource", "one", [srcs |-> {<<"a">>}, install_path |-> <<"bin">>, default |-> "yes"])
    @@ "ko" :> Is("kernel_module", "ko", [srcs |-> Src("ko")])

AllMods == LibMods @@ GenMods @@ StrictMods @@ ClashMods
AllTrees == {DOMAIN LibMods, DOMAIN GenMods, DOMAIN StrictMods, {"res"}, {"one"}, {"one", "res"},
             {"res", "res2"}, {"pair"}, {"res", "ko"}}
AllEdits == [t \in AllTrees |-> IF Cardinality(t) < 3 THEN {u \in AllTrees : Cardinality(u) < 3} \ {t} ELSE {}]
=============================================================================

------------------------------- MODULE MCModules -------------------------------
(***************************************************************************)
(* Modules for TLC's instances: every property at its default, and a       *)
(* module as the properties it sets.                                       *)
(***************************************************************************)
EXTENDS TLC

Plain ==
    [kind |-> "static", name |-> "", enabled |-> TRUE, variants |-> 1, target |-> "target", out |-> "",
     default |-> "unset", version |-> <<>>, srcs |-> {}, implicit |-> {}, targets |-> {},
     generated_sources |-> {}, generated_headers |-> {}, export_generated_headers |-> {},
     generated_deps |-> {}, host_bin |-> {}, tool_targets |-> {}, tool_files |-> {}, deps |-> {},
     linkstatic |-> FALSE, alwayslink |-> FALSE, whole_static_libs |-> {}, static_libs |-> {},
     header_libs |-> {}, shared_libs |-> {}, reexport_libs |-> {}, extra_symbols |-> {},
     install_deps |-> {}, add_to_alias |-> {}, rsp |-> FALSE, depfile |-> FALSE, headers |-> {},
     replace |-> {}, output_extension |-> "", outs |-> <<>>, export_gen_include_dirs |-> FALSE,
     wrapper |-> FALSE, version_script_module |-> {}, version_script |-> {}, install_path |-> <<>>,
     strip |-> FALSE, post_install_tool |-> {}, lib_prefix |-> TRUE,
     flags |-> <<>>, toolchain |-> {}, export_header_libs |-> {}, owners |-> {}, mte |-> {}, hwasan |-> FALSE]
Is(kind, name, props) == props @@ [kind |-> kind, name |-> name] @@ Plain
Src(n) == {<<n, ".c">>}
=============================================================================

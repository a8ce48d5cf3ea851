----------------------------- MODULE BobGenerated -----------------------------
(***************************************************************************)
(* Generated sources, libraries and binaries: the inputs and outputs of    *)
(* each command, and the files a command depends on without naming them    *)
(* as inputs: tools, the host binary and what that binary loads.           *)
(***************************************************************************)
EXTENDS BobModules

(* An inout: inputs, sources the command does not name, outputs in order,  *)
(* and whether a depfile comes with them                                   *)
Inout(in, implicitSrcs, outs, depfile) ==
    [in |-> in, implicitSrcs |-> implicitSrcs, outs |-> outs, depfile |-> depfile]

InputsOf(m, files) ==
    Inout(BuildPaths({f \in files : ~IsType(f, "toc") /\ ~IsType(f, "implicit")}),
          BuildPaths({f \in files : ~IsType(f, "toc") /\ IsType(f, "implicit")}), <<>>, FALSE)

PrefixInouts(m, inouts) ==
    {[io EXCEPT !.outs = [i \in DOMAIN @ |-> Join(SourceOutputDir(Prop(m, "name")), @[i])]] : io \in inouts}

GenerateSourceInouts(m) ==
    {[InputsOf(m, GetFiles[m]) EXCEPT !.outs = [i \in DOMAIN Prop(m, "outs") |-> At(<<>>, Prop(m, "outs")[i])],
                                      !.depfile = Tagged(Outs[m], "dep") # {}]}

GenerateLibraryInouts(m) ==
    {[InputsOf(m, GetFiles[m]) EXCEPT
        !.outs = <<At(<<>>, GeneratedName(m))>> \o SetToSeq({At(<<>>, h) : h \in Prop(m, "headers")}),
        !.depfile = Tagged(Outs[m], "dep") # {}]}

(* One command per source; a source out.implicit_srcs names is left out:   *)
(* the code appends the source itself in its place.                        *)
InoutForSrc(m, f) ==
    Inout({BuildPath(f)}, IF Prop(m, "implicit") = {} THEN {} ELSE {BuildPath(f)},
          SetToSeq(TransformedPaths(m, f)), Prop(m, "depfile"))
TransformSourceInouts(m) == {InoutForSrc(m, f) : f \in GetFiles[m]}
GensrcsInouts(m) ==
    {Inout({BuildPath(f)}, {}, <<GensrcsPath(m, f)>>, FALSE) : f \in {x \in GetFiles[m] : ~IsType(x, "toc")}}

Inouts(m) ==
    PrefixInouts(m, CASE Prop(m, "kind") \in {"generate_source", "genrule"} -> GenerateSourceInouts(m)
                      [] Prop(m, "kind") = "transform_source" -> TransformSourceInouts(m)
                      [] Prop(m, "kind") = "gensrcs" -> GensrcsInouts(m)
                      [] OTHER -> GenerateLibraryInouts(m))

(* getDependentArgsAndFiles: everything the generated dependencies give    *)
DependentFiles(m) ==
    UNION {IF x \in Filegroups THEN BuildPaths(Outs[x]) ELSE GetOutputs(Outs[x]) : x \in DepsTagged(m, {"generated"})}

(* hostBinOuts: the binary, and the bob_shared_library modules below it    *)
SharedEdges == UNION {{x} \X DepsTagged(x, {"shared"}) : x \in Modules}
HostBinSharedLibs(m) ==
    {x \in Closure(UNION {DepsTagged(b, {"shared"}) : b \in DepsTagged(m, {"host_tool"})}, SharedEdges) :
        Prop(x, "kind") = "shared"}
HostBinOuts(m) ==
    UNION {GetOutputs(Outs[x]) : x \in DepsTagged(m, {"host_tool"}) \cup HostBinSharedLibs(m)}

(* processCmdTools, processCmd: tools that are files of the source tree    *)
DependentTools(m) == BuildPaths({New(At(<<>>, n), "", {"src"}) : n \in Prop(m, "tool_files")})

Dependents(m) == DependentFiles(m) \cup HostBinOuts(m) \cup DependentTools(m)
=============================================================================

------------------------------- MODULE BobFlags -------------------------------
(***************************************************************************)
(* core/flag: the compiler and linker flags a module lists, the ones it    *)
(* passes on, and the ones that reach it.  A flag is a text with a set of  *)
(* types; two flags are the same to the code when their texts are.  What   *)
(* reaches a module depends on the order in which its dependencies were    *)
(* added, as a module is looked at once for each name.                     *)
(***************************************************************************)
EXTENDS BobModules

StringsOf(flags, p) == IF p \in DOMAIN flags THEN flags[p] ELSE <<>>
Strings(m, p) == StringsOf(Prop(m, "flags"), p)

Flag(raw, root, types) == [raw |-> raw, root |-> root, types |-> types]
MatchesType(f, T) == f.types \cap T # {}

toStringInclude(f) == <<IF "system" \in f.types THEN "-isystem" ELSE "-I", f.root, f.raw>>
FlagString(f) == IF "include" \in f.types THEN toStringInclude(f) ELSE <<f.raw>>

(* The factories of the parser's tables *)
FromString(raw, T) == Flag(raw, "", T)
FromDefine(raw, T) == Flag(raw, "-D", T \cup {"cc", "define"})
FromIncludePath(raw, T) == Flag(raw, IF "local" \in T THEN "$SrcDir" ELSE "", T \cup {"include"})
FromBuiltPath(raw, T) == Flag(raw, "$SrcDir", T \cup {"include"})
FromGeneratedIncludePath(m, T) == Flag(Prop(m, "name"), "gen", T \cup {"include", "generated"})

(* ParseFromProperties: a table has a line for each property, in order *)
Parse(flags, lut) ==
    FlattenSeq([i \in DOMAIN lut |->
        [k \in DOMAIN StringsOf(flags, lut[i].property) |->
            LET raw == StringsOf(flags, lut[i].property)[k] IN
            CASE lut[i].factory = "string" -> FromString(raw, lut[i].tag)
              [] lut[i].factory = "define" -> FromDefine(raw, lut[i].tag)
              [] lut[i].factory = "built" -> FromBuiltPath(raw, lut[i].tag)
              [] lut[i].factory = "include" -> FromIncludePath(raw, lut[i].tag)]])
LOCAL Line(property, tag, factory) == [property |-> property, tag |-> tag, factory |-> factory]

getFlagInLut ==
    <<Line("cflags", {"cc"}, "string"), Line("export_cflags", {"cc"}, "string"), Line("asflags", {"asm"}, "string"),
      Line("conlyflags", {"c"}, "string"), Line("cxxflags", {"cpp"}, "string"), Line("ldflags", {"linker"}, "string"),
      Line("export_ldflags", {"linker"}, "string"), Line("local_include_dirs", {"local"}, "include"),
      Line("export_local_include_dirs", {"local"}, "include"),
      Line("export_local_system_include_dirs", {"local"}, "include"), Line("include_dirs", {}, "include"),
      Line("export_include_dirs", {}, "include"), Line("export_system_include_dirs", {}, "include"),
      Line("ldlibs", {"library"}, "string")>>
getFlagOutLut ==
    <<Line("export_cflags", {"cc", "exported"}, "string"), Line("export_ldflags", {"linker", "exported"}, "string"),
      Line("export_local_include_dirs", {"local", "exported"}, "include"),
      Line("export_local_system_include_dirs", {"local", "exported", "system"}, "include"),
      Line("export_include_dirs", {"exported"}, "include"),
      Line("export_system_include_dirs", {"exported", "system"}, "include"),
      Line("ldlibs", {"library", "exported"}, "string")>>
ExternalFlagsIn ==
    <<Line("ldlibs", {"library"}, "string"), Line("export_cflags", {"cc"}, "string"),
      Line("export_ldflags", {"linker"}, "string")>>
ExternalFlagsOut ==
    <<Line("ldlibs", {"library", "exported"}, "string"), Line("export_cflags", {"cc", "exported"}, "string"),
      Line("export_ldflags", {"linker", "exported"}, "string")>>
StrictFlagsIn ==
    <<Line("copts", {"cc"}, "string"), Line("local_defines", {}, "define"), Line("defines", {}, "define"),
      Line("includes", {"local"}, "include"), Line("linkopts", {"transitive_linker"}, "string")>>
StrictFlagsOut ==
    <<Line("defines", {"exported", "transitive"}, "define"),
      Line("includes", {"local", "exported", "transitive", "system"}, "include"),
      Line("linkopts", {"transitive_linker"}, "string")>>
ToolchainFlagsOut ==
    <<Line("cflags", {"cc", "exported"}, "string"), Line("conlyflags", {"c", "exported"}, "string"),
      Line("cppflags", {"cpp", "exported"}, "string"), Line("asflags", {"asm", "exported"}, "string"),
      Line("ldflags", {"linker", "exported"}, "string")>>
ImportFlagsOut ==
    <<Line("defines", {"exported", "transitive"}, "define"), Line("linkopts", {"transitive_linker"}, "string"),
      Line("includes", {"exported", "transitive"}, "built")>>

(* An imported library is itself a flag of its users' link line *)
ImportedFile(m) == IF Prop(m, "srcs") = {} THEN <<>> ELSE <<Flag(Prop(m, "name"), "file", {"library", "exported"})>>
FlagsOut(m) ==
    CASE m \in Libraries -> Parse(Prop(m, "flags"), getFlagOutLut)
      [] m \in StrictLibraries -> Parse(Prop(m, "flags"), StrictFlagsOut)
      [] m \in External -> Parse(Prop(m, "flags"), ExternalFlagsOut)
      [] m \in Toolchains -> Parse(Prop(m, "flags"), ToolchainFlagsOut)
      [] m \in Imported -> Parse(Prop(m, "flags"), ImportFlagsOut) \o ImportedFile(m)
      [] Prop(m, "export_gen_include_dirs") -> <<FromGeneratedIncludePath(m, {"exported"})>>
      [] OTHER -> <<>>

(* propagateOtherExportedProperties: the link options of what is linked    *)
(* into a program or a shared library become its own                       *)
Propagated(m) ==
    FlattenSeq([i \in 1..Cardinality(Linkable(m)) |->
        LET x == SetToSeq(Linkable(m))[i] IN IF x \in StrictLibraries THEN <<>> ELSE FlagsOut(x)])
RawTexts(T, flags) == LET of == SelectSeq(flags, LAMBDA f : MatchesType(f, T)) IN [i \in DOMAIN of |-> of[i].raw]
exportLibFlags(m) ==
    LET more == Propagated(m) IN
    [ldflags |-> Strings(m, "ldflags") \o RawTexts({"linker", "transitive_linker"}, more),
     ldlibs |-> Strings(m, "ldlibs") \o SelectSeq(RawTexts({"library"}, more), LAMBDA t : ~Contains(Strings(m, "ldlibs"), t))]
LinkOptions(m) == IF Kind(m) \in {"binary", "shared"} THEN exportLibFlags(m) @@ Prop(m, "flags") ELSE Prop(m, "flags")

FlagsIn(m) ==
    CASE m \in Libraries -> Parse(LinkOptions(m), getFlagInLut) [] m \in StrictLibraries -> Parse(Prop(m, "flags"), StrictFlagsIn)
      [] m \in External -> Parse(Prop(m, "flags"), ExternalFlagsIn) [] OTHER -> <<>>

-----------------------------------------------------------------------------
(* What reaches a module *)

(* The order in which each mutator adds its dependencies *)
TagOrder == <<"filegroup", "whole_static", "static", "header", "shared", "dep", "toolchain", "kernel_module",
              "install_dep", "alias", "host_tool", "generated_sources", "generated_headers",
              "export_generated_headers", "generated", "reexport">>
LOCAL InTagOrder(edges) ==
    FlattenSeq([i \in DOMAIN TagOrder |-> SetToSeq({e \in edges : e[1] = TagOrder[i]})])
DirectDeps == Table([m \in Modules |->
    InTagOrder(DependerDeps(m) \ GenericDeps(m)) \o InTagOrder(GenericDeps(m)) \o InTagOrder(AliasDeps(m))
    \o InTagOrder(GeneratedDependerDeps(m)) \o InTagOrder(SortedDeps(m)) \o InTagOrder(ReexportDeps(m))])
(* WalkDeps: a module before the ones it depends on *)
Walked[m \in Modules] ==
    FlattenSeq([i \in DOMAIN DirectDeps[m] |-> <<DirectDeps[m][i][2]>> \o Walked[DirectDeps[m][i][2]]])

(* The members of s with a key none before them has *)
FirstBy(key(_), s) ==
    FoldLeft(LAMBDA kept, x : IF \E i \in DOMAIN kept : key(kept[i]) = key(x) THEN kept ELSE Append(kept, x), <<>>, s)
AppendIfUnique(flags, more) == FoldLeft(LAMBDA fs, f : IF \E i \in DOMAIN fs : FlagString(fs[i]) = FlagString(f)
                                                       THEN fs ELSE Append(fs, f), flags, more)
Filtered(T, flags) == SelectSeq(flags, LAMBDA f : MatchesType(f, T))
ReferenceFlagsInTransitive(m) ==
    LET once(s) == FirstBy(LAMBDA x : Prop(x, "name"), s)
        direct == once([i \in DOMAIN DirectDeps[m] |-> DirectDeps[m][i][2]])
        all == once(direct \o Walked[m])
        taken(i) == Filtered(IF i <= Len(direct) THEN {"exported", "transitive"} ELSE {"transitive"}, FlagsOut(all[i])) IN
    AppendIfUnique(<<>>, FlattenSeq([i \in DOMAIN all |-> taken(i)]))

(* A strict binary also links with the options of its shared libraries *)
SharedLinkopts(m) ==
    LET libs == FirstBy(LAMBDA e : Prop(e[2], "name"), SelectSeq(DirectDeps[m], LAMBDA e : e[1] = "shared")) IN
    FlattenSeq([i \in DOMAIN libs |-> Filtered({"transitive_linker"}, FlagsOut(libs[i][2]))])
FlagsInTransitiveOf(m) ==
    LET flags == FlagsIn(m) \o ReferenceFlagsInTransitive(m) IN
    IF Kind(m) \in {"strict_binary", "test"} THEN AppendIfUnique(flags, SharedLinkopts(m)) ELSE flags
FlagsInTransitive == Table([m \in Modules |-> FlagsInTransitiveOf(m)])

-----------------------------------------------------------------------------
(* The variable of a compile a flag ends up in *)
Variable(f) ==
    CASE f.types \cap {"asm", "c", "cpp"} = {"c"} -> "conlyflags"
      [] MatchesType(f, {"cc", "include"}) -> "cflags"
      [] MatchesType(f, {"asm"}) -> "asflags"
      [] MatchesType(f, {"cpp"}) -> "cxxflags"
      [] OTHER -> "none"
Texts(flags) == [i \in DOMAIN flags |-> FlagString(flags[i])]
=============================================================================

------------------------------ MODULE MCMainRun ------------------------------
(***************************************************************************)
(* Worlds for TLC: many configurations of an empty tree, for what the       *)
(* toolchains are made of, and few configurations of small trees, for what  *)
(* the visits share.                                                       *)
(***************************************************************************)
EXTENDS MainRun, TLC

CONSTANTS lib, app, gen, tcRoot, tcSub, all

\* A machine: the compiler is a ccache symlink in the first of its PATH.
Machine ==
    [path |-> <<"ccache", "bin", "local">>,
     gcc |-> [d \in {"ccache", "bin", "local"} |->
                 CASE d = "ccache" -> "ccache" [] d = "bin" -> "none" [] d = "local" -> "real"],
     installed |-> {<<"", "ar", "">>}, linkers |-> {"-fuse-ld=bfd", "-fuse-ld=gold"},
     files |-> {"crt1.o", "libgcc"},
     accepts |-> {<<"gnu", "c", "f1">>, <<"gnu", "c", "f2">>, <<"clang", "c++", "f1">>}]

\* One with no compiler but the symlink, one without lld or GNU's files
Bare    == [Machine EXCEPT !.gcc["local"] = "none", !.installed = {}]
Foreign == [Machine EXCEPT !.path = <<"local">>, !.linkers = {}, !.files = {"libatomic.so"},
                           !.installed = {<<"aarch64-", "ar", "">>}]

Tools(kinds, on, stl, rt) ==
    [kinds |-> kinds, on |-> on, stl |-> stl, rt |-> rt,
     ar |-> <<"", "gcc-ar", "">>, gcc |-> <<"aarch64-", "gcc", "-13">>]

Conf(builder, target, host, machine) ==
    [custom_toolchain |-> FALSE, builder |-> builder, target |-> target, host |-> host,
     machine |-> machine]

Plain == Tools({"gnu"}, {}, "", "")

Clang ==
    {Tools({"clang"}, on, stl, rt) :
        on \in SUBSET {"sysroot", "triple", "gnu_binutils", "gnu_crt", "gnu_stl"},
        stl \in {"", "libc++"}, rt \in {"", "libgcc"}}
Gnu == {Tools({"gnu"}, on, "", "") :
           on \in SUBSET {"cflags", "cxxflags", "ldflags", "sysroot", "gnu_flags", "gnu_prefix"}}
Others == {Tools({"armclang"}, {"armclang_flags"}, "", ""), Tools({"xcode"}, {"triple"}, "", ""),
           Tools({"clang"}, {"cflags", "cxxflags", "ldflags", "gnu_libgcc"}, "", ""),
           Tools({}, {}, "", "")}

Empty == [modules |-> <<>>, collisions |-> {}]

World(c, t, filters, metaFile) ==
    [conf |-> c, tree |-> t, filters |-> filters, metaFile |-> metaFile]

ManyConfigurations ==
    {World(Conf(b, t, Plain, w), Empty, <<>>, FALSE) :
        b \in {"linux", "android_ninja"}, t \in Clang \cup Gnu \cup Others,
        w \in {Machine, Foreign}}
    \cup {World(Conf(b, Plain, h, Machine), Empty, <<>>, FALSE) :
        b \in {"linux", "android_ninja"}, h \in Clang}
    \cup {World(Conf("linux", t, Plain, Bare), Empty, <<>>, TRUE) : t \in Others}
    \cup {World([Conf("linux", Plain, Plain, Bare) EXCEPT !.custom_toolchain = TRUE],
                Empty, <<>>, TRUE)}

\* The module a tree gives its values to
Some == [variants |-> {"target"}, warns |-> {}, structs |-> "common", kind |-> "legacy",
         dir |-> <<>>, toolchain |-> None, checks |-> <<>>]

\* A library in two variants and a program ask for the same flags.
Flagged ==
    [modules |->
        lib :> [Some EXCEPT !.variants = TgtTypes,
                            !.checks = <<<<"Cflags", "f1">>, <<"Conlyflags", "f2">>>>,
                            !.warns = {"RelativeUpLinkWarning", "UnmatchedNonCompileSrcsWarning"}]
        @@ app :> [Some EXCEPT !.checks = <<<<"Cflags", "f2">>, <<"Cxxflags", "f1">>>>],
     collisions |-> {}]

\* A strict module below each of two toolchains, and two that warn
Nested ==
    [modules |->
        lib :> [Some EXCEPT !.variants = TgtTypes, !.kind = "strict", !.dir = <<"a", "b">>,
                            !.warns = {"RelativeUpLinkWarning"}]
        @@ app :> [Some EXCEPT !.kind = "strict", !.dir = <<"c">>, !.structs = "binary",
                               !.warns = {"AndroidOutOfTreeUnsupportedModule"}]
        @@ gen :> [Some EXCEPT !.warns = {"GenerateRuleWarning", "RelativeUpLinkWarning"}, !.dir = <<"a">>]
        @@ tcRoot :> [Some EXCEPT !.kind = "toolchain", !.structs = "toolchain"]
        @@ tcSub :> [Some EXCEPT !.kind = "toolchain", !.structs = "toolchain", !.dir = <<"a">>],
     collisions |-> {}]

\* Two toolchains in one directory; a module names its own; an alias
Crossed ==
    [modules |->
        lib :> [Some EXCEPT !.kind = "strict", !.dir = <<"a">>, !.structs = "strict"]
        @@ app :> [Some EXCEPT !.kind = "strict", !.dir = <<"a">>, !.structs = "strict"]
        @@ gen :> [Some EXCEPT !.kind = "strict", !.dir = <<"c">>, !.toolchain = tcSub]
        @@ tcRoot :> [Some EXCEPT !.kind = "toolchain", !.dir = <<"a">>]
        @@ tcSub :> [Some EXCEPT !.kind = "toolchain", !.dir = <<"a">>]
        @@ all :> [Some EXCEPT !.kind = "alias"],
     collisions |-> {}]

FewConfigurations ==
    {World(Conf("linux", Tools({"clang"}, {}, "", ""), Plain, Machine), Flagged, f, TRUE) :
        f \in {<<>>, <<<<"UnmatchedNonCompileSrcsWarning", "error">>>>}}
    \cup {World(Conf("android_ninja", Tools({"clang"}, {}, "", ""), Plain, Machine), Nested, f, TRUE) :
        f \in {<<<<"*", "warning">>>>, <<<<"*", "error">>, <<"RelativeUpLinkWarning", "ignore">>>>}}
    \cup {World(Conf("linux", Plain, Plain, Machine), [Crossed EXCEPT !.collisions = k], <<>>, TRUE) :
        k \in {{}, {"strict"}}}

MCWorlds == ManyConfigurations \cup FewConfigurations
=============================================================================

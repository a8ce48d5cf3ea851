---- MODULE Toolchains ----
(***************************************************************************)
(* From the configuration to the command lines: the toolchain objects of    *)
(* core/toolchain, and what the ninja back ends make of them when they      *)
(* compile and link.  A flag stands for all the strings the code adds with  *)
(* it; the order of the flags is kept, because the last -fuse-ld wins.      *)
(* The configuration of a target type is a record p: p.kinds are the        *)
(* <tgt>_toolchain_* options that are set, and p.on holds the string        *)
(* options that are not empty and the boolean ones that are true.           *)
(***************************************************************************)
EXTENDS Naturals, Sequences, FiniteSets, SequencesExt

CONSTANTS
    NoToolchain,   \* before Configure, and after its panic
    NoTool         \* a tool the PATH does not have

TgtTypes == {"host", "target"}

When(condition, flags) == IF condition THEN flags ELSE <<>>

(***************************************************************************)
(* Finding the tools.  A machine w has w.path, the directories of PATH, and *)
(* w.gcc: what the compiler is in each of them, "real", "ccache" (a symlink *)
(* to it) or "none".                                                        *)
(***************************************************************************)
Has(w, i) == w.gcc[w.path[i]] # "none"

\* The first entry of PATH after the first mention of the directory of the
\* first hit; that directory is not left out if PATH names it again.
lookPathSecond(w, first) ==
    LET at     == CHOOSE i \in DOMAIN w.path :
                      /\ w.path[i] = first
                      /\ \A j \in 1 .. i - 1 : w.path[j] # first
        behind == {i \in DOMAIN w.path : i > at /\ Has(w, i)}
    IN  IF behind = {} THEN NoTool
        ELSE w.path[CHOOSE i \in behind : \A j \in behind : i <= j]

\* The directory whose compiler is run; NoTool is a panic.
getToolPath(w) ==
    LET hits  == {i \in DOMAIN w.path : Has(w, i)}
        first == w.path[CHOOSE i \in hits : \A j \in hits : i <= j]
    IN  IF hits = {} THEN NoTool
        ELSE IF w.gcc[first] = "ccache" THEN lookPathSecond(w, first)
        ELSE first

(***************************************************************************)
(* A name of a tool is <<prefix, stem, suffix>>, as in aarch64- gcc -13.    *)
(* A compiler whose name does not end in gcc or gcc-<suffix> gives no hint. *)
(***************************************************************************)
inferToolFromGcc(cc, stem, keepSuffix) ==
    IF cc[2] = "gcc" THEN <<cc[1], stem, IF keepSuffix THEN cc[3] ELSE "">>
    ELSE NoTool

\* The order in which names for an archiver, nm or ranlib are tried.
Guesses(tool, cc, wrapper) ==
    << inferToolFromGcc(cc, "gcc-" \o wrapper, TRUE), tool,
       inferToolFromGcc(cc, wrapper, TRUE), inferToolFromGcc(cc, wrapper, FALSE),
       <<"", wrapper, "">> >>

maybeInferWrapper(tool, cc, wrapper, installed) ==
    LET names == Guesses(tool, cc, wrapper)
        hits  == {i \in DOMAIN names : names[i] \in installed}
    IN  IF tool # <<"", "gcc-" \o wrapper, "">> \/ hits = {} THEN tool
        ELSE names[CHOOSE i \in hits : \A j \in hits : i <= j]

(***************************************************************************)
(* The linkers: what they add for a library that forwards its own.          *)
(***************************************************************************)
newDefaultLinker(flags, libs) ==
    [flags |-> flags, libs |-> libs, keep |-> <<"--copy-dt-needed-entries">>,
     drop |-> <<"--no-copy-dt-needed-entries">>, forward |-> <<"-fuse-ld=bfd">>]

newClangLinker(flags, libs, useGnuBinutils) ==
    IF useGnuBinutils THEN newDefaultLinker(flags, libs)
    ELSE [flags |-> flags, libs |-> libs, keep |-> <<>>, drop |-> <<>>,
          forward |-> <<"-fuse-ld=lld">>]

newCustomLinker(flags, libs) ==
    [flags |-> flags, libs |-> libs, keep |-> <<>>, drop |-> <<>>, forward |-> <<>>]

newXcodeLinker(flags, libs) ==
    [flags |-> flags, libs |-> libs, keep |-> <<>>, drop |-> <<>>, forward |-> <<>>]

(***************************************************************************)
(* The toolchains.  cflags and cxxflags are what GetCCompiler and           *)
(* GetCXXCompiler return beside the tool.                                   *)
(***************************************************************************)
(* Mutant: the linker is not told of the sysroot. *)
newToolchainGnuNoRoot(p, w) ==
    LET flags == When("gnu_flags" \in p.on, <<"gnu_flags">>)
    IN  IF getToolPath(w) = NoTool THEN NoToolchain
        ELSE [kind     |-> "gnu",
              ar       |-> IF "gnu_prefix" \in p.on THEN p.ar
                           ELSE maybeInferWrapper(p.ar, p.gcc, "ar", w.installed),
              cflags   |-> When("cflags" \in p.on, <<"cflags">>)
                               \o When("sysroot" \in p.on, <<"--sysroot">>) \o flags,
              cxxflags |-> When("cxxflags" \in p.on, <<"cxxflags">>),
              linker   |-> newDefaultLinker(When("ldflags" \in p.on, <<"ldflags">>)
                                                \o flags, <<>>)]

newToolchainGnuCommon(p, w) ==
    LET machine == When("sysroot" \in p.on, <<"--sysroot">>)
                       \o When("gnu_flags" \in p.on, <<"gnu_flags">>)
    IN  IF getToolPath(w) = NoTool THEN NoToolchain
        ELSE [kind     |-> "gnu",
              ar       |-> IF "gnu_prefix" \in p.on THEN p.ar
                           ELSE maybeInferWrapper(p.ar, p.gcc, "ar", w.installed),
              cflags   |-> When("cflags" \in p.on, <<"cflags">>) \o machine,
              cxxflags |-> When("cxxflags" \in p.on, <<"cxxflags">>),
              linker   |-> newDefaultLinker(When("ldflags" \in p.on, <<"ldflags">>)
                                                \o machine, <<>>)]

\* The first linker that is installed and that the compiler can drive.
selectSupportedFuseLdFlag(w) ==
    LET known == <<"-fuse-ld=lld", "-fuse-ld=gold", "-fuse-ld=bfd">>
        hits  == {i \in DOMAIN known : known[i] \in w.linkers}
    IN  IF hits = {} THEN <<>> ELSE <<known[CHOOSE i \in hits : \A j \in hits : i <= j]>>

\* What a build of Android out of its tree adds first, to the compilers and,
\* for the host, to the linker: the host's linker gets the compilers' too.
BionicCflags == <<"-DANDROID", "-isystem bionic">>

GlibcCflags(w) ==
    <<"-DANDROID", "-target x86_64", "--sysroot=glibc", "--gcc-toolchain=glibc">>
        \o selectSupportedFuseLdFlag(w)

OutOfTreeCflags(tgt, w) == IF tgt = "target" THEN BionicCflags ELSE GlibcCflags(w)

OutOfTreeLdflags(tgt, w) ==
    When(tgt = "host",
         OutOfTreeCflags(tgt, w)
             \o <<"-target x86_64", "--sysroot=glibc", "--gcc-toolchain=glibc">>
             \o selectSupportedFuseLdFlag(w))

newToolchainClangCommon(p, tgt, outOfTree, w) ==
    LET triple   == "triple" \in p.on \/ (outOfTree /\ tgt = "target")
        binutils == "gnu_binutils" \in p.on
        fromGnu  == p.on \cap {"gnu_crt", "gnu_libgcc", "gnu_stl"} # {}
        shared   == When(triple, <<"-target">>)
        root     == When("sysroot" \in p.on, <<"--sysroot">>)
        stl      == When(p.stl # "", <<"--stdlib">>)
        runtime  == When(p.rt # "", <<"--rtlib">>)
                        \o When(fromGnu, <<"--gcc-toolchain">>)
        cflags   == When(outOfTree, OutOfTreeCflags(tgt, w)) \o shared \o root \o runtime
        ldflags  == When(outOfTree, OutOfTreeLdflags(tgt, w)) \o shared
                        \o When("ldflags" \in p.on, <<"ldflags">>) \o root
                        \o (IF binutils THEN <<"-fuse-ld=bfd">> ELSE <<"-fuse-ld=lld">>)
                        \o stl \o runtime
                        \o When("gnu_crt" \in p.on /\ "crt1.o" \in w.files, <<"-B crt1.o">>)
                        \o When(binutils, <<"-B bin">>)
                        \o When("gnu_libgcc" \in p.on /\ "libgcc" \in w.files, <<"-L libgcc">>)
        ldlibs   == When(p.rt = "libgcc" /\ "libatomic.so" \notin w.files, <<"-latomic">>)
    IN  IF (binutils \/ fromGnu) /\ getToolPath(w) = NoTool THEN NoToolchain
        ELSE [kind     |-> "clang",
              ar       |-> IF binutils THEN newToolchainGnuCommon(p, w).ar ELSE p.ar,
              cflags   |-> cflags \o When("cflags" \in p.on, <<"cflags">>),
              cxxflags |-> When("cxxflags" \in p.on, <<"cxxflags">>) \o stl
                               \o When("gnu_stl" \in p.on, <<"-isystem c++">>) \o cflags,
              linker   |-> newClangLinker(ldflags, ldlibs, binutils)]

newToolchainArmClangCommon(p) ==
    LET flags == When("armclang_flags" \in p.on, <<"armclang_flags">>)
    IN  [kind |-> "armclang", ar |-> p.ar,
         cflags |-> flags, cxxflags |-> flags, linker |-> newDefaultLinker(<<>>, <<>>)]

newToolchainXcodeCommon(p) ==
    LET flags == When("triple" \in p.on, <<"-target">>)
    IN  [kind |-> "xcode", ar |-> p.ar,
         cflags |-> flags, cxxflags |-> flags, linker |-> newXcodeLinker(flags, <<>>)]

\* GetLinker makes the linker anew, from the linker's flags.
newToolchainCustom(p) ==
    [kind     |-> "custom", ar |-> p.ar,
     cflags   |-> When("cflags" \in p.on, <<"cflags">>),
     cxxflags |-> When("cxxflags" \in p.on, <<"cxxflags">>),
     linker   |-> newCustomLinker(When("ldflags" \in p.on, <<"ldflags">>), <<>>)]

\* One half of Configure: the toolchain of a target type, by the order in
\* which the options are looked at.  NoToolchain is a panic.
ToolchainOf(c, tgt) ==
    LET p == c[tgt] IN
    IF c.custom_toolchain          THEN newToolchainCustom(p)
    ELSE IF "clang" \in p.kinds    THEN
        newToolchainClangCommon(p, tgt, c.builder = "android_ninja", c.machine)
    ELSE IF "gnu" \in p.kinds      THEN newToolchainGnuCommon(p, c.machine)
    ELSE IF "armclang" \in p.kinds THEN newToolchainArmClangCommon(p)
    ELSE IF "xcode" \in p.kinds    THEN newToolchainXcodeCommon(p)
    ELSE NoToolchain

(***************************************************************************)
(* The command lines of a module: m.cflags, m.conlyflags and m.cxxflags are *)
(* its own flags, forwards says that it links to a library that forwards    *)
(* the libraries it is linked to.                                           *)
(***************************************************************************)
\* On Linux the flags GetCCompiler returns go into cflags, which both
\* compilers get; out of the Android tree they go into conlyflags.
CompileC(builder, tc, m)   ==
    (IF builder = "linux" THEN tc.cflags \o m.cflags ELSE m.cflags \o tc.cflags)
        \o m.conlyflags

CompileCXX(builder, tc, m) ==
    When(builder = "linux", tc.cflags) \o m.cflags \o tc.cxxflags \o m.cxxflags

\* getSharedLibFlags and getCommonLibArgs: $ldflags, then the shared
\* libraries with what their forwarding needs, then $ldlibs.
Link(tc, forwards) ==
    tc.linker.flags
        \o When(forwards, tc.linker.keep \o <<"lib">> \o tc.linker.drop \o tc.linker.forward)
        \o tc.linker.libs
====

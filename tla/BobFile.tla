------------------------------- MODULE BobFile -------------------------------
(***************************************************************************)
(* core/file: the file a module owns or produces.  A name is the sequence  *)
(* of its base and its extensions (<<"libm", ".so", ".toc">>), a build     *)
(* path a directory and a name.  Which directory a file lives in follows   *)
(* from its tags and, where they are silent, from its extension.           *)
(***************************************************************************)
EXTENDS Sequences, FiniteSets, SequencesExt, TLC

(* f itself; TLC keeps a function it has compared, and would evaluate the  *)
(* values of one it has not anew each time                                 *)
Table(f) == CHOOSE g \in {f} : g = f

BuildDir == <<"$BuildDir">>
SourceDir == <<"$SrcDir">>
BobScriptsDir == <<"$BobScriptsDir">>
SharedLibsDir(tgt) == BuildDir \o <<tgt, "shared">>
StaticLibOutputDir(tgt) == BuildDir \o <<tgt, "static">>
BinaryOutputDir(tgt) == BuildDir \o <<tgt, "executable">>
KernelModOutputDir == BuildDir \o <<"target", "kernel_modules">>
SourceOutputDir(name) == BuildDir \o <<"gen", name>>

At(dir, name) == [dir |-> dir, name |-> name]
Join(dir, path) == At(dir \o path.dir, path.name)
PhonyPath(name) == At(<<>>, <<name>>)

(* path.Ext of a file name, "" when it has none *)
Ext(name) == IF Len(name) > 1 THEN Last(name) ELSE ""
ReplaceExtension(path, x) == [path EXCEPT !.name = (IF Len(@) > 1 THEN Front(@) ELSE @) \o <<x>>]

TagsOfExt(x) ==
    CASE x \in {".s", ".S"} -> {"asm"}
      [] x = ".c" -> {"c"}
      [] x \in {".cc", ".cpp"} -> {"cpp"}
      [] x = ".h" -> {"header"}
      [] x = ".a" -> {"archive"}
      [] x = ".so" -> {"shared"}
      [] x = ".ko" -> {"kernel"}
      [] x = ".toc" -> {"toc"}
      [] OTHER -> {}

(* The directory the back end gives a file, by its tags and name space *)
BackendPath(tags, ns) ==
    IF "generated" \in tags THEN BuildDir \o <<"gen">>
    ELSE IF tags \cap {"binary", "executable"} # {} THEN BinaryOutputDir(ns)
    ELSE IF "archive" \in tags /\ "src" \notin tags THEN StaticLibOutputDir(ns)
    ELSE IF tags \cap {"shared", "toc"} # {} /\ "src" \notin tags THEN SharedLibsDir(ns)
    ELSE IF "kernel" \in tags THEN KernelModOutputDir \o <<ns>>
    ELSE SourceDir

New(path, ns, tags) ==
    LET all == tags \cup TagsOfExt(Ext(path.name)) IN
    [backend |-> BackendPath(all, ns), scope |-> IF "generated" \in all THEN <<ns>> ELSE <<>>,
     path |-> path, tags |-> all, symlink |-> {}]

NewLink(path, ns, from, tags) ==
    [New(path, ns, from.tags \cup tags \cup {"link"}) EXCEPT !.symlink = {from}]

IsType(f, t) == t \in f.tags
IsSymLink(f) == f.symlink # {}
ExpandLink(f) == IF IsSymLink(f) THEN CHOOSE g \in f.symlink : TRUE ELSE f
UnScopedPath(f) == f.path
ScopedPath(f) == Join(f.scope, f.path)
BuildPath(f) == Join(f.backend \o f.scope, f.path)
RelBuildPath(f) == Join((IF IsType(f, "generated") THEN <<"gen">> ELSE <<>>) \o f.scope, f.path)

BuildPaths(files) == {BuildPath(f) : f \in files}
Tagged(files, t) == {f \in files : IsType(f, t)}

(* What a module gives to others as sources, and what it does not mention *)
GetOutputs(files) == BuildPaths({f \in files : ~IsType(f, "implicit")})
GetImplicitOutputs(files) == BuildPaths(Tagged(files, "implicit"))
=============================================================================

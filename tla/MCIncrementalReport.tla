-------------------------- MODULE MCIncrementalReport --------------------------
(***************************************************************************)
(* Small worlds for IncrementalReport: `lib` is a third-party library,     *)
(* `app` is built by the pom file appPom, and topPom uses both.            *)
(***************************************************************************)
EXTENDS IncrementalReportInvariant, TLC

CONSTANTS lib, app, appPom, topPom, none, nothing, v1, v2

MCArtifact == {lib, app}
MCPom == {appPom, topPom}
MCVersion == {v1, v2}

Library(shape, used, versions) ==
    [shape |-> shape, used |-> used, pom |-> none, versions |-> versions]
Internal(shape, used, versions) ==
    [shape |-> shape, used |-> used, pom |-> appPom, versions |-> versions]

Descriptors(l, a) == (lib :> l) @@ (app :> a)
References2(l, a) == (lib :> l) @@ (app :> a)

PomFile(status, builds, version, xml, list) ==
    [status |-> status, builds |-> builds, version |-> version, xml |-> xml, list |-> list]

NoRefs == References2("none", "none")
ParentPom(status) == PomFile(status, app, v1, References2("unversioned", "none"), NoRefs)
UserPom(status, xml, list) == PomFile(status, lib, v2, xml, list)

Agreeing == UserPom("tracked", References2(v1, v1), References2("none", v1))
Disagreeing == UserPom("tracked", References2(v1, "none"), References2(v2, v1))
MissingPom == PomFile("absent", app, v1, NoRefs, NoRefs)
DirectoryPom == PomFile("directory", app, v1, NoRefs, NoRefs)

Tree(x, y) == (appPom :> x) @@ (topPom :> y)

GoodPillar == Descriptors(Library("valid", TRUE, {v1}), Internal("valid", TRUE, {v1}))
BothVersions == Descriptors(Library("valid", TRUE, {v1, v2}), Internal("valid", TRUE, {v1}))
OldVersion == Descriptors(Library("valid", TRUE, {v2}), Internal("valid", TRUE, {v1, v2}))
InvalidLibrary == Descriptors(Library("invalid", TRUE, {v1}), Internal("valid", TRUE, {v1}))
UnusedLibrary == Descriptors(Library("valid", FALSE, {}), Internal("valid", TRUE, {v2}))
MissingLibrary == Descriptors(Library("absent", FALSE, {}), Internal("valid", FALSE, {v1}))
MalformedLibrary == Descriptors(Library("malformed", TRUE, {v1}), Internal("valid", TRUE, {v1}))

GoodTree == Tree(ParentPom("tracked"), Agreeing)

\* Every kind of descriptor against every kind of pom file.
AllPillars == {GoodPillar, BothVersions, OldVersion, InvalidLibrary, UnusedLibrary,
               MissingLibrary, MalformedLibrary}
AllTrees == {GoodTree, Tree(ParentPom("tracked"), Disagreeing),
             Tree(ParentPom("untracked"), Agreeing), Tree(ParentPom("exception"), Agreeing),
             Tree(MissingPom, Agreeing), Tree(DirectoryPom, Agreeing)}

\* Pillars that do and do not verify, against pom files that Maven can and cannot
\* make sense of, for runs that are cut short.
TwoPillars == {GoodPillar, OldVersion}
TwoTrees == {GoodTree, Tree(ParentPom("exception"), Agreeing)}

\* The same with one pom file: `app` is built by appPom, which uses `lib`.
OnePom == {appPom}
OneTree(status) == appPom :> PomFile(status, app, v1, References2(v1, "none"),
                                     References2(v1, "none"))
FourPillars == TwoPillars \cup {InvalidLibrary, UnusedLibrary}
OnePomTrees == {OneTree("tracked"), OneTree("exception")}
================================================================================

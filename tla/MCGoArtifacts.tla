---------------------------- MODULE MCGoArtifacts ----------------------------
(* Small instances of GoArtifacts for TLC. *)
EXTENDS GoArtifacts, TLC

Want(m, p, s, c) == [mode |-> m, pkg |-> p, stamp |-> s, code |-> c]
\* Two interfaces, two bodies for one of them, another package, another mode.
MCWants == {Want("export", "p", "s1", "c1"), Want("export", "p", "s1", "c2"),
            Want("export", "p", "s2", "c1"), Want("export", "q", "s1", "c1"),
            Want("import", "p", "s1", "c1")}
\* Exports of one package.
MCExports == {w \in MCWants : w.mode = "export" /\ w.pkg = "p"}

Symmetry == Permutations(Jobs)
=============================================================================

---------------------------- MODULE MCTsArtifacts ----------------------------
(* Small instances of TsArtifacts for TLC. *)
EXTENDS TsArtifacts, TLC

Want(k, s, c) == [kind |-> k, stamp |-> s, code |-> c]
\* Two interfaces, two texts for one of them, and another kind.
MCWants == {Want("export", "s1", "c1"), Want("export", "s1", "c2"),
            Want("export", "s2", "c1"), Want("import", "s1", "c1")}
MCExports == {w \in MCWants : w.kind = "export"}

Symmetry == Permutations(Jobs)
=============================================================================

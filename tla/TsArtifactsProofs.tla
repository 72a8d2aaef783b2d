-------------------------- MODULE TsArtifactsProofs --------------------------
(***************************************************************************)
(* Theorems about the artifact ownership of intercall-ts, for every set of *)
(* invocations, every set of outputs and every number of edits: what an    *)
(* invocation may replace, and what its success means.                     *)
(***************************************************************************)
EXTENDS TsArtifacts, TLAPS

\* Only the invocation itself changed a target while it ran: it replaces no
\* interface that is not its own, and no binding of another kind or with a
\* stamp that assertReplaceableLeaf does not accept, although the checks were
\* made several steps before the rename.
OwnFilesOnly ==
  [][\A j \in Jobs \ disturbed : Rename(j) =>
       IF First(plan[j]) = "interface" THEN ReplaceableInterface(want[j])
       ELSE ReplaceableLeaf(want[j])]_vars

\* Under the same condition, an invocation that ends successfully leaves
\* exactly its output in every one of its targets, whether it renamed them or
\* found that they need no replacement.
SuccessIsOutput ==
  [][\A j \in Jobs \ disturbed : pc[j] # "ok" /\ pc'[j] = "ok" =>
       \A t \in TargetsOf(want[j]) : file'[t] = Output(want[j], t)]_vars

-----------------------------------------------------------------------------
(* The inductive invariant                                                 *)

Labels == {"idle", "interface", "binding", "interface2", "binding2", "compare", "stage", "rename",
           "ok", "refused", "failed", "crashed"}

Types ==
  /\ file \in [Targets -> Files("binding") \cup Files("interface")]
  /\ want \in [Jobs -> Wants] /\ plan \in [Jobs -> SUBSET Targets] /\ pc \in [Jobs -> Labels]

\* The targets still to be renamed are targets of the command.
PlanInv(j) ==
  /\ pc[j] = "stage" => plan[j] = TargetsOf(want[j])
  /\ pc[j] = "rename" => plan[j] # {} /\ plan[j] \subseteq TargetsOf(want[j])

\* What the checks found still holds, and what has been renamed is the output.
Checked(j) ==
  /\ pc[j] \in {"binding", "binding2", "compare", "stage", "rename"} /\ want[j].kind = "export"
       => ReplaceableInterface(want[j])
  /\ pc[j] \in {"compare", "stage", "rename"} => ReplaceableLeaf(want[j])
  /\ pc[j] = "rename" => \A t \in TargetsOf(want[j]) \ plan[j] : file[t] = Output(want[j], t)

OwnershipInv ==
  /\ Types
  /\ \A j \in Jobs : PlanInv(j) /\ (j \notin disturbed => Checked(j))

-----------------------------------------------------------------------------
(* The targets                                                             *)

\* An output passes the checks of the invocation that wrote it.
LEMMA OutputReplaceable ==
  ASSUME NEW w \in Wants
  PROVE  /\ Output(w, "interface") # Foreign
         /\ Output(w, "binding") # Foreign
         /\ Output(w, "binding").kind = w.kind /\ Output(w, "binding").stamp = w.stamp
BY DEF Output, Foreign

LEMMA TargetsTypes ==
  ASSUME NEW w \in Wants
  PROVE  /\ TargetsOf(w) \subseteq Targets /\ "binding" \in TargetsOf(w) /\ TargetsOf(w) # {}
         /\ "interface" \in TargetsOf(w) => w.kind = "export"
         /\ \A t \in Targets : Output(w, t) \in Files("binding") \cup Files("interface")
BY DEF TargetsOf, Targets, Files

\* The target that is taken next is one of those that are left.
LEMMA FirstOf ==
  ASSUME NEW S \in SUBSET Targets, S # {}
  PROVE  First(S) \in S /\ First(S) \in Targets
BY DEF First, Targets

\* The targets do not change: what an invocation knows stays true.
LEMMA CheckedQuiet ==
  ASSUME NEW k, Checked(k), UNCHANGED file, pc'[k] = pc[k], plan'[k] = plan[k], want'[k] = want[k]
  PROVE  Checked(k)'
BY DEF Checked, ReplaceableInterface, ReplaceableLeaf

LEMMA PlanQuiet ==
  ASSUME NEW k, PlanInv(k), pc'[k] = pc[k], plan'[k] = plan[k], want'[k] = want[k]
  PROVE  PlanInv(k)'
BY DEF PlanInv

\* An invocation that no longer runs has nothing to know.
LEMMA CheckedIdle ==
  ASSUME NEW k, pc'[k] \notin {"binding", "binding2", "compare", "stage", "rename"}
  PROVE  Checked(k)' /\ PlanInv(k)'
BY DEF Checked, PlanInv

-----------------------------------------------------------------------------
(* Steps                                                                   *)

\* A step of one invocation that leaves the targets alone.
LEMMA OneSteps ==
  ASSUME OwnershipInv, Types', NEW j \in Jobs, UNCHANGED <<file, want, disturbed>>,
         \A k \in Jobs \ {j} : pc'[k] = pc[k] /\ plan'[k] = plan[k],
         PlanInv(j)', j \notin disturbed => Checked(j)'
  PROVE  OwnershipInv'
<1>1. ASSUME NEW k \in Jobs \ {j} PROVE PlanInv(k)' /\ (k \notin disturbed' => Checked(k)')
  BY <1>1, CheckedQuiet, PlanQuiet DEF OwnershipInv
<1>2. QED
  BY <1>1 DEF OwnershipInv

LEMMA OwnershipStep == OwnershipInv /\ [Next]_vars => OwnershipInv'
<1> SUFFICES ASSUME OwnershipInv, [Next]_vars PROVE OwnershipInv'
  OBVIOUS
<1>t. /\ file \in [Targets -> Files("binding") \cup Files("interface")]
      /\ want \in [Jobs -> Wants] /\ plan \in [Jobs -> SUBSET Targets] /\ pc \in [Jobs -> Labels]
  BY DEF OwnershipInv, Types
<1>1. ASSUME NEW j \in Jobs, Begin(j) \/ Fails(j) \/ Crash(j) PROVE OwnershipInv'
  <2>1. /\ UNCHANGED <<file, want, disturbed, plan>>
        /\ \A k \in Jobs \ {j} : pc'[k] = pc[k]
        /\ pc'[j] \in {"refused", "failed", "crashed", "interface", "binding2"} /\ pc' \in [Jobs -> Labels]
    BY <1>t, <1>1 DEF Begin, Fails, Crash, Goto, Labels
  <2>2. pc'[j] = "binding2" => want[j].kind # "export"
    BY <1>t, <1>1 DEF Begin, Fails, Crash, Goto
  <2>3. PlanInv(j)' /\ Checked(j)'
    BY <2>1, <2>2 DEF PlanInv, Checked
  <2>4. Types'
    BY <1>t, <2>1 DEF Types
  <2>5. QED
    BY <2>1, <2>3, <2>4, OneSteps
<1>2. ASSUME NEW j \in Jobs, CheckInterface(j) PROVE OwnershipInv'
  <2>1. /\ UNCHANGED <<file, want, disturbed, plan>>
        /\ \A k \in Jobs \ {j} : pc'[k] = pc[k]
        /\ pc'[j] \in {"refused", "binding", "binding2"} /\ pc' \in [Jobs -> Labels]
        /\ pc'[j] # "refused" => ReplaceableInterface(want[j])
    BY <1>t, <1>2 DEF CheckInterface, Goto, Labels
  <2>2. PlanInv(j)' /\ Checked(j)'
    BY <2>1 DEF PlanInv, Checked, ReplaceableInterface
  <2>3. Types'
    BY <1>t, <2>1 DEF Types
  <2>4. QED
    BY <2>1, <2>2, <2>3, OneSteps
<1>3. ASSUME NEW j \in Jobs, CheckBinding(j) PROVE OwnershipInv'
  <2>1. /\ UNCHANGED <<file, want, disturbed, plan>>
        /\ \A k \in Jobs \ {j} : pc'[k] = pc[k]
        /\ pc'[j] \in {"refused", "interface2", "compare"} /\ pc' \in [Jobs -> Labels]
        /\ pc'[j] # "refused" => ReplaceableLeaf(want[j])
        /\ pc[j] \in {"binding", "binding2"}
    BY <1>t, <1>3 DEF CheckBinding, Goto, Labels
  <2>2. j \notin disturbed => Checked(j)'
    BY <2>1 DEF OwnershipInv, Checked, ReplaceableInterface, ReplaceableLeaf
  <2>3. Types' /\ PlanInv(j)'
    BY <1>t, <2>1 DEF Types, PlanInv
  <2>4. QED
    BY <2>1, <2>2, <2>3, OneSteps
<1>4. ASSUME NEW j \in Jobs, Compare(j) PROVE OwnershipInv'
  <2>1. /\ UNCHANGED <<file, want, disturbed>>
        /\ \A k \in Jobs \ {j} : pc'[k] = pc[k] /\ plan'[k] = plan[k]
        /\ pc'[j] \in {"ok", "stage"} /\ pc' \in [Jobs -> Labels]
        /\ pc'[j] = "stage" => plan'[j] = TargetsOf(want[j])
        /\ pc[j] = "compare"
    BY <1>t, <1>4 DEF Compare, Goto, Labels
  <2>2. plan' \in [Jobs -> SUBSET Targets]
    <3>1. TargetsOf(want[j]) \in SUBSET Targets
      BY <1>t, TargetsTypes
    <3>2. QED
      BY <1>t, <1>4, <3>1 DEF Compare
  <2>3. j \notin disturbed => Checked(j)'
    BY <2>1 DEF OwnershipInv, Checked, ReplaceableInterface, ReplaceableLeaf
  <2>4. Types' /\ PlanInv(j)'
    BY <1>t, <2>1, <2>2 DEF Types, PlanInv
  <2>5. QED
    BY <2>1, <2>3, <2>4, OneSteps
<1>5. ASSUME NEW j \in Jobs, Stage(j) PROVE OwnershipInv'
  <2>1. /\ UNCHANGED <<file, want, disturbed, plan>>
        /\ \A k \in Jobs \ {j} : pc'[k] = pc[k]
        /\ pc'[j] \in {"rename", "stage"} /\ pc' \in [Jobs -> Labels]
        /\ pc[j] = "stage"
    BY <1>t, <1>5 DEF Stage, Goto, Labels
  <2>2. plan[j] = TargetsOf(want[j]) /\ plan[j] # {}
    BY <1>t, <2>1, TargetsTypes DEF OwnershipInv, PlanInv
  <2>3. j \notin disturbed => Checked(j)'
    BY <2>1, <2>2 DEF OwnershipInv, Checked, ReplaceableInterface, ReplaceableLeaf
  <2>4. Types' /\ PlanInv(j)'
    BY <1>t, <2>1, <2>2 DEF Types, PlanInv
  <2>5. QED
    BY <2>1, <2>3, <2>4, OneSteps
<1>6. ASSUME NEW j \in Jobs, Rename(j) PROVE OwnershipInv'
  <2>1. PICK t \in Targets : t = First(plan[j]) /\ t \in plan[j]
    BY <1>t, <1>6, FirstOf DEF Rename, OwnershipInv, PlanInv
  <2>2. /\ file' = [file EXCEPT ![t] = Output(want[j], t)]
        /\ plan' = [plan EXCEPT ![j] = plan[j] \ {t}]
        /\ pc' = [pc EXCEPT ![j] = IF plan[j] = {t} THEN "ok" ELSE "rename"]
        /\ disturbed' = disturbed \cup (Running \ {j}) /\ want' = want /\ pc[j] = "rename"
    BY <1>6, <2>1 DEF Rename, Goto
  <2>3. want[j] \in Wants
    BY <1>t
  <2>4. Types'
    BY <1>t, <2>1, <2>2, <2>3, TargetsTypes DEF Types, Labels
  <2>5. ASSUME NEW k \in Jobs \ {j} PROVE PlanInv(k)' /\ (k \notin disturbed' => Checked(k)')
    <3>1. pc'[k] = pc[k] /\ plan'[k] = plan[k] /\ want'[k] = want[k]
      BY <1>t, <2>2, <2>5
    <3>2. PlanInv(k)'
      BY <3>1, PlanQuiet DEF OwnershipInv
    <3>3. ASSUME k \notin disturbed' PROVE Checked(k)'
      <4>1. k \notin Running
        BY <2>2, <2>5, <3>3
      <4>2. QED
        BY <3>1, <4>1, CheckedIdle DEF Running
    <3>4. QED
      BY <3>2, <3>3
  <2>6. PlanInv(j)'
    BY <1>t, <2>1, <2>2 DEF OwnershipInv, PlanInv
  <2>7. ASSUME j \notin disturbed PROVE Checked(j)'
    <3>1. Checked(j)
      BY <2>7 DEF OwnershipInv
    <3>2. file'[t] = Output(want[j], t) /\ \A u \in Targets \ {t} : file'[u] = file[u]
      BY <1>t, <2>1, <2>2
    <3>3. want[j].kind = "export" => file'["interface"] # Foreign
      <4>1. CASE t = "interface"
        BY <2>3, <3>2, <4>1, OutputReplaceable
      <4>2. CASE t # "interface"
        BY <2>2, <3>1, <3>2, <4>2 DEF Checked, ReplaceableInterface, Targets
      <4>3. QED
        BY <4>1, <4>2
    <3>4. ReplaceableLeaf(want[j])'
      <4>1. CASE t = "binding"
        BY <2>2, <2>3, <3>2, <4>1, OutputReplaceable DEF ReplaceableLeaf
      <4>2. CASE t # "binding"
        BY <2>2, <3>1, <3>2, <4>2 DEF Checked, ReplaceableLeaf, Targets
      <4>3. QED
        BY <4>1, <4>2
    <3>5. \A u \in TargetsOf(want[j]) \ plan'[j] : file'[u] = Output(want[j], u)
      BY <1>t, <2>2, <2>3, <3>1, <3>2, TargetsTypes DEF Checked
    <3>6. QED
      BY <2>2, <3>3, <3>4, <3>5 DEF Checked, ReplaceableInterface
  <2>8. QED
    BY <2>2, <2>4, <2>5, <2>6, <2>7 DEF OwnershipInv
<1>7. CASE Edit
  <2>1. UNCHANGED <<want, plan, pc>> /\ disturbed' = disturbed \cup Running
    BY <1>7 DEF Edit
  <2>2. Types'
    BY <1>t, <1>7, <2>1 DEF Edit, Types, Files, Targets
  <2>3. ASSUME NEW k \in Jobs PROVE PlanInv(k)' /\ (k \notin disturbed' => Checked(k)')
    <3>1. PlanInv(k)'
      BY <2>1, PlanQuiet DEF OwnershipInv
    <3>2. ASSUME k \notin disturbed' PROVE Checked(k)'
      <4>1. k \notin Running
        BY <2>1, <3>2
      <4>2. QED
        BY <2>1, <4>1, CheckedIdle DEF Running
    <3>3. QED
      BY <3>1, <3>2
  <2>4. QED
    BY <2>2, <2>3 DEF OwnershipInv
<1>8. CASE UNCHANGED vars
  BY <1>8 DEF vars, OwnershipInv, Types, PlanInv, Checked, ReplaceableInterface, ReplaceableLeaf
<1>9. QED
  BY <1>1, <1>2, <1>3, <1>4, <1>5, <1>6, <1>7, <1>8 DEF Next, JobStep

LEMMA OwnershipInit == Init => OwnershipInv
BY DEF Init, OwnershipInv, Types, Files, Labels, PlanInv, Checked

-----------------------------------------------------------------------------
(* The theorems                                                            *)

\* What an invocation knows of the targets is an invariant.
THEOREM OwnershipKept == Spec => []OwnershipInv
BY OwnershipInit, OwnershipStep, PTL DEF Spec

\* intercall-ts, left alone, replaces nothing that its checks refuse.
THEOREM ReplacesOnlyOwn == Spec => OwnFilesOnly
<1>1. OwnershipInv /\ [Next]_vars =>
        [\A j \in Jobs \ disturbed : Rename(j) =>
           IF First(plan[j]) = "interface" THEN ReplaceableInterface(want[j])
           ELSE ReplaceableLeaf(want[j])]_vars
  <2> SUFFICES ASSUME OwnershipInv, NEW j \in Jobs \ disturbed, Rename(j)
               PROVE  IF First(plan[j]) = "interface" THEN ReplaceableInterface(want[j])
                      ELSE ReplaceableLeaf(want[j])
    OBVIOUS
  <2>1. Checked(j) /\ PlanInv(j) /\ pc[j] = "rename"
    BY DEF OwnershipInv, Rename
  <2>2. plan[j] \in SUBSET Targets /\ want[j] \in Wants
    BY DEF OwnershipInv, Types
  <2>3. First(plan[j]) \in plan[j]
    BY <2>1, <2>2, FirstOf DEF PlanInv
  <2>4. First(plan[j]) = "interface" => want[j].kind = "export"
    BY <2>1, <2>2, <2>3, TargetsTypes DEF PlanInv
  <2>5. QED
    BY <2>1, <2>4 DEF Checked
<1>2. QED
  BY OwnershipKept, <1>1, PTL DEF Spec, OwnFilesOnly

\* The success of intercall-ts, left alone, means that its output is there.
THEOREM SuccessHasOutput == Spec => SuccessIsOutput
<1>1. OwnershipInv /\ OwnershipInv' /\ [Next]_vars =>
        [\A j \in Jobs \ disturbed : pc[j] # "ok" /\ pc'[j] = "ok" =>
           \A t \in TargetsOf(want[j]) : file'[t] = Output(want[j], t)]_vars
  <2> SUFFICES ASSUME OwnershipInv, Next, NEW j \in Jobs \ disturbed, pc[j] # "ok", pc'[j] = "ok",
                      NEW t \in TargetsOf(want[j])
               PROVE  file'[t] = Output(want[j], t)
    BY DEF vars
  <2>1. pc \in [Jobs -> Labels] /\ file \in [Targets -> Files("binding") \cup Files("interface")]
        /\ t \in Targets /\ plan[j] \in SUBSET Targets
    BY TargetsTypes DEF OwnershipInv, Types
  <2>2. PICK k \in Jobs : JobStep(k) /\ k = j
    BY <2>1 DEF Next, Edit, JobStep, Begin, CheckInterface, CheckBinding, Compare, Stage, Rename,
                Fails, Crash, Goto
  <2>3. Compare(j) \/ Rename(j)
    BY <2>1, <2>2 DEF JobStep, Begin, CheckInterface, CheckBinding, Stage, Fails, Crash, Goto
  <2>4. CASE Compare(j)
    BY <2>1, <2>4 DEF Compare, Goto
  <2>5. CASE Rename(j)
    <3>1. /\ plan[j] = {First(plan[j])} /\ pc[j] = "rename"
          /\ file' = [file EXCEPT ![First(plan[j])] = Output(want[j], First(plan[j]))]
      BY <2>1, <2>5 DEF Rename, Goto
    <3>2. t # First(plan[j]) => file[t] = Output(want[j], t)
      BY <3>1 DEF OwnershipInv, Checked
    <3>3. QED
      BY <2>1, <3>1, <3>2
  <2>6. QED
    BY <2>3, <2>4, <2>5
<1>2. QED
  BY OwnershipKept, <1>1, PTL DEF Spec, SuccessIsOutput
=============================================================================

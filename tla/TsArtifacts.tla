----------------------------- MODULE TsArtifacts -----------------------------
(***************************************************************************)
(* The artifact ownership of intercall-ts (src/typescript/src/cli/         *)
(* ownership.ts and the two commands of main.ts): an invocation checks     *)
(* that the targets are its own, stages the new files and renames them     *)
(* into place, for an export the interface before the binding.             *)
(* Invocations may overlap, fail or be killed at any step, and the user    *)
(* may change a target at any time.                                        *)
(*   - The stamp in a binding's second line is the digest of the interface *)
(*     it was generated from; code stands for the rest of the binding and  *)
(*     for its own digest, which is never the digest of an interface.      *)
(*   - Foreign is any file without valid ownership lines.                  *)
(***************************************************************************)
EXTENDS Integers

CONSTANTS
  Jobs,      \* invocations with the same targets
  Wants,     \* what one may be asked to write: [kind, stamp, code]; no code
             \* is the stamp of one of them
  MaxEdits   \* bound of this model: edits by the user

Targets == {"binding", "interface"}
None == [owner |-> "none"]
Foreign == [owner |-> "foreign"]

\* interfaceOutput and bindingOutput of replaceOwnedPair.
Output(w, t) ==
  IF t = "binding"
  THEN [owner |-> "intercall-ts", kind |-> w.kind, stamp |-> w.stamp, code |-> w.code]
  ELSE [owner |-> "intercall-ts", stamp |-> w.stamp]

TargetsOf(w) == IF w.kind = "export" THEN Targets ELSE {"binding"}
Files(t) == {None, Foreign} \cup {Output(w, t) : w \in Wants}

VARIABLES
  file,      \* the two targets
  extraCode, \* does the output directory hold another code file?
  stages,    \* staged files: <<job, target>>
  want,      \* what each invocation was asked to write
  plan,      \* targets it has still to rename
  pc,        \* its control
  edits,     \* edits made so far
  disturbed  \* invocations during which somebody else changed a target

vars == <<file, extraCode, stages, want, plan, pc, edits, disturbed>>

Running == {j \in Jobs : pc[j] \in {"interface", "binding", "interface2", "binding2",
                                    "compare", "stage", "rename"}}

Init ==
  /\ file = [t \in Targets |-> None] /\ extraCode = FALSE
  /\ stages = {}
  /\ want \in [Jobs -> Wants]
  /\ plan = [j \in Jobs |-> {}]
  /\ pc = [j \in Jobs |-> "idle"]
  /\ edits = 0 /\ disturbed = {}

Goto(j, label) == pc' = [pc EXCEPT ![j] = label]
First(S) == IF "interface" \in S THEN "interface" ELSE "binding"

-----------------------------------------------------------------------------
(* main                                                                    *)

\* validateOutputDirectory, and everything up to the generated text.
Begin(j) ==
  /\ pc[j] = "idle"
  /\ \/ extraCode /\ Goto(j, "refused")
     \/ ~extraCode /\ Goto(j, IF want[j].kind = "export" THEN "interface" ELSE "binding2")
     \/ Goto(j, "failed")
  /\ UNCHANGED <<file, extraCode, stages, want, plan, edits, disturbed>>

\* assertReplaceableInterface.
ReplaceableInterface(w) == file["interface"] # Foreign

\* assertReplaceableLeaf: the recorded stamp has to be the stamp now written
\* or the digest of the binding's own text.
ReplaceableLeaf(w) ==
  \/ file["binding"] = None
  \/ /\ file["binding"] # Foreign
     /\ file["binding"].kind = w.kind
     /\ file["binding"].stamp \in {w.stamp, file["binding"].code}

\* An export makes both checks in main and again in replaceOwnedPair.
CheckInterface(j) ==
  /\ pc[j] \in {"interface", "interface2"}
  /\ Goto(j, IF ~ReplaceableInterface(want[j]) THEN "refused"
             ELSE IF pc[j] = "interface" THEN "binding" ELSE "binding2")
  /\ UNCHANGED <<file, extraCode, stages, want, plan, edits, disturbed>>

CheckBinding(j) ==
  /\ pc[j] \in {"binding", "binding2"}
  /\ Goto(j, IF ~ReplaceableLeaf(want[j]) THEN "refused"
             ELSE IF pc[j] = "binding" THEN "interface2" ELSE "compare")
  /\ UNCHANGED <<file, extraCode, stages, want, plan, edits, disturbed>>

\* hasBytes of both targets (replaceBytes for an import): unchanged bytes are
\* not replaced, otherwise every target of the command is.
Compare(j) ==
  /\ pc[j] = "compare"
  /\ IF \A t \in TargetsOf(want[j]) : file[t] = Output(want[j], t)
     THEN Goto(j, "ok") /\ UNCHANGED plan
     ELSE Goto(j, "stage") /\ plan' = [plan EXCEPT ![j] = TargetsOf(want[j])]
  /\ UNCHANGED <<file, extraCode, stages, want, edits, disturbed>>

-----------------------------------------------------------------------------
(* Staging and replacement                                                 *)

Unstaged(j) == {t \in plan[j] : <<j, t>> \notin stages}

\* writeFile of one stage; its name holds the process ID.
Stage(j) ==
  /\ pc[j] = "stage"
  /\ LET t == First(Unstaged(j)) IN
       /\ stages' = stages \cup {<<j, t>>}
       /\ Goto(j, IF Unstaged(j) = {t} THEN "rename" ELSE "stage")
  /\ UNCHANGED <<file, extraCode, want, plan, edits, disturbed>>

\* The last rename is followed by the finally block, which finds no stage.
Rename(j) ==
  /\ pc[j] = "rename"
  /\ LET t == First(plan[j]) IN
       /\ file' = [file EXCEPT ![t] = Output(want[j], t)]
       /\ stages' = stages \ {<<j, t>>}
       /\ plan' = [plan EXCEPT ![j] = @ \ {t}]
       /\ Goto(j, IF plan[j] = {t} THEN "ok" ELSE "rename")
  /\ disturbed' = disturbed \cup (Running \ {j})
  /\ UNCHANGED <<extraCode, want, edits>>

\* A file operation fails; the finally block removes both stages.
Fails(j) ==
  /\ j \in Running
  /\ stages' = {x \in stages : x[1] # j}
  /\ Goto(j, "failed")
  /\ UNCHANGED <<file, extraCode, want, plan, edits, disturbed>>

-----------------------------------------------------------------------------
(* The environment                                                         *)

Crash(j) ==
  /\ j \in Running
  /\ Goto(j, "crashed")
  /\ UNCHANGED <<file, extraCode, stages, want, plan, edits, disturbed>>

\* The user changes a target (a checkout, an edit, a deletion) or the directory.
Edit ==
  /\ edits < MaxEdits
  /\ edits' = edits + 1
  /\ \/ \E t \in Targets : \E f \in Files(t) \ {file[t]} :
          file' = [file EXCEPT ![t] = f] /\ UNCHANGED extraCode
     \/ extraCode' = ~extraCode /\ UNCHANGED file
  /\ disturbed' = disturbed \cup Running
  /\ UNCHANGED <<stages, want, plan, pc>>

JobStep(j) ==
  \/ Begin(j) \/ CheckInterface(j) \/ CheckBinding(j) \/ Compare(j)
  \/ Stage(j) \/ Rename(j) \/ Fails(j) \/ Crash(j)

Next == (\E j \in Jobs : JobStep(j)) \/ Edit

Spec == Init /\ [][Next]_vars

-----------------------------------------------------------------------------
(* Properties                                                              *)

\* The pair that an interrupted update, or the loss of one target, leaves.
Interrupted ==
  LET absent == {t \in Targets : file[t] = None} IN
  /\ \A t \in Targets : file[t] # Foreign
  /\ file["binding"] # None => file["binding"].kind = "export"
  /\ \/ absent = {} /\ file["binding"].stamp # file["interface"].stamp
     \/ absent \in {{"binding"}, {"interface"}}

\* "Export repairs a prior interrupted two-target update when both existing
\* targets are valid owned files with differing stamps or exactly one is
\* missing": a lone export that meets such a pair is not refused for it.
RepairsInterrupted ==
  [][\A j \in Jobs \ disturbed :
       /\ want[j].kind = "export" /\ Interrupted
       /\ pc[j] \in {"interface", "binding", "interface2", "binding2"}
       => pc'[j] # "refused"]_vars
=============================================================================

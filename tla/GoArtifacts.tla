----------------------------- MODULE GoArtifacts -----------------------------
(***************************************************************************)
(* The artifact writer of intercall-go (src/go/internal/tool/artifact.go): *)
(* each invocation checks that the targets it would replace are its own,   *)
(* stages the new files beside them and renames them into place, the       *)
(* binding before the interface.  Invocations may overlap, fail at any     *)
(* step and be killed at any step; between steps the user may replace,     *)
(* delete or restore a target, or drop another Go file next to it.         *)
(*   - An owned file is known by its ownership lines (mode, package and    *)
(*     stamp) and the rest of its text (code).  An exported interface is   *)
(*     its canonical body, whose digest is the stamp.  A file that is not  *)
(*     owned (handwritten, no regular file, bad stamp) is Foreign.         *)
(*   - Reading one target, staging one file and one rename are one step.   *)
(***************************************************************************)
EXTENDS Integers

CONSTANTS
  Jobs,      \* invocations of the tool with the same targets
  Wants,     \* what one may be asked to write: [mode, pkg, stamp, code]
  MaxEdits   \* bound of this model: edits by the user

ASSUME WantsAssumption ==
  \A w \in Wants : DOMAIN w = {"mode", "pkg", "stamp", "code"} /\ w.mode \in {"import", "export"}
ASSUME MaxEditsAssumption == MaxEdits \in Nat

Targets == {"binding", "interface"}
None == [kind |-> "none"]
Foreign == [kind |-> "foreign"]

\* w.formatted and w.interfaceFile.
Output(w, t) ==
  IF t = "binding"
  THEN [kind |-> "owned", mode |-> w.mode, pkg |-> w.pkg, stamp |-> w.stamp, code |-> w.code]
  ELSE [kind |-> "owned", stamp |-> w.stamp]

TargetsOf(w) == IF w.mode = "export" THEN Targets ELSE {"binding"}
Files(t) == {None, Foreign} \cup {Output(w, t) : w \in Wants}

VARIABLES
  file,      \* the two targets
  extraGo,   \* does the output directory hold another Go file?
  temps,     \* staged files: <<job, target>>
  want,      \* what each invocation was asked to write
  existing,  \* existingTargets: what it read of the targets
  plan,      \* targets it has still to replace
  pc,        \* its control
  edits,     \* edits made so far
  disturbed  \* invocations during which somebody else changed a target

jobVars == <<want, existing, plan>>
vars == <<file, extraGo, temps, jobVars, pc, edits, disturbed>>

Running == {j \in Jobs : pc[j] \in {"readBinding", "readInterface", "stage", "rename"}}

Init ==
  /\ file = [t \in Targets |-> None] /\ extraGo = FALSE
  /\ temps = {}
  /\ want \in [Jobs -> Wants]
  /\ existing = [j \in Jobs |-> [t \in Targets |-> None]]
  /\ plan = [j \in Jobs |-> {}]
  /\ pc = [j \in Jobs |-> "idle"]
  /\ edits = 0 /\ disturbed = {}

Goto(j, label) == pc' = [pc EXCEPT ![j] = label]
First(S) == IF "binding" \in S THEN "binding" ELSE "interface"

-----------------------------------------------------------------------------
(* run                                                                     *)

\* validateConfig and validateContent, then MkdirAll and the parents.
Begin(j) ==
  /\ pc[j] = "idle"
  /\ \E label \in {"readBinding", "failed"} : Goto(j, label)
  /\ UNCHANGED <<file, extraGo, temps, jobVars, edits, disturbed>>

\* Mutants: the mode is not looked at; the recorded stamp must be the new one.
replaceable_anyMode(w, t) ==
  \/ file[t] = None
  \/ /\ file[t].kind = "owned"
     /\ t = "binding" => file[t].pkg = w.pkg

replaceable_sameStamp(w, t) ==
  \/ file[t] = None
  \/ /\ file[t].kind = "owned" /\ file[t].stamp = w.stamp
     /\ t = "binding" => file[t].mode = w.mode /\ file[t].pkg = w.pkg

\* The ownership rules of readExisting (and of checkLeaf, for what is no
\* regular file): the recorded stamp need not be the one now written.
replaceable(w, t) ==
  \/ file[t] = None
  \/ /\ file[t].kind = "owned"
     /\ t = "binding" => file[t].mode = w.mode /\ file[t].pkg = w.pkg

\* Mutant: only the stamps are compared.
Replaced_byStamp(w, ex) ==
  IF w.mode = "export"
  THEN IF ex["binding"] # None /\ ex["interface"] # None
       THEN {t \in Targets : ex[t].stamp # w.stamp} ELSE Targets
  ELSE {t \in {"binding"} : ex[t] # Output(w, t)}

\* commit: what is replaced.  A pair with different stamps or with one target
\* missing is the trace of an interrupted update and is written anew.
Replaced(w, ex) ==
  IF w.mode = "export"
  THEN IF /\ ex["binding"] # None /\ ex["interface"] # None
          /\ ex["binding"].stamp = ex["interface"].stamp
       THEN {t \in Targets : ex[t] # Output(w, t)} ELSE Targets
  ELSE {t \in {"binding"} : ex[t] # Output(w, t)}

\* The end of readExisting and the decisions commit begins with.
Decide(j, ex) ==
  /\ existing' = [existing EXCEPT ![j] = ex]
  /\ plan' = [plan EXCEPT ![j] = Replaced(want[j], ex)]
  /\ Goto(j, IF Replaced(want[j], ex) = {} THEN "ok" ELSE "stage")

\* checkLeaves, scanOutDir and the binding's part of readExisting.
ReadBinding(j) ==
  /\ pc[j] = "readBinding"
  /\ IF extraGo \/ ~replaceable(want[j], "binding")
     THEN Goto(j, "refused") /\ UNCHANGED <<existing, plan>>
     ELSE LET ex == [existing[j] EXCEPT !["binding"] = file["binding"]] IN
          IF want[j].mode = "import" THEN Decide(j, ex)
          ELSE /\ existing' = [existing EXCEPT ![j] = ex]
               /\ Goto(j, "readInterface") /\ UNCHANGED plan
  /\ UNCHANGED <<file, extraGo, temps, want, edits, disturbed>>

ReadInterface(j) ==
  /\ pc[j] = "readInterface"
  /\ IF ~replaceable(want[j], "interface")
     THEN Goto(j, "refused") /\ UNCHANGED <<existing, plan>>
     ELSE Decide(j, [existing[j] EXCEPT !["interface"] = file["interface"]])
  /\ UNCHANGED <<file, extraGo, temps, want, edits, disturbed>>

-----------------------------------------------------------------------------
(* commit                                                                  *)

Unstaged(j) == {t \in plan[j] : <<j, t>> \notin temps}

\* stageFile.
Stage(j) ==
  /\ pc[j] = "stage"
  /\ LET t == First(Unstaged(j)) IN
       /\ temps' = temps \cup {<<j, t>>}
       /\ Goto(j, IF Unstaged(j) = {t} THEN "rename" ELSE "stage")
  /\ UNCHANGED <<file, extraGo, jobVars, edits, disturbed>>

\* One rename of a staged file over its target.
Rename(j) ==
  /\ pc[j] = "rename"
  /\ LET t == First(plan[j]) IN
       /\ file' = [file EXCEPT ![t] = Output(want[j], t)]
       /\ temps' = temps \ {<<j, t>>}
       /\ plan' = [plan EXCEPT ![j] = @ \ {t}]
       /\ Goto(j, IF plan[j] = {t} THEN "ok" ELSE "rename")
  /\ disturbed' = disturbed \cup (Running \ {j})
  /\ UNCHANGED <<extraGo, want, existing, edits>>

\* A file operation fails; cleanup removes what is still staged.
Fails(j) ==
  /\ j \in Running
  /\ temps' = {x \in temps : x[1] # j}
  /\ Goto(j, "failed")
  /\ UNCHANGED <<file, extraGo, jobVars, edits, disturbed>>

-----------------------------------------------------------------------------
(* The environment                                                         *)

\* The process is killed: nothing is cleaned up.
Crash(j) ==
  /\ j \in Running
  /\ Goto(j, "crashed")
  /\ UNCHANGED <<file, extraGo, temps, jobVars, edits, disturbed>>

\* The user changes a target (a checkout, an edit, a deletion) or the directory.
Edit ==
  /\ edits < MaxEdits
  /\ edits' = edits + 1
  /\ \/ \E t \in Targets : \E f \in Files(t) \ {file[t]} :
          file' = [file EXCEPT ![t] = f] /\ UNCHANGED extraGo
     \/ extraGo' = ~extraGo /\ UNCHANGED file
  /\ disturbed' = disturbed \cup Running
  /\ UNCHANGED <<temps, jobVars, pc>>

JobStep(j) ==
  \/ Begin(j) \/ ReadBinding(j) \/ ReadInterface(j) \/ Stage(j) \/ Rename(j)
  \/ Fails(j) \/ Crash(j)

Next == (\E j \in Jobs : JobStep(j)) \/ Edit

Spec == Init /\ [][Next]_vars

-----------------------------------------------------------------------------
(* Properties                                                              *)

\* Types; only a killed invocation leaves a staged file behind.
TypeOK ==
  /\ \A t \in Targets : file[t] \in Files(t)
  /\ extraGo \in BOOLEAN
  /\ want \in [Jobs -> Wants]
  /\ pc \in [Jobs -> {"idle", "readBinding", "readInterface", "stage", "rename", "ok",
                      "refused", "failed", "crashed"}]
  /\ \A j \in Jobs : plan[j] \subseteq TargetsOf(want[j])
  /\ temps \subseteq {x \in Jobs \X Targets : x[2] \in TargetsOf(want[x[1]])}
  /\ \A x \in temps : pc[x[1]] \in {"stage", "rename", "crashed"}
  /\ edits \in 0 .. MaxEdits
  /\ disturbed \subseteq Jobs

\* An invocation that reports success and was alone has brought every target
\* to exactly what it was asked for, whatever earlier ones left half done.
SuccessIsComplete ==
  [][\A j \in Jobs \ disturbed : pc[j] # "ok" /\ pc'[j] = "ok" =>
       \A t \in TargetsOf(want[j]) : file'[t] = Output(want[j], t)]_vars

\* "It never overwrites a handwritten file": a lone invocation replaces
\* nothing but an absent target or one of its own mode and package.
ForeignKept ==
  [][\A j \in Jobs \ disturbed, t \in Targets :
       pc[j] = "rename" /\ t \in plan[j] \ plan'[j] =>
         \/ file[t] = None
         \/ file[t].kind = "owned" /\ (t = "binding" => file[t].mode = want[j].mode
                                                        /\ file[t].pkg = want[j].pkg)]_vars

\* What the tool itself has written, completely or not, never stands in its
\* way: without edits, invocations of one mode and package are not refused.
\* Only a killed invocation leaves a temporary file behind (TypeOK).
NeverStuck ==
  /\ TypeOK
  /\ edits = 0 /\ (\A i, j \in Jobs : want[i].mode = want[j].mode /\ want[i].pkg = want[j].pkg)
       => \A j \in Jobs : pc[j] # "refused"

-----------------------------------------------------------------------------
(* The inductive invariant                                                 *)

\* An invocation stages every file of its plan before the first rename, and
\* nothing outside its plan.
StagedInv ==
  /\ \A j \in Jobs : /\ pc[j] = "stage" => Unstaged(j) # {}
                     /\ pc[j] = "rename" => plan[j] # {} /\ Unstaged(j) = {}
  /\ \A x \in temps : pc[x[1]] \in {"stage", "rename"} => x[2] \in plan[x[1]]

\* What a lone invocation has read is still there: a target of its plan may be
\* replaced, one outside of it is already what it was asked to write.
AloneInv ==
  /\ \A j \in Jobs : pc[j] = "readInterface" => want[j].mode = "export"
  /\ \A j \in Jobs \ disturbed :
       /\ pc[j] = "readInterface" => /\ existing[j]["binding"] = file["binding"]
                                     /\ replaceable(want[j], "binding")
       /\ pc[j] \in {"stage", "rename"} =>
            \A t \in TargetsOf(want[j]) : IF t \in plan[j] THEN replaceable(want[j], t)
                                          ELSE file[t] = Output(want[j], t)

SameOwner == \A i, j \in Jobs : want[i].mode = want[j].mode /\ want[i].pkg = want[j].pkg

\* Without edits every target is replaceable for everybody at every moment.
OwnInv ==
  edits = 0 /\ SameOwner => /\ ~extraGo
                            /\ \A j \in Jobs, t \in Targets : replaceable(want[j], t)
                            /\ \A j \in Jobs : pc[j] # "refused"

WriterInv ==
  /\ TypeOK
  /\ file \in [Targets -> Files("binding") \cup Files("interface")]
  /\ existing \in [Jobs -> [Targets -> Files("binding") \cup Files("interface")]]
  /\ plan \in [Jobs -> SUBSET Targets]
  /\ StagedInv /\ AloneInv /\ OwnInv
=============================================================================

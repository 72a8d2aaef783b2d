-------------------------- MODULE GoArtifactsProofs --------------------------
(***************************************************************************)
(* Proofs about the artifact writer of intercall-go for any set of         *)
(* invocations, any wishes and any number of edits.  WriterInv is the      *)
(* inductive invariant: StagedInv follows the staged files, AloneInv what  *)
(* a lone invocation knows of the targets, OwnInv what the tool leaves     *)
(* behind for the next invocation.                                         *)
(***************************************************************************)
EXTENDS GoArtifacts, TLAPS

AnyFile == Files("binding") \cup Files("interface")

\* Everything of WriterInv that is only about the types.
WriterTypes ==
  /\ TypeOK
  /\ file \in [Targets -> AnyFile]
  /\ existing \in [Jobs -> [Targets -> AnyFile]]
  /\ plan \in [Jobs -> SUBSET Targets]

-----------------------------------------------------------------------------
(* The operators of the model                                              *)

\* What an invocation writes is a file of its target.
LEMMA OutputIsFile ==
  ASSUME NEW w \in Wants, NEW t \in Targets
  PROVE  Output(w, t) \in Files(t) /\ Output(w, t) \in AnyFile
BY DEF Files, AnyFile, Targets

\* A plan holds targets of the invocation only.
LEMMA ReplacedBelow ==
  ASSUME NEW w \in Wants, NEW ex
  PROVE  Replaced(w, ex) \subseteq TargetsOf(w) /\ TargetsOf(w) \subseteq Targets
<1>1. "binding" \in Targets
  BY DEF Targets
<1>2. CASE w.mode = "export"
  BY <1>2 DEF Replaced, TargetsOf
<1>3. CASE w.mode # "export"
  BY <1>1, <1>3 DEF Replaced, TargetsOf
<1> QED
  BY <1>2, <1>3

\* A target that an invocation does not plan to replace is what it wants.
LEMMA NotReplaced ==
  ASSUME NEW w \in Wants, NEW ex, NEW t \in TargetsOf(w) \ Replaced(w, ex)
  PROVE  ex[t] = Output(w, t)
<1>1. CASE w.mode = "export"
  BY <1>1 DEF Replaced, TargetsOf
<1>2. CASE w.mode # "export"
  BY <1>2 DEF Replaced, TargetsOf
<1> QED
  BY <1>1, <1>2

\* The first of a nonempty set of targets is in the set.
LEMMA FirstIn ==
  ASSUME NEW S \in SUBSET Targets, S # {}
  PROVE  First(S) \in S
BY DEF First, Targets

\* What an invocation has written may be replaced by one of the same owner.
LEMMA OwnOutput ==
  ASSUME NEW v \in Wants, NEW w \in Wants, v.mode = w.mode, v.pkg = w.pkg, NEW t \in Targets
  PROVE  /\ Output(v, t).kind = "owned"
         /\ t = "binding" => Output(v, t).mode = w.mode /\ Output(v, t).pkg = w.pkg
BY DEF Output

\* The control of a target's reader and what it stores.
LEMMA DecideFacts ==
  ASSUME WriterTypes, NEW j \in Jobs, NEW ex \in [Targets -> AnyFile], Decide(j, ex)
  PROVE  /\ existing' \in [Jobs -> [Targets -> AnyFile]]
         /\ plan' \in [Jobs -> SUBSET Targets]
         /\ plan'[j] = Replaced(want[j], ex)
         /\ \A i \in Jobs \ {j} : plan'[i] = plan[i] /\ existing'[i] = existing[i]
         /\ pc' = [pc EXCEPT ![j] = IF plan'[j] = {} THEN "ok" ELSE "stage"]
<1>1. want[j] \in Wants
  BY DEF WriterTypes, TypeOK
<1>2. Replaced(want[j], ex) \in SUBSET Targets
  BY <1>1, ReplacedBelow
<1>3. plan'[j] = Replaced(want[j], ex)
  BY DEF Decide, WriterTypes
<1>4. existing' \in [Jobs -> [Targets -> AnyFile]] /\ plan' \in [Jobs -> SUBSET Targets]
  BY <1>2 DEF Decide, WriterTypes
<1> QED
  BY <1>3, <1>4 DEF Decide, Goto, WriterTypes

-----------------------------------------------------------------------------
(* The reading steps, as one case distinction                              *)

Reads(j) == ReadBinding(j) \/ ReadInterface(j)

\* A reading step refuses, goes on to the interface or decides on what it has
\* read, which for a target it did not read itself is what it read before.
LEMMA ReadingFacts ==
  ASSUME WriterTypes, AloneInv, NEW j \in Jobs, Reads(j)
  PROVE  /\ UNCHANGED <<file, extraGo, temps, want, edits, disturbed>>
         /\ j \in Running
         /\ \/ /\ pc' = [pc EXCEPT ![j] = "refused"] /\ UNCHANGED <<existing, plan>>
               /\ extraGo \/ \E t \in Targets : ~replaceable(want[j], t)
            \/ /\ pc' = [pc EXCEPT ![j] = "readInterface"] /\ UNCHANGED plan
               /\ pc[j] = "readBinding" /\ want[j].mode = "export"
               /\ replaceable(want[j], "binding")
               /\ existing' = [existing EXCEPT ![j] =
                                 [existing[j] EXCEPT !["binding"] = file["binding"]]]
            \/ \E ex \in [Targets -> AnyFile] :
                 /\ Decide(j, ex)
                 /\ j \notin disturbed =>
                      \A t \in TargetsOf(want[j]) : ex[t] = file[t] /\ replaceable(want[j], t)
<1>1. /\ want[j].mode \in {"import", "export"}
      /\ existing[j] \in [Targets -> AnyFile] /\ file \in [Targets -> AnyFile]
      /\ "binding" \in Targets /\ "interface" \in Targets
  BY WantsAssumption DEF WriterTypes, TypeOK, Targets
<1>2. CASE ReadBinding(j)
  <2>1. /\ UNCHANGED <<file, extraGo, temps, want, edits, disturbed>>
        /\ j \in Running /\ pc[j] = "readBinding"
    BY <1>2 DEF ReadBinding, Running
  <2>2. CASE extraGo \/ ~replaceable(want[j], "binding")
    BY <1>1, <1>2, <2>1, <2>2 DEF ReadBinding, Goto
  <2>3. CASE ~(extraGo \/ ~replaceable(want[j], "binding"))
    <3> DEFINE ex == [existing[j] EXCEPT !["binding"] = file["binding"]]
    <3>1. ex \in [Targets -> AnyFile] /\ ex["binding"] = file["binding"]
      BY <1>1
    <3>2. CASE want[j].mode = "import"
      <4>1. Decide(j, ex)
        BY <1>2, <2>3, <3>2 DEF ReadBinding
      <4>2. \A t \in TargetsOf(want[j]) : ex[t] = file[t] /\ replaceable(want[j], t)
        BY <2>3, <3>1, <3>2 DEF TargetsOf
      <4> HIDE DEF ex
      <4> QED
        BY <2>1, <3>1, <4>1, <4>2
    <3>3. CASE want[j].mode = "export"
      BY <1>2, <2>1, <2>3, <3>3 DEF ReadBinding, Goto
    <3> QED
      BY <1>1, <3>2, <3>3
  <2> QED
    BY <2>2, <2>3
<1>3. CASE ReadInterface(j)
  <2>1. /\ UNCHANGED <<file, extraGo, temps, want, edits, disturbed>>
        /\ j \in Running /\ pc[j] = "readInterface"
    BY <1>3 DEF ReadInterface, Running
  <2>2. CASE ~replaceable(want[j], "interface")
    BY <1>1, <1>3, <2>1, <2>2 DEF ReadInterface, Goto
  <2>3. CASE replaceable(want[j], "interface")
    <3> DEFINE ex == [existing[j] EXCEPT !["interface"] = file["interface"]]
    <3>1. ex \in [Targets -> AnyFile] /\ ex["interface"] = file["interface"]
          /\ ex["binding"] = existing[j]["binding"]
      BY <1>1
    <3>2. Decide(j, ex)
      BY <1>3, <2>3 DEF ReadInterface
    <3>3. ASSUME j \notin disturbed
          PROVE  \A t \in TargetsOf(want[j]) : ex[t] = file[t] /\ replaceable(want[j], t)
      <4>1. ex["binding"] = file["binding"] /\ replaceable(want[j], "binding")
        BY <2>1, <3>1, <3>3 DEF AloneInv
      <4> HIDE DEF ex
      <4> QED
        BY <2>3, <3>1, <4>1 DEF TargetsOf, Targets
    <3> HIDE DEF ex
    <3> QED
      BY <2>1, <3>1, <3>2, <3>3
  <2> QED
    BY <2>2, <2>3
<1> QED
  BY <1>2, <1>3 DEF Reads

-----------------------------------------------------------------------------
(* The initial states                                                      *)

LEMMA InitWriter == Init => WriterInv
<1> SUFFICES ASSUME Init PROVE WriterInv
  OBVIOUS
<1>1. None \in AnyFile /\ \A t \in Targets : None \in Files(t)
  BY DEF AnyFile, Files
<1>2. file \in [Targets -> AnyFile] /\ existing \in [Jobs -> [Targets -> AnyFile]]
  BY <1>1 DEF Init
<1>3. plan \in [Jobs -> SUBSET Targets] /\ pc = [j \in Jobs |-> "idle"] /\ temps = {}
  BY DEF Init
<1>4. \A t \in Targets : file[t] = None
  BY DEF Init
<1>5. edits \in 0 .. MaxEdits /\ disturbed \subseteq Jobs
  BY MaxEditsAssumption DEF Init
<1>9. extraGo \in BOOLEAN
  BY DEF Init
<1>6. TypeOK
  <2>1. \A t \in Targets : file[t] \in Files(t)
    BY <1>1, <1>4
  <2>2. \A j \in Jobs : plan[j] \subseteq TargetsOf(want[j])
    BY DEF Init
  <2> QED
    BY <1>3, <1>5, <1>9, <2>1, <2>2 DEF Init, TypeOK
<1>7. StagedInv /\ AloneInv
  BY <1>3 DEF StagedInv, AloneInv
<1>8. OwnInv
  BY <1>3, <1>4 DEF OwnInv, replaceable, Init
<1> QED
  BY <1>2, <1>3, <1>6, <1>7, <1>8 DEF WriterInv, AnyFile

-----------------------------------------------------------------------------
(* Staging and renaming                                                    *)

\* The target that is renamed next is one of the plan.
LEMMA RenameFacts ==
  ASSUME WriterTypes, StagedInv, NEW j \in Jobs, Rename(j)
  PROVE  /\ pc[j] = "rename" /\ First(plan[j]) \in plan[j] /\ First(plan[j]) \in Targets
         /\ First(plan[j]) \in TargetsOf(want[j]) /\ want[j] \in Wants
         /\ file' = [file EXCEPT ![First(plan[j])] = Output(want[j], First(plan[j]))]
         /\ temps' = temps \ {<<j, First(plan[j])>>}
         /\ plan' = [plan EXCEPT ![j] = plan[j] \ {First(plan[j])}]
         /\ pc' = [pc EXCEPT ![j] = IF plan[j] = {First(plan[j])} THEN "ok" ELSE "rename"]
         /\ disturbed' = disturbed \cup (Running \ {j})
         /\ UNCHANGED <<extraGo, want, existing, edits>>
<1>1. pc[j] = "rename" /\ plan[j] # {} /\ plan[j] \in SUBSET Targets
  BY DEF Rename, StagedInv, WriterTypes
<1>2. First(plan[j]) \in plan[j]
  BY <1>1, FirstIn
<1> QED
  BY <1>1, <1>2 DEF Rename, Goto, WriterTypes, TypeOK

LEMMA StageFacts ==
  ASSUME WriterTypes, StagedInv, NEW j \in Jobs, Stage(j)
  PROVE  /\ pc[j] = "stage" /\ First(Unstaged(j)) \in Unstaged(j)
         /\ First(Unstaged(j)) \in plan[j] /\ First(Unstaged(j)) \in Targets
         /\ temps' = temps \cup {<<j, First(Unstaged(j))>>}
         /\ pc' = [pc EXCEPT ![j] = IF Unstaged(j) = {First(Unstaged(j))} THEN "rename"
                                    ELSE "stage"]
         /\ UNCHANGED <<file, extraGo, jobVars, edits, disturbed>>
<1>1. pc[j] = "stage" /\ Unstaged(j) # {}
  BY DEF Stage, StagedInv
<1>2. Unstaged(j) \in SUBSET Targets /\ Unstaged(j) \subseteq plan[j]
  BY DEF WriterTypes, Unstaged
<1>3. First(Unstaged(j)) \in Unstaged(j)
  BY <1>1, <1>2, FirstIn
<1> QED
  BY <1>1, <1>2, <1>3 DEF Stage, Goto

-----------------------------------------------------------------------------
(* Types                                                                   *)

LEMMA NextTypes == WriterInv /\ [Next]_vars => WriterTypes'
<1> SUFFICES ASSUME WriterInv, [Next]_vars PROVE WriterTypes'
  OBVIOUS
<1>0. WriterTypes /\ StagedInv /\ AloneInv
  BY DEF WriterInv, WriterTypes, AnyFile
<1>1. CASE UNCHANGED vars
  BY <1>0, <1>1 DEF vars, jobVars, WriterTypes, TypeOK, AnyFile
<1>2. ASSUME NEW j \in Jobs, Begin(j) PROVE WriterTypes'
  BY <1>0, <1>2 DEF Begin, Goto, jobVars, WriterTypes, TypeOK, AnyFile
<1>3. ASSUME NEW j \in Jobs, Fails(j) PROVE WriterTypes'
  BY <1>0, <1>3 DEF Fails, Running, Goto, jobVars, WriterTypes, TypeOK, AnyFile
<1>4. ASSUME NEW j \in Jobs, Crash(j) PROVE WriterTypes'
  BY <1>0, <1>4 DEF Crash, Running, Goto, jobVars, WriterTypes, TypeOK, AnyFile
<1>5. ASSUME NEW j \in Jobs, Stage(j) PROVE WriterTypes'
  <2>1. First(Unstaged(j)) \in TargetsOf(want[j])
    BY <1>0, <1>5, StageFacts DEF WriterTypes, TypeOK
  <2> QED
    BY <1>0, <1>5, <2>1, StageFacts DEF jobVars, WriterTypes, TypeOK, AnyFile
<1>6. ASSUME NEW j \in Jobs, Rename(j) PROVE WriterTypes'
  <2> DEFINE t == First(plan[j])
  <2>1. t \in plan[j] /\ t \in Targets /\ want[j] \in Wants
    BY <1>0, <1>6, RenameFacts
  <2>2. Output(want[j], t) \in Files(t) /\ Output(want[j], t) \in AnyFile
    BY <2>1, OutputIsFile
  <2>3. file' \in [Targets -> AnyFile] /\ \A u \in Targets : file'[u] \in Files(u)
    <3>1. file' = [file EXCEPT ![t] = Output(want[j], t)]
      BY <1>0, <1>6, RenameFacts
    <3> HIDE DEF t
    <3> QED
      BY <1>0, <2>1, <2>2, <3>1 DEF WriterTypes, TypeOK
  <2>4. plan' \in [Jobs -> SUBSET Targets]
        /\ \A i \in Jobs : plan'[i] \subseteq TargetsOf(want[i])
    <3>1. plan' = [plan EXCEPT ![j] = plan[j] \ {t}]
      BY <1>0, <1>6, RenameFacts
    <3> HIDE DEF t
    <3> QED
      BY <1>0, <2>1, <3>1 DEF WriterTypes, TypeOK
  <2>5. ASSUME NEW x \in temps' PROVE pc'[x[1]] \in {"stage", "rename", "crashed"}
    <3>1. x \in temps /\ x \in Jobs \X Targets /\ pc[x[1]] \in {"stage", "rename", "crashed"}
          /\ x # <<j, t>>
      BY <1>0, <1>6, <2>5, RenameFacts DEF WriterTypes, TypeOK
    <3>2. CASE x[1] = j
      <4>1. x[2] \in plan[j] /\ x[2] # t
        BY <1>0, <1>6, <3>1, <3>2, RenameFacts DEF StagedInv
      <4> QED
        BY <1>0, <1>6, <3>2, <4>1, RenameFacts DEF WriterTypes, TypeOK
    <3>3. CASE x[1] # j
      BY <1>0, <1>6, <3>1, <3>3, RenameFacts DEF WriterTypes, TypeOK
    <3> QED
      BY <3>2, <3>3
  <2>6. pc' \in [Jobs -> {"idle", "readBinding", "readInterface", "stage", "rename", "ok",
                          "refused", "failed", "crashed"}]
    BY <1>0, <1>6, RenameFacts DEF WriterTypes, TypeOK
  <2>7. disturbed' \subseteq Jobs
    BY <1>0, <1>6, RenameFacts DEF WriterTypes, TypeOK, Running
  <2> QED
    BY <1>0, <1>6, <2>3, <2>4, <2>5, <2>6, <2>7, RenameFacts DEF WriterTypes, TypeOK, AnyFile, Files
<1>7. ASSUME NEW j \in Jobs, Reads(j) PROVE WriterTypes'
  <2>1. UNCHANGED <<file, extraGo, temps, want, edits, disturbed>> /\ j \in Running
        /\ want[j] \in Wants
    BY <1>0, <1>7, ReadingFacts DEF WriterTypes, TypeOK
  <2>2. ASSUME NEW label \in {"refused", "readInterface", "ok", "stage"},
               pc' = [pc EXCEPT ![j] = label], pc[j] \in {"readBinding", "readInterface"},
               existing' \in [Jobs -> [Targets -> AnyFile]], plan' \in [Jobs -> SUBSET Targets],
               \A i \in Jobs : plan'[i] \subseteq TargetsOf(want[i])
        PROVE  WriterTypes'
    BY <1>0, <2>1, <2>2 DEF WriterTypes, TypeOK, AnyFile, Files
  <2>3. pc[j] \in {"readBinding", "readInterface"}
    BY <1>7 DEF Reads, ReadBinding, ReadInterface
  <2>4. \A i \in Jobs : plan[i] \subseteq TargetsOf(want[i])
    BY <1>0 DEF WriterTypes, TypeOK
  <2>5. CASE pc' = [pc EXCEPT ![j] = "refused"] /\ UNCHANGED <<existing, plan>>
    BY <1>0, <2>2, <2>3, <2>4, <2>5 DEF WriterTypes
  <2>6. CASE /\ pc' = [pc EXCEPT ![j] = "readInterface"] /\ UNCHANGED plan
             /\ existing' = [existing EXCEPT ![j] =
                               [existing[j] EXCEPT !["binding"] = file["binding"]]]
    <3>1. existing' \in [Jobs -> [Targets -> AnyFile]]
      BY <1>0, <2>6 DEF WriterTypes, Targets
    <3> QED
      BY <1>0, <2>2, <2>3, <2>4, <2>6, <3>1 DEF WriterTypes
  <2>7. ASSUME NEW ex \in [Targets -> AnyFile], Decide(j, ex) PROVE WriterTypes'
    <3>0. /\ plan'[j] = Replaced(want[j], ex) /\ \A i \in Jobs \ {j} : plan'[i] = plan[i]
          /\ Replaced(want[j], ex) \subseteq TargetsOf(want[j])
      BY <1>0, <2>1, <2>7, DecideFacts, ReplacedBelow
    <3>1. \A i \in Jobs : plan'[i] \subseteq TargetsOf(want[i])
      BY <2>4, <3>0
    <3> QED
      BY <1>0, <2>2, <2>3, <2>7, <3>1, DecideFacts
  <2> QED
    BY <1>0, <1>7, <2>5, <2>6, <2>7, ReadingFacts
<1>8. CASE Edit
  <2>1. edits' \in 0 .. MaxEdits /\ disturbed' \subseteq Jobs
    BY <1>0, <1>8, MaxEditsAssumption DEF Edit, WriterTypes, TypeOK, Running
  <2>2. /\ file' \in [Targets -> AnyFile] /\ \A t \in Targets : file'[t] \in Files(t)
        /\ extraGo' \in BOOLEAN
    <3>1. CASE \E t \in Targets : \E f \in Files(t) \ {file[t]} :
                 file' = [file EXCEPT ![t] = f] /\ UNCHANGED extraGo
      <4>0. PICK t \in Targets : \E f \in Files(t) :
                                   file' = [file EXCEPT ![t] = f] /\ UNCHANGED extraGo
        BY <3>1
      <4>1. PICK f \in Files(t) : file' = [file EXCEPT ![t] = f] /\ UNCHANGED extraGo
        BY <4>0
      <4>2. f \in AnyFile
        BY <4>1 DEF AnyFile, Targets
      <4> QED
        BY <1>0, <4>1, <4>2 DEF WriterTypes, TypeOK
    <3>2. CASE extraGo' = ~extraGo /\ UNCHANGED file
      BY <1>0, <3>2 DEF WriterTypes, TypeOK
    <3> QED
      BY <1>8, <3>1, <3>2 DEF Edit
  <2> QED
    BY <1>0, <1>8, <2>1, <2>2 DEF Edit, jobVars, WriterTypes, TypeOK, AnyFile, Files
<1> QED
  BY <1>1, <1>2, <1>3, <1>4, <1>5, <1>6, <1>7, <1>8 DEF Next, JobStep, Reads

-----------------------------------------------------------------------------
(* Staged files                                                            *)

LEMMA NextStaged == WriterInv /\ [Next]_vars => StagedInv'
<1> SUFFICES ASSUME WriterInv, [Next]_vars PROVE StagedInv'
  OBVIOUS
<1>0. /\ WriterTypes /\ StagedInv /\ AloneInv
      /\ \A x \in temps : /\ x \in Jobs \X Targets
                          /\ pc[x[1]] \in {"stage", "rename", "crashed"}
      /\ plan \in [Jobs -> SUBSET Targets]
  BY DEF WriterInv, WriterTypes, AnyFile, TypeOK
<1>t. pc \in [Jobs -> {"idle", "readBinding", "readInterface", "stage", "rename", "ok",
                        "refused", "failed", "crashed"}]
  BY <1>0 DEF WriterTypes, TypeOK
<1>1. CASE UNCHANGED vars
  BY <1>0, <1>1 DEF vars, jobVars, StagedInv, Unstaged
<1>2. ASSUME NEW j \in Jobs, Begin(j) PROVE StagedInv'
  BY <1>0, <1>t, <1>2 DEF Begin, Goto, jobVars, StagedInv, Unstaged
<1>3. ASSUME NEW j \in Jobs, Fails(j) PROVE StagedInv'
  <2>1. \A i \in Jobs \ {j} : {t \in plan[i] : <<i, t>> \notin temps'} = Unstaged(i)
    BY <1>3 DEF Fails, Unstaged
  <2> QED
    BY <1>0, <1>t, <1>3, <2>1 DEF Fails, Goto, jobVars, StagedInv, Unstaged
<1>4. ASSUME NEW j \in Jobs, Crash(j) PROVE StagedInv'
  BY <1>0, <1>t, <1>4 DEF Crash, Goto, jobVars, StagedInv, Unstaged
<1>5. ASSUME NEW j \in Jobs, Stage(j) PROVE StagedInv'
  <2>1. PICK t \in Targets :
          /\ t \in Unstaged(j) /\ t \in plan[j] /\ temps' = temps \cup {<<j, t>>}
          /\ pc' = [pc EXCEPT ![j] = IF Unstaged(j) = {t} THEN "rename" ELSE "stage"]
          /\ plan' = plan /\ pc[j] = "stage"
    BY <1>0, <1>5, StageFacts DEF jobVars
  <2>2. Unstaged(j)' = Unstaged(j) \ {t} /\ \A i \in Jobs \ {j} : Unstaged(i)' = Unstaged(i)
    BY <2>1 DEF Unstaged
  <2>3. \A i \in Jobs : /\ pc'[i] = "stage" => Unstaged(i)' # {}
                        /\ pc'[i] = "rename" => plan'[i] # {} /\ Unstaged(i)' = {}
    BY <1>0, <1>t, <2>1, <2>2 DEF StagedInv
  <2>4. \A x \in temps' : pc'[x[1]] \in {"stage", "rename"} => x[2] \in plan'[x[1]]
    BY <1>0, <1>t, <2>1 DEF StagedInv
  <2> QED
    BY <2>3, <2>4 DEF StagedInv
<1>6. ASSUME NEW j \in Jobs, Rename(j) PROVE StagedInv'
  <2>1. PICK t \in Targets :
          /\ t \in plan[j] /\ temps' = temps \ {<<j, t>>}
          /\ plan' = [plan EXCEPT ![j] = plan[j] \ {t}]
          /\ pc' = [pc EXCEPT ![j] = IF plan[j] = {t} THEN "ok" ELSE "rename"]
          /\ pc[j] = "rename"
    BY <1>0, <1>6, RenameFacts
  <2>2. \A i \in Jobs \ {j} : Unstaged(i)' = Unstaged(i)
    BY <1>0, <2>1 DEF Unstaged
  <2>3. Unstaged(j) = {}
    BY <1>0, <2>1 DEF StagedInv
  <2>4. Unstaged(j)' = {}
    BY <1>0, <2>1, <2>3 DEF Unstaged
  <2>5. \A i \in Jobs : /\ pc'[i] = "stage" => Unstaged(i)' # {}
                        /\ pc'[i] = "rename" => plan'[i] # {} /\ Unstaged(i)' = {}
    BY <1>0, <1>t, <2>1, <2>2, <2>4 DEF StagedInv
  <2>6. ASSUME NEW x \in temps', pc'[x[1]] \in {"stage", "rename"}
        PROVE  x[2] \in plan'[x[1]]
    <3>1. x \in temps /\ x \in Jobs \X Targets /\ x # <<j, t>>
      BY <1>0, <2>1, <2>6
    <3>2. CASE x[1] = j
      <4>1. x[2] # t /\ x[2] \in plan[j]
        BY <1>0, <2>1, <3>1, <3>2 DEF StagedInv
      <4> QED
        BY <1>0, <2>1, <3>2, <4>1
    <3>3. CASE x[1] # j
      BY <1>0, <1>t, <2>1, <2>6, <3>1, <3>3 DEF StagedInv
    <3> QED
      BY <3>2, <3>3
  <2> QED
    BY <2>5, <2>6 DEF StagedInv
<1>7. ASSUME NEW j \in Jobs, Reads(j) PROVE StagedInv'
  <2>1. temps' = temps /\ pc[j] \in {"readBinding", "readInterface"}
    BY <1>7 DEF Reads, ReadBinding, ReadInterface
  <2>2. \A x \in temps : x[1] # j
    BY <1>0, <2>1
  <2>3. /\ \A i \in Jobs \ {j} : plan'[i] = plan[i] /\ pc'[i] = pc[i]
        /\ pc'[j] # "rename" /\ (pc'[j] = "stage" => plan'[j] # {})
    <3>1. ASSUME NEW ex \in [Targets -> AnyFile], Decide(j, ex)
          PROVE  /\ \A i \in Jobs \ {j} : plan'[i] = plan[i] /\ pc'[i] = pc[i]
                 /\ pc'[j] # "rename" /\ (pc'[j] = "stage" => plan'[j] # {})
      BY <1>0, <1>t, <3>1, DecideFacts
    <3> QED
      BY <1>0, <1>t, <1>7, <3>1, ReadingFacts
  <2>4. \A i \in Jobs \ {j} : Unstaged(i)' = Unstaged(i)
    BY <2>1, <2>3 DEF Unstaged
  <2>5. Unstaged(j)' = plan'[j]
    BY <2>1, <2>2 DEF Unstaged
  <2> QED
    BY <1>0, <2>1, <2>2, <2>3, <2>4, <2>5 DEF StagedInv
<1>8. CASE Edit
  BY <1>0, <1>8 DEF Edit, jobVars, StagedInv, Unstaged
<1> QED
  BY <1>1, <1>2, <1>3, <1>4, <1>5, <1>6, <1>7, <1>8 DEF Next, JobStep, Reads

-----------------------------------------------------------------------------
(* What a lone invocation knows                                            *)

\* What AloneInv says of one invocation.
AloneOne(j) ==
  /\ pc[j] = "readInterface" => /\ existing[j]["binding"] = file["binding"]
                                /\ replaceable(want[j], "binding")
  /\ pc[j] \in {"stage", "rename"} =>
       \A t \in TargetsOf(want[j]) : IF t \in plan[j] THEN replaceable(want[j], t)
                                     ELSE file[t] = Output(want[j], t)

\* A step of another invocation, or of the user, that an invocation survives
\* undisturbed has changed no target.
LEMMA OthersAlone ==
  ASSUME AloneInv, NEW i \in Jobs \ disturbed,
         pc'[i] = pc[i], plan'[i] = plan[i], existing'[i] = existing[i], want' = want,
         UNCHANGED file \/ i \notin Running
  PROVE  AloneOne(i)'
<1>1. AloneOne(i)
  BY DEF AloneInv, AloneOne
<1>2. CASE UNCHANGED file
  BY <1>1, <1>2 DEF AloneOne, replaceable
<1>3. CASE i \notin Running
  BY <1>3 DEF AloneOne, Running
<1> QED
  BY <1>2, <1>3

LEMMA NextAlone == WriterInv /\ [Next]_vars => AloneInv'
<1> SUFFICES ASSUME WriterInv, [Next]_vars PROVE AloneInv'
  OBVIOUS
<1>0. /\ WriterTypes /\ StagedInv /\ AloneInv /\ want \in [Jobs -> Wants]
      /\ plan \in [Jobs -> SUBSET Targets] /\ existing \in [Jobs -> [Targets -> AnyFile]]
      /\ file \in [Targets -> AnyFile]
  BY DEF WriterInv, WriterTypes, AnyFile, TypeOK
<1>t. pc \in [Jobs -> {"idle", "readBinding", "readInterface", "stage", "rename", "ok",
                        "refused", "failed", "crashed"}]
  BY <1>0 DEF WriterTypes, TypeOK
<1>s. SUFFICES /\ \A i \in Jobs : pc'[i] = "readInterface" => want'[i].mode = "export"
               /\ \A i \in Jobs \ disturbed' : AloneOne(i)'
  BY DEF AloneInv, AloneOne
<1>1. CASE UNCHANGED vars
  BY <1>0, <1>1, OthersAlone DEF vars, jobVars, AloneInv
<1>8. CASE Edit
  <2>1. \A i \in Jobs \ disturbed' : i \in Jobs \ disturbed /\ i \notin Running
    BY <1>8 DEF Edit
  <2> QED
    BY <1>0, <1>8, <2>1, OthersAlone DEF Edit, jobVars, AloneInv
<1>9. ASSUME NEW j \in Jobs, JobStep(j)
      PROVE  /\ \A i \in Jobs : pc'[i] = "readInterface" => want'[i].mode = "export"
             /\ \A i \in Jobs \ disturbed' : AloneOne(i)'
  <2>1. ASSUME UNCHANGED <<file, want, disturbed>>,
               \A i \in Jobs \ {j} : pc'[i] = pc[i] /\ plan'[i] = plan[i]
                                       /\ existing'[i] = existing[i],
               pc'[j] = "readInterface" => want[j].mode = "export",
               j \notin disturbed => AloneOne(j)'
        PROVE  /\ \A i \in Jobs : pc'[i] = "readInterface" => want'[i].mode = "export"
               /\ \A i \in Jobs \ disturbed' : AloneOne(i)'
    <3>1. \A i \in Jobs : pc'[i] = "readInterface" => want'[i].mode = "export"
      BY <1>0, <2>1 DEF AloneInv
    <3>2. ASSUME NEW i \in Jobs \ disturbed' PROVE AloneOne(i)'
      <4>1. CASE i = j
        BY <2>1, <3>2, <4>1
      <4>2. CASE i # j
        BY <1>0, <2>1, <3>2, <4>2, OthersAlone
      <4> QED
        BY <4>1, <4>2
    <3> QED
      BY <3>1, <3>2
  <2>2. CASE Begin(j)
    <3>1. pc'[j] \in {"readBinding", "failed"}
      BY <1>t, <2>2 DEF Begin, Goto
    <3>2. AloneOne(j)'
      BY <3>1 DEF AloneOne
    <3> QED
      BY <1>t, <2>1, <2>2, <3>1, <3>2 DEF Begin, Goto, jobVars
  <2>3. CASE Fails(j) \/ Crash(j)
    <3>1. pc'[j] \in {"failed", "crashed"}
      BY <1>t, <2>3 DEF Fails, Crash, Goto
    <3>2. AloneOne(j)'
      BY <3>1 DEF AloneOne
    <3> QED
      BY <1>t, <2>1, <2>3, <3>1, <3>2 DEF Fails, Crash, Goto, jobVars
  <2>4. CASE Stage(j)
    <3>1. pc[j] = "stage" /\ pc'[j] \in {"stage", "rename"}
          /\ UNCHANGED <<file, want, plan, existing, disturbed>>
      BY <1>t, <2>4 DEF Stage, Goto, jobVars
    <3>2. j \notin disturbed => AloneOne(j)
      BY <1>0 DEF AloneInv, AloneOne
    <3>3. j \notin disturbed => AloneOne(j)'
      BY <3>1, <3>2 DEF AloneOne, replaceable
    <3> QED
      BY <1>t, <2>1, <2>4, <3>1, <3>3 DEF Stage, Goto
  <2>5. CASE Rename(j)
    <3>1. PICK t \in Targets :
            /\ t \in plan[j] /\ t \in TargetsOf(want[j])
            /\ file' = [file EXCEPT ![t] = Output(want[j], t)]
            /\ plan' = [plan EXCEPT ![j] = plan[j] \ {t}]
            /\ pc' = [pc EXCEPT ![j] = IF plan[j] = {t} THEN "ok" ELSE "rename"]
            /\ pc[j] = "rename" /\ disturbed' = disturbed \cup (Running \ {j})
            /\ UNCHANGED <<want, existing>>
      BY <1>0, <2>5, RenameFacts
    <3>2. \A i \in Jobs : pc'[i] = "readInterface" => want'[i].mode = "export"
      BY <1>0, <1>t, <3>1 DEF AloneInv
    <3>3. ASSUME NEW i \in Jobs \ disturbed' PROVE AloneOne(i)'
      <4>1. CASE i # j
        <5>1. /\ i \in Jobs \ disturbed /\ i \notin Running
              /\ pc'[i] = pc[i] /\ plan'[i] = plan[i] /\ existing'[i] = existing[i]
          BY <1>0, <1>t, <3>1, <3>3, <4>1
        <5> QED
          BY <1>0, <3>1, <5>1, OthersAlone
      <4>2. CASE i = j
        <5>1. \A u \in TargetsOf(want[j]) : IF u \in plan[j] THEN replaceable(want[j], u)
                                            ELSE file[u] = Output(want[j], u)
          BY <1>0, <3>1, <3>3, <4>2 DEF AloneInv
        <5>2. ASSUME NEW u \in TargetsOf(want[j])
              PROVE  IF u \in plan'[j] THEN replaceable(want[j], u)'
                     ELSE file'[u] = Output(want[j], u)
          <6>1. u \in Targets
            BY DEF TargetsOf, Targets
          <6>2. CASE u = t
            BY <1>0, <3>1, <6>1, <6>2
          <6>3. CASE u # t
            BY <1>0, <3>1, <5>1, <6>1, <6>3 DEF replaceable
          <6> QED
            BY <6>2, <6>3
        <5>3. pc'[j] \in {"ok", "rename"}
          BY <1>t, <3>1
        <5> QED
          BY <3>1, <4>2, <5>2, <5>3 DEF AloneOne, replaceable
      <4> QED
        BY <4>1, <4>2
    <3> QED
      BY <3>2, <3>3
  <2>6. CASE Reads(j)
    <3>1. UNCHANGED <<file, want, disturbed>> /\ want[j] \in Wants
      BY <1>0, <2>6, ReadingFacts
    <3>2. CASE pc' = [pc EXCEPT ![j] = "refused"] /\ UNCHANGED <<existing, plan>>
      <4>1. pc'[j] = "refused"
        BY <1>t, <3>2
      <4>2. AloneOne(j)'
        BY <4>1 DEF AloneOne
      <4> QED
        BY <1>t, <2>1, <3>1, <3>2, <4>1, <4>2
    <3>3. CASE /\ pc' = [pc EXCEPT ![j] = "readInterface"] /\ UNCHANGED plan
               /\ want[j].mode = "export" /\ replaceable(want[j], "binding")
               /\ existing' = [existing EXCEPT ![j] =
                                 [existing[j] EXCEPT !["binding"] = file["binding"]]]
      <4>1. pc'[j] = "readInterface" /\ existing'[j]["binding"] = file["binding"]
        BY <1>0, <1>t, <3>3 DEF Targets
      <4>2. AloneOne(j)'
        BY <3>1, <3>3, <4>1 DEF AloneOne, replaceable
      <4> QED
        BY <1>0, <1>t, <2>1, <3>1, <3>3, <4>2
    <3>4. ASSUME NEW ex \in [Targets -> AnyFile], Decide(j, ex),
                 j \notin disturbed =>
                   \A t \in TargetsOf(want[j]) : ex[t] = file[t] /\ replaceable(want[j], t)
          PROVE  /\ \A i \in Jobs : pc'[i] = "readInterface" => want'[i].mode = "export"
                 /\ \A i \in Jobs \ disturbed' : AloneOne(i)'
      <4>1. /\ plan'[j] = Replaced(want[j], ex) /\ pc'[j] \in {"ok", "stage"}
            /\ \A i \in Jobs \ {j} : pc'[i] = pc[i] /\ plan'[i] = plan[i]
                                       /\ existing'[i] = existing[i]
        BY <1>0, <1>t, <3>4, DecideFacts
      <4>2. \A t \in TargetsOf(want[j]) \ plan'[j] : ex[t] = Output(want[j], t)
        BY <3>1, <4>1, NotReplaced
      <4>3. j \notin disturbed => AloneOne(j)'
        BY <3>1, <3>4, <4>1, <4>2 DEF AloneOne, replaceable
      <4> QED
        BY <2>1, <3>1, <4>1, <4>3
    <3> QED
      BY <1>0, <2>6, <3>2, <3>3, <3>4, ReadingFacts
  <2> QED
    BY <1>9, <2>2, <2>3, <2>4, <2>5, <2>6 DEF JobStep, Reads
<1> QED
  BY <1>1, <1>8, <1>9 DEF Next

-----------------------------------------------------------------------------
(* What the tool leaves for the next invocation                            *)

\* What an invocation is asked to write stays, and only an edit counts as one.
LEMMA WantKept == [Next]_vars => want' = want /\ (Edit \/ edits' = edits)
<1> SUFFICES ASSUME [Next]_vars PROVE want' = want /\ (Edit \/ edits' = edits)
  OBVIOUS
<1>1. CASE UNCHANGED vars
  BY <1>1 DEF vars, jobVars
<1>2. CASE Edit
  BY <1>2 DEF Edit, jobVars
<1>3. ASSUME NEW j \in Jobs, JobStep(j) PROVE want' = want /\ edits' = edits
  <2>1. CASE Begin(j) \/ Fails(j) \/ Crash(j)
    BY <2>1 DEF Begin, Fails, Crash, jobVars
  <2>2. CASE Stage(j) \/ Rename(j)
    BY <2>2 DEF Stage, Rename, jobVars
  <2>3. CASE ReadBinding(j) \/ ReadInterface(j)
    BY <2>3 DEF ReadBinding, ReadInterface
  <2> QED
    BY <1>3, <2>1, <2>2, <2>3 DEF JobStep
<1> QED
  BY <1>1, <1>2, <1>3 DEF Next

LEMMA NextOwn == WriterInv /\ [Next]_vars => OwnInv'
<1> SUFFICES ASSUME WriterInv, [Next]_vars PROVE OwnInv'
  OBVIOUS
<1>w. want' = want
  BY WantKept
<1> SUFFICES ASSUME edits' = 0, SameOwner'
             PROVE  /\ ~extraGo'
                    /\ \A i \in Jobs, t \in Targets : replaceable(want[i], t)'
                    /\ \A i \in Jobs : pc'[i] # "refused"
  BY <1>w DEF OwnInv, replaceable
<1>0. WriterTypes /\ StagedInv /\ AloneInv /\ OwnInv
  BY DEF WriterInv, WriterTypes, AnyFile
<1>t. /\ pc \in [Jobs -> {"idle", "readBinding", "readInterface", "stage", "rename", "ok",
                          "refused", "failed", "crashed"}]
      /\ want \in [Jobs -> Wants] /\ file \in [Targets -> AnyFile] /\ edits \in Nat
  BY <1>0, MaxEditsAssumption DEF WriterTypes, TypeOK
<1>1. want' = want /\ edits' = edits
  BY <1>t, WantKept DEF Edit
<1>2. /\ ~extraGo /\ SameOwner
      /\ \A i \in Jobs, t \in Targets : replaceable(want[i], t)
      /\ \A i \in Jobs : pc[i] # "refused"
  <2>1. edits = 0 /\ SameOwner
    BY <1>1 DEF SameOwner
  <2> QED
    BY <1>0, <2>1 DEF OwnInv
<1>3. CASE UNCHANGED vars
  BY <1>2, <1>3 DEF vars, jobVars, replaceable
<1>4. CASE Edit
  BY <1>1, <1>4, <1>t DEF Edit
<1>5. ASSUME NEW j \in Jobs, Begin(j) \/ Fails(j) \/ Crash(j) \/ Stage(j)
      PROVE  /\ ~extraGo'
             /\ \A i \in Jobs, t \in Targets : replaceable(want[i], t)'
             /\ \A i \in Jobs : pc'[i] # "refused"
  <2>1. UNCHANGED <<file, extraGo>>
    BY <1>5 DEF Begin, Fails, Crash, Stage
  <2>2. \A i \in Jobs : pc'[i] # "refused"
    BY <1>2, <1>5, <1>t DEF Begin, Fails, Crash, Stage, Goto
  <2> QED
    BY <1>1, <1>2, <2>1, <2>2 DEF replaceable
<1>6. ASSUME NEW j \in Jobs, Rename(j)
      PROVE  /\ ~extraGo'
             /\ \A i \in Jobs, t \in Targets : replaceable(want[i], t)'
             /\ \A i \in Jobs : pc'[i] # "refused"
  <2>1. PICK t \in Targets :
          /\ file' = [file EXCEPT ![t] = Output(want[j], t)]
          /\ \A i \in Jobs : pc'[i] # "refused"
          /\ extraGo' = extraGo
    BY <1>0, <1>2, <1>6, <1>t, RenameFacts
  <2>2. ASSUME NEW i \in Jobs, NEW u \in Targets PROVE replaceable(want[i], u)'
    <3>1. CASE u # t
      BY <1>1, <1>2, <1>t, <2>1, <3>1 DEF replaceable
    <3>2. CASE u = t
      <4>1. /\ Output(want[j], u).kind = "owned"
            /\ u = "binding" => /\ Output(want[j], u).mode = want[i].mode
                                /\ Output(want[j], u).pkg = want[i].pkg
        BY <1>2, <1>t, OwnOutput DEF SameOwner
      <4> QED
        BY <1>1, <1>t, <2>1, <3>2, <4>1 DEF replaceable
    <3> QED
      BY <3>1, <3>2
  <2> QED
    BY <1>2, <2>1, <2>2
<1>7. ASSUME NEW j \in Jobs, Reads(j)
      PROVE  /\ ~extraGo'
             /\ \A i \in Jobs, t \in Targets : replaceable(want[i], t)'
             /\ \A i \in Jobs : pc'[i] # "refused"
  <2>1. UNCHANGED <<file, extraGo>>
    BY <1>7 DEF Reads, ReadBinding, ReadInterface
  <2>2. \A i \in Jobs : pc'[i] # "refused"
    <3>1. ASSUME NEW ex \in [Targets -> AnyFile], Decide(j, ex)
          PROVE  \A i \in Jobs : pc'[i] # "refused"
      BY <1>2, <1>t, <3>1 DEF Decide, Goto
    <3> QED
      BY <1>0, <1>2, <1>7, <1>t, <3>1, ReadingFacts
  <2> QED
    BY <1>1, <1>2, <2>1, <2>2 DEF replaceable
<1> QED
  BY <1>3, <1>4, <1>5, <1>6, <1>7 DEF Next, JobStep, Reads

-----------------------------------------------------------------------------
(* The theorems                                                            *)

\* WriterInv holds in every reachable state.
THEOREM WriterCorrect == Spec => []WriterInv
<1>1. WriterInv /\ [Next]_vars => WriterInv'
  BY NextTypes, NextStaged, NextAlone, NextOwn DEF WriterInv, WriterTypes, AnyFile
<1> QED
  BY <1>1, InitWriter, PTL DEF Spec

\* What interrupted or overlapping invocations of the tool leave behind never
\* makes a later one of the same mode and package refuse to write, however
\* many there are and wherever they failed or were killed (readExisting).
THEOREM StuckNever == Spec => []NeverStuck
<1>1. WriterInv => NeverStuck
  BY DEF WriterInv, OwnInv, SameOwner, NeverStuck
<1> QED
  BY <1>1, WriterCorrect, PTL

\* A lone invocation that reports success has brought both targets to what it
\* was asked to write (commit).
THEOREM SuccessComplete == Spec => SuccessIsComplete
<1> DEFINE P == \A j \in Jobs \ disturbed : pc[j] # "ok" /\ pc'[j] = "ok" =>
                  \A t \in TargetsOf(want[j]) : file'[t] = Output(want[j], t)
<1>1. ASSUME WriterInv, Next PROVE P
  <2> SUFFICES ASSUME NEW j \in Jobs \ disturbed, pc[j] # "ok", pc'[j] = "ok",
                      NEW u \in TargetsOf(want[j])
               PROVE  file'[u] = Output(want[j], u)
    OBVIOUS
  <2>0. WriterTypes /\ StagedInv /\ AloneInv /\ want[j] \in Wants /\ u \in Targets
    BY <1>1 DEF WriterInv, WriterTypes, AnyFile, TypeOK, TargetsOf, Targets
  <2>t. /\ pc \in [Jobs -> {"idle", "readBinding", "readInterface", "stage", "rename", "ok",
                            "refused", "failed", "crashed"}]
        /\ file \in [Targets -> AnyFile] /\ plan \in [Jobs -> SUBSET Targets]
    BY <2>0 DEF WriterTypes, TypeOK
  <2>1. CASE Edit
    BY <2>1 DEF Edit
  <2>2. PICK i \in Jobs : JobStep(i)
    BY <1>1, <2>1 DEF Next, Edit
  <2>3. CASE Begin(i) \/ Fails(i) \/ Crash(i) \/ Stage(i)
    BY <2>3, <2>t DEF Begin, Fails, Crash, Stage, Goto
  <2>4. CASE Rename(i)
    <3>1. i = j /\ pc[j] = "rename"
      BY <2>0, <2>4, <2>t, RenameFacts
    <3>2. PICK t \in Targets : /\ plan[j] = {t}
                               /\ file' = [file EXCEPT ![t] = Output(want[j], t)]
      BY <2>0, <2>4, <2>t, <3>1, RenameFacts
    <3>3. u # t => file[u] = Output(want[j], u)
      BY <2>0, <3>1, <3>2 DEF AloneInv
    <3> QED
      BY <2>0, <2>t, <3>2, <3>3
  <2>5. CASE Reads(i)
    <3>1. i = j
      <4>1. ASSUME NEW ex, Decide(i, ex), i # j PROVE pc'[j] = pc[j]
        BY <2>t, <4>1 DEF Decide, Goto
      <4> QED
        BY <2>0, <2>5, <2>t, <4>1, ReadingFacts
    <3>2. file' = file
      BY <2>5 DEF Reads, ReadBinding, ReadInterface
    <3>3. PICK ex \in [Targets -> AnyFile] :
            /\ Decide(j, ex)
            /\ \A t \in TargetsOf(want[j]) : ex[t] = file[t] /\ replaceable(want[j], t)
      BY <2>0, <2>5, <2>t, <3>1, ReadingFacts
    <3>4. Replaced(want[j], ex) = {}
      BY <2>t, <3>3 DEF Decide, Goto
    <3>5. ex[u] = Output(want[j], u)
      BY <2>0, <3>4, NotReplaced
    <3> QED
      BY <3>2, <3>3, <3>5
  <2> QED
    BY <2>2, <2>3, <2>4, <2>5 DEF JobStep, Reads
<1>2. WriterInv /\ [Next]_vars => [P]_vars
  BY <1>1
<1> HIDE DEF P
<1>3. Spec => [][P]_vars
  BY <1>2, WriterCorrect, PTL DEF Spec
<1> QED
  BY <1>3 DEF SuccessIsComplete, P

\* A lone invocation replaces only an absent target or one of its own mode and
\* package: what readExisting found acceptable is still what the rename
\* overwrites.
THEOREM ForeignUntouched == Spec => ForeignKept
<1> DEFINE P == \A j \in Jobs \ disturbed, t \in Targets :
                  pc[j] = "rename" /\ t \in plan[j] \ plan'[j] =>
                    \/ file[t] = None
                    \/ file[t].kind = "owned" /\ (t = "binding" => file[t].mode = want[j].mode
                                                                   /\ file[t].pkg = want[j].pkg)
<1>1. ASSUME WriterInv PROVE P
  <2> SUFFICES ASSUME NEW j \in Jobs \ disturbed, NEW t \in Targets, pc[j] = "rename",
                      t \in plan[j]
               PROVE  replaceable(want[j], t)
    BY DEF replaceable
  <2>1. t \in TargetsOf(want[j])
    BY <1>1 DEF WriterInv, TypeOK
  <2> QED
    BY <1>1, <2>1 DEF WriterInv, AloneInv
<1>2. WriterInv /\ [Next]_vars => [P]_vars
  BY <1>1
<1> HIDE DEF P
<1>3. Spec => [][P]_vars
  BY <1>2, WriterCorrect, PTL DEF Spec
<1> QED
  BY <1>3 DEF ForeignKept, P

=============================================================================

--------------------------- MODULE KeygenToolProofs ---------------------------
(* What invocations of keygen_lifetime32 do to each other's files, for any    *)
(* number of them, any arguments and any failures.                            *)
EXTENDS KeygenTool, TLAPS

(* A part of a key file and a whole one, and the files of two makers, differ. *)
LEMMA FilesDiffer ==
  ASSUME NEW p, NEW q
  PROVE  /\ Part(p) # Whole(q)
         /\ Part(p) = Part(q) => p = q
         /\ Whole(p) = Whole(q) => p = q
         /\ Part(p).by = {p} /\ Whole(p).by = {p}
         /\ Exists(Part(p)) /\ Exists(Whole(p))
         /\ Part(p).whole = FALSE /\ Whole(p).whole = TRUE
BY DEF Part, Whole, Exists

LEMMA InitToolInv == Init => ToolInv
<1> SUFFICES ASSUME Init PROVE ToolInv OBVIOUS
<1>1. /\ pc = [p \in Invocation |-> "ParseArgs"]
      /\ public \in {Absent, Whole(Stranger)}
  BY DEF Init
<1>2. ASSUME NEW p \in Invocation PROVE HasItsFiles(p)
  <2>1. pc[p] = "ParseArgs" BY <1>1
  <2>2. public.by # {p} BY <1>1, StrangerAssumption DEF Absent, Whole
  <2> QED BY <2>1, <2>2 DEF HasItsFiles
<1>3. pc \in [Invocation -> Places] BY <1>1 DEF Places
<1> QED BY <1>2, <1>3 DEF ToolInv

(* The kinds of steps: nothing happens to the files and the invocation does   *)
(* not come to a place that needs one; or it makes or completes one of them.  *)
Quiet(p) ==
  /\ UNCHANGED <<public, secret>>
  /\ pc'[p] \notin {"WriteSecret", "OpenPublic", "WritePublic"}
  /\ pc'[p] = "Succeeded" => ~args[p].prefix

MakesSecret(p) ==
  /\ ~Exists(secret) /\ secret' = Part(p) /\ public' = public
  /\ pc'[p] = "WriteSecret"

CompletesSecret(p) ==
  /\ pc[p] = "WriteSecret" /\ secret' = Whole(p) /\ public' = public
  /\ pc'[p] = "OpenPublic"

MakesPublic(p) ==
  /\ pc[p] = "OpenPublic"
  /\ ~Exists(public) /\ public' = Part(p) /\ secret' = secret
  /\ pc'[p] = "WritePublic"

CompletesPublic(p) ==
  /\ pc[p] = "WritePublic" /\ public' = Whole(p) /\ secret' = secret
  /\ pc'[p] = "Succeeded"

LEMMA StepKinds ==
  ASSUME ToolInv, NEW p \in Invocation, Step(p) \/ Kill(p)
  PROVE  /\ args' = args /\ pc' \in [Invocation -> Places]
         /\ \A q \in Invocation : q # p => pc'[q] = pc[q]
         /\ \/ UNCHANGED <<public, secret, pc>>
            \/ Quiet(p) \/ MakesSecret(p) \/ CompletesSecret(p)
            \/ MakesPublic(p) \/ CompletesPublic(p)
<1> DEFINE Kinds == \/ UNCHANGED <<public, secret, pc>>
                    \/ Quiet(p) \/ MakesSecret(p) \/ CompletesSecret(p)
                    \/ MakesPublic(p) \/ CompletesPublic(p)
           Moved == /\ args' = args /\ pc' \in [Invocation -> Places]
                    /\ \A q \in Invocation : q # p => pc'[q] = pc[q]
<1>1. pc \in [Invocation -> Places] BY DEF ToolInv
<1>2. ASSUME NEW here, NEW next \in Places, Goto(p, here, next), args' = args
      PROVE  Moved /\ pc[p] = here /\ pc'[p] = next
  BY <1>1, <1>2 DEF Goto
<1>3. CASE ParseArgs(p)
  <2>1. PICK next \in {"KeyGen", "Failed"} : Goto(p, "ParseArgs", next)
    BY <1>3 DEF ParseArgs
  <2>2. Moved /\ pc'[p] = next BY <1>2, <1>3, <2>1 DEF Places, ParseArgs
  <2>3. Quiet(p) BY <1>3, <2>2 DEF ParseArgs, Quiet
  <2> QED BY <2>2, <2>3
<1>4. CASE GenerateKey(p)
  BY <1>1, <1>4 DEF GenerateKey
<1>5. CASE Serialize(p)
  <2>1. Goto(p, "KeyGen", IF args[p].prefix THEN "MakeDirectory" ELSE "Succeeded")
    BY <1>5 DEF Serialize
  <2>2. Moved /\ pc'[p] = IF args[p].prefix THEN "MakeDirectory" ELSE "Succeeded"
    BY <1>2, <1>5, <2>1 DEF Places, Serialize
  <2>3. Quiet(p) BY <1>5, <2>2 DEF Serialize, Quiet
  <2> QED BY <2>2, <2>3
<1>6. CASE MakeDirectory(p)
  <2>1. PICK next \in {"CheckPublic", "Failed"} : Goto(p, "MakeDirectory", next)
    BY <1>6 DEF MakeDirectory
  <2>2. Moved /\ pc'[p] = next BY <1>2, <1>6, <2>1 DEF Places, MakeDirectory
  <2>3. Quiet(p) BY <1>6, <2>2 DEF MakeDirectory, Quiet
  <2> QED BY <2>2, <2>3
<1>7. CASE CheckPublic(p)
  <2>1. PICK next \in {"CheckSecret", "Failed"} : Goto(p, "CheckPublic", next)
    BY <1>7 DEF CheckPublic, Check
  <2>2. Moved /\ pc'[p] = next BY <1>2, <1>7, <2>1 DEF Places, CheckPublic, Check
  <2>3. Quiet(p) BY <1>7, <2>2 DEF CheckPublic, Check, Quiet
  <2> QED BY <2>2, <2>3
<1>8. CASE CheckSecret(p)
  <2>1. PICK next \in {"OpenSecret", "Failed"} : Goto(p, "CheckSecret", next)
    BY <1>8 DEF CheckSecret, Check
  <2>2. Moved /\ pc'[p] = next BY <1>2, <1>8, <2>1 DEF Places, CheckSecret, Check
  <2>3. Quiet(p) BY <1>8, <2>2 DEF CheckSecret, Check, Quiet
  <2> QED BY <2>2, <2>3
<1>9. CASE OpenSecret(p)
  <2>1. CASE Goto(p, "OpenSecret", "WriteSecret") /\ CreateNew(p, secret, secret')
    BY <1>2, <1>9, <2>1 DEF Places, OpenSecret, CreateNew, MakesSecret
  <2>2. CASE Goto(p, "OpenSecret", "Failed") /\ UNCHANGED secret
    BY <1>2, <1>9, <2>2 DEF Places, OpenSecret, Quiet
  <2> QED BY <1>9, <2>1, <2>2 DEF OpenSecret
<1>10. CASE WriteSecret(p)
  <2>1. CASE Goto(p, "WriteSecret", "OpenPublic") /\ secret' = Whole(p)
    BY <1>2, <1>10, <2>1 DEF Places, WriteSecret, CompletesSecret
  <2>2. CASE Goto(p, "WriteSecret", "Failed") /\ UNCHANGED secret
    BY <1>2, <1>10, <2>2 DEF Places, WriteSecret, Quiet
  <2> QED BY <1>10, <2>1, <2>2 DEF WriteSecret
<1>11. CASE OpenPublic(p)
  <2>1. CASE Goto(p, "OpenPublic", "WritePublic") /\ CreateNew(p, public, public')
    BY <1>2, <1>11, <2>1 DEF Places, OpenPublic, CreateNew, MakesPublic
  <2>2. CASE Goto(p, "OpenPublic", "Failed") /\ UNCHANGED public
    BY <1>2, <1>11, <2>2 DEF Places, OpenPublic, Quiet
  <2> QED BY <1>11, <2>1, <2>2 DEF OpenPublic
<1>12. CASE WritePublic(p)
  <2>1. CASE Goto(p, "WritePublic", "Succeeded") /\ public' = Whole(p)
    BY <1>2, <1>12, <2>1 DEF Places, WritePublic, CompletesPublic
  <2>2. CASE Goto(p, "WritePublic", "Failed") /\ UNCHANGED public
    BY <1>2, <1>12, <2>2 DEF Places, WritePublic, Quiet
  <2> QED BY <1>12, <2>1, <2>2 DEF WritePublic
<1>13. CASE Kill(p)
  <2>1. Moved /\ pc'[p] = "Killed" BY <1>1, <1>13 DEF Places, Kill
  <2>2. Quiet(p) BY <1>13, <2>1 DEF Kill, Quiet
  <2> QED BY <2>1, <2>2
<1> QED BY <1>3, <1>4, <1>5, <1>6, <1>7, <1>8, <1>9, <1>10, <1>11, <1>12, <1>13 DEF Step

(* A step leaves every invocation the files it has made: the others do not    *)
(* touch a file that exists.                                                  *)
LEMMA NextToolInv == ToolInv /\ [Next]_vars => ToolInv'
<1> SUFFICES ASSUME ToolInv, [Next]_vars PROVE ToolInv' OBVIOUS
<1>1. ASSUME UNCHANGED <<public, secret, pc, args>> PROVE ToolInv'
  BY <1>1 DEF ToolInv, HasItsFiles
<1>2. ASSUME NEW p \in Invocation, Step(p) \/ Kill(p) PROVE ToolInv'
  <2>1. /\ args' = args /\ pc' \in [Invocation -> Places]
        /\ \A q \in Invocation : q # p => pc'[q] = pc[q]
        /\ \/ UNCHANGED <<public, secret, pc>>
           \/ Quiet(p) \/ MakesSecret(p) \/ CompletesSecret(p)
           \/ MakesPublic(p) \/ CompletesPublic(p)
    BY <1>2, StepKinds
  <2>2. HasItsFiles(p) BY DEF ToolInv
  <2>3. ASSUME NEW q \in Invocation, HasItsFiles(q) PROVE HasItsFiles(q)'
    <3>1. q # p => pc'[q] = pc[q] BY <2>1
    <3>2. args' = args BY <2>1
    <3>3. CASE UNCHANGED <<public, secret, pc>>
      BY <2>3, <3>2, <3>3 DEF HasItsFiles
    <3>4. CASE Quiet(p)
      BY <2>3, <3>1, <3>2, <3>4 DEF HasItsFiles, Quiet
    <3>5. CASE MakesSecret(p)
      <4>1. CASE q = p
        BY <2>3, <3>2, <3>5, <4>1, FilesDiffer DEF HasItsFiles, MakesSecret
      <4>2. CASE q # p
        BY <2>3, <3>1, <3>2, <3>5, <4>2, FilesDiffer DEF HasItsFiles, MakesSecret
      <4> QED BY <4>1, <4>2
    <3>6. CASE CompletesSecret(p)
      <4>1. secret = Part(p) BY <2>2, <3>6 DEF HasItsFiles, CompletesSecret
      <4>2. CASE q = p
        BY <2>3, <3>2, <3>6, <4>1, <4>2, FilesDiffer DEF HasItsFiles, CompletesSecret
      <4>3. CASE q # p
        BY <2>3, <3>1, <3>2, <3>6, <4>1, <4>3, FilesDiffer DEF HasItsFiles, CompletesSecret
      <4> QED BY <4>2, <4>3
    <3>7. CASE MakesPublic(p)
      <4>1. secret = Whole(p) BY <2>2, <3>7 DEF HasItsFiles, MakesPublic
      <4>2. CASE q = p
        BY <2>3, <3>2, <3>7, <4>1, <4>2, FilesDiffer DEF HasItsFiles, MakesPublic
      <4>3. CASE q # p
        BY <2>3, <3>1, <3>2, <3>7, <4>1, <4>3, FilesDiffer DEF HasItsFiles, MakesPublic
      <4> QED BY <4>2, <4>3
    <3>8. CASE CompletesPublic(p)
      <4>1. secret = Whole(p) /\ public = Part(p)
        BY <2>2, <3>8 DEF HasItsFiles, CompletesPublic
      <4>2. CASE q = p
        BY <2>3, <3>2, <3>8, <4>1, <4>2, FilesDiffer DEF HasItsFiles, CompletesPublic
      <4>3. CASE q # p
        BY <2>3, <3>1, <3>2, <3>8, <4>1, <4>3, FilesDiffer DEF HasItsFiles, CompletesPublic
      <4> QED BY <4>2, <4>3
    <3> QED BY <2>1, <3>3, <3>4, <3>5, <3>6, <3>7, <3>8
  <2> QED BY <2>1, <2>3 DEF ToolInv
<1> QED BY <1>1, <1>2 DEF Next, vars

-------------------------------------------------------------------------------
(* Every invocation keeps the files it has made.                              *)
THEOREM ToolInvariant == Spec => []ToolInv
<1> QED BY InitToolInv, NextToolInv, PTL DEF Spec

(* A public key file an invocation made has its whole secret key file next to *)
(* it, whatever the others do and whenever one is killed.                     *)
THEOREM PublicNeverAlone == Spec => []PublicHasSecret
<1>1. ToolInv => PublicHasSecret BY DEF ToolInv, HasItsFiles, PublicHasSecret
<1> QED BY <1>1, ToolInvariant, PTL

(* An invocation that reports success has left a whole pair.                  *)
THEOREM SuccessLeavesPair == Spec => []SuccessMeansPair
<1>1. ToolInv => SuccessMeansPair BY DEF ToolInv, HasItsFiles, SuccessMeansPair
<1> QED BY <1>1, ToolInvariant, PTL

(* No step of any invocation takes a file from its maker, or makes a whole    *)
(* one partial.                                                               *)
THEOREM NeverOverwrites == Spec => NothingOverwritten
<1> DEFINE Kept ==
      /\ Exists(public) => public'.by = public.by /\ (public.whole => public'.whole)
      /\ Exists(secret) => secret'.by = secret.by /\ (secret.whole => secret'.whole)
<1>1. ToolInv /\ [Next]_vars => [Kept]_vars
  <2> SUFFICES ASSUME ToolInv, NEW p \in Invocation, Step(p) \/ Kill(p) PROVE Kept
    BY DEF Next
  <2>1. HasItsFiles(p) BY DEF ToolInv
  <2>2. \/ UNCHANGED <<public, secret, pc>>
        \/ Quiet(p) \/ MakesSecret(p) \/ CompletesSecret(p)
        \/ MakesPublic(p) \/ CompletesPublic(p)
    BY StepKinds
  <2>3. CASE UNCHANGED <<public, secret>> BY <2>3
  <2>4. CASE MakesSecret(p) BY <2>4 DEF MakesSecret
  <2>5. CASE CompletesSecret(p)
    <3>1. secret = Part(p) BY <2>1, <2>5 DEF HasItsFiles, CompletesSecret
    <3> QED BY <2>5, <3>1, FilesDiffer DEF CompletesSecret
  <2>6. CASE MakesPublic(p) BY <2>6 DEF MakesPublic
  <2>7. CASE CompletesPublic(p)
    <3>1. public = Part(p) BY <2>1, <2>7 DEF HasItsFiles, CompletesPublic
    <3> QED BY <2>7, <3>1, FilesDiffer DEF CompletesPublic
  <2> QED BY <2>2, <2>3, <2>4, <2>5, <2>6, <2>7 DEF Quiet
<1> QED BY <1>1, ToolInvariant, PTL DEF Spec, NothingOverwritten
===============================================================================

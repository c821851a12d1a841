------------------------------ MODULE KeygenTool ------------------------------
(* The keygen_lifetime32 program: invocations that share an output prefix,    *)
(* each of which reads its arguments, generates keys and writes the last one  *)
(* to a public and a secret file. Every call of the file system is a step of  *)
(* its own; an invocation may be killed between two of them.                  *)
EXTENDS ActivationInterval

CONSTANTS
  Invocation,   \* the invocations
  Epochs,       \* values for --epochs, after parse_count
  Runs,         \* values for --runs, after parse_count
  Stranger      \* whoever made a file that was there before

ASSUME ArgumentsAssumption == Epochs \subseteq Nat \ {0} /\ Runs \subseteq Nat \ {0}
ASSUME StrangerAssumption == Stranger \notin Invocation

VARIABLES
  args,      \* the command line of each invocation
  pc,        \* what each does next
  keygens,   \* how many keys each has generated
  active,    \* the active epochs of the last of them
  public,    \* the public key file
  secret     \* the secret key file

vars == <<args, pc, keygens, active, public, secret>>

CommandLine == [epochs: Epochs, runs: Runs, prefix: BOOLEAN, allow: BOOLEAN]

(* A file is absent, or holds all or only a part of somebody's key.           *)
Absent == [by |-> {}, whole |-> FALSE]
Part(p) == [by |-> {p}, whole |-> FALSE]
Whole(p) == [by |-> {p}, whole |-> TRUE]

Exists(file) == file.by # {}

Init ==
  /\ args \in [Invocation -> CommandLine]
  /\ pc = [p \in Invocation |-> "ParseArgs"]
  /\ keygens = [p \in Invocation |-> 0]
  /\ active = [p \in Invocation |-> 0]
  /\ public \in {Absent, Whole(Stranger)}
  /\ secret \in {Absent, Whole(Stranger)}

Goto(p, here, next) == pc[p] = here /\ pc' = [pc EXCEPT ![p] = next]

-------------------------------------------------------------------------------
(* What parse_args lets through.                                              *)
Accepted(a) ==
  /\ a.epochs <= Lifetime
  /\ a.prefix => a.runs = 1
  /\ a.epochs = Lifetime => a.allow

ParseArgs(p) ==
  /\ Goto(p, "ParseArgs", IF Accepted(args[p]) THEN "KeyGen" ELSE "Failed")
  /\ UNCHANGED <<args, keygens, active, public, secret>>

(* key_gen(rng, 0, epochs): only the last key pair is kept.                   *)
GenerateKey(p) ==
  LET i == Expand(0, args[p].epochs)
  IN  /\ pc[p] = "KeyGen"
      /\ keygens[p] < args[p].runs
      /\ keygens' = [keygens EXCEPT ![p] = @ + 1]
      /\ active' = [active EXCEPT ![p] = (i.after - i.first) * C]
      /\ UNCHANGED <<args, pc, public, secret>>

Serialize(p) ==
  /\ keygens[p] = args[p].runs
  /\ Goto(p, "KeyGen", IF args[p].prefix THEN "MakeDirectory" ELSE "Succeeded")
  /\ UNCHANGED <<args, keygens, active, public, secret>>

-------------------------------------------------------------------------------
(* write_key: the two files are looked for, then made one after the other.    *)
(* Any call may fail, and a failed call ends the invocation.                  *)
MakeDirectory(p) ==
  /\ \E next \in {"CheckPublic", "Failed"} : Goto(p, "MakeDirectory", next)
  /\ UNCHANGED <<args, keygens, active, public, secret>>

Check(p, file, here, next) ==
  /\ Goto(p, here, IF Exists(file) THEN "Failed" ELSE next)
  /\ UNCHANGED <<args, keygens, active, public, secret>>

CheckPublic(p) == Check(p, public, "CheckPublic", "CheckSecret")
CheckSecret(p) == Check(p, secret, "CheckSecret", "OpenSecret")

(* Faulty: truncate(true) for create_new(true).                               *)
CreateOrTruncate(p, file, new) == new = Part(p)

(* create_new(true): nothing but a failure comes of it if the file exists.    *)
CreateNew(p, file, new) == ~Exists(file) /\ new = Part(p)

OpenSecret(p) ==
  /\ \/ Goto(p, "OpenSecret", "WriteSecret") /\ CreateNew(p, secret, secret')
     \/ Goto(p, "OpenSecret", "Failed") /\ UNCHANGED secret
  /\ UNCHANGED <<args, keygens, active, public>>

(* Faulty: a failed write_all is not noticed.                                 *)
WriteSecretUnchecked(p) ==
  /\ Goto(p, "WriteSecret", "OpenPublic")
  /\ secret' \in {Part(p), Whole(p)}
  /\ UNCHANGED <<args, keygens, active, public>>

(* write_all may fail after any part of the bytes.                            *)
WriteSecret(p) ==
  /\ \/ Goto(p, "WriteSecret", "OpenPublic") /\ secret' = Whole(p)
     \/ Goto(p, "WriteSecret", "Failed") /\ UNCHANGED secret
  /\ UNCHANGED <<args, keygens, active, public>>

OpenPublic(p) ==
  /\ \/ Goto(p, "OpenPublic", "WritePublic") /\ CreateNew(p, public, public')
     \/ Goto(p, "OpenPublic", "Failed") /\ UNCHANGED public
  /\ UNCHANGED <<args, keygens, active, secret>>

(* Faulty: the result of the last write is dropped.                           *)
WritePublicUnchecked(p) ==
  /\ Goto(p, "WritePublic", "Succeeded")
  /\ public' \in {Part(p), Whole(p)}
  /\ UNCHANGED <<args, keygens, active, secret>>

WritePublic(p) ==
  /\ \/ Goto(p, "WritePublic", "Succeeded") /\ public' = Whole(p)
     \/ Goto(p, "WritePublic", "Failed") /\ UNCHANGED public
  /\ UNCHANGED <<args, keygens, active, secret>>

-------------------------------------------------------------------------------
Stopped(p) == pc[p] \in {"Succeeded", "Failed", "Killed"}

Kill(p) ==
  /\ ~Stopped(p)
  /\ pc' = [pc EXCEPT ![p] = "Killed"]
  /\ UNCHANGED <<args, keygens, active, public, secret>>

Step(p) ==
  \/ ParseArgs(p)
  \/ GenerateKey(p)
  \/ Serialize(p)
  \/ MakeDirectory(p)
  \/ CheckPublic(p)
  \/ CheckSecret(p)
  \/ OpenSecret(p)
  \/ WriteSecret(p)
  \/ OpenPublic(p)
  \/ WritePublic(p)

Next == \E p \in Invocation : Step(p) \/ Kill(p)

Spec == Init /\ [][Next]_vars

-------------------------------------------------------------------------------
(* "existing files are not overwritten": whatever two invocations and their   *)
(* checks do at the same time, a file stays its maker's, and a whole one      *)
(* stays as it is.                                                            *)
NothingOverwritten ==
  [][/\ Exists(public) => public'.by = public.by /\ (public.whole => public'.whole)
     /\ Exists(secret) => secret'.by = secret.by /\ (secret.whole => secret'.whole)]_vars

(* A public key file an invocation made never stands alone: the secret key it *)
(* belongs to was written to the end before, so nobody publishes a key that   *)
(* cannot sign.                                                               *)
PublicHasSecret ==
  \A p \in Invocation : public.by = {p} => secret = Whole(p)

(* An invocation that reports success has left a whole pair of files, both    *)
(* from its own key.                                                          *)
SuccessMeansPair ==
  \A p \in Invocation :
    pc[p] = "Succeeded" /\ args[p].prefix =>
      public = Whole(p) /\ secret = Whole(p)

(* A key for the whole lifetime is only generated with --allow-full-lifetime. *)
FullLifetimeConfirmed ==
  \A p \in Invocation : active[p] = Lifetime => args[p].allow

(* The files an invocation has made, where it stands in write_key, are there. *)
HasItsFiles(p) ==
  /\ pc[p] = "WriteSecret" => secret = Part(p)
  /\ pc[p] \in {"OpenPublic", "WritePublic"} => secret = Whole(p)
  /\ pc[p] = "WritePublic" => public = Part(p)
  /\ pc[p] = "Succeeded" /\ args[p].prefix => public = Whole(p) /\ secret = Whole(p)
  /\ public.by = {p} => secret = Whole(p)

Places ==
  {"ParseArgs", "KeyGen", "MakeDirectory", "CheckPublic", "CheckSecret", "OpenSecret",
   "WriteSecret", "OpenPublic", "WritePublic", "Succeeded", "Failed", "Killed"}

(* What every step of any invocation keeps.                                   *)
ToolInv ==
  /\ pc \in [Invocation -> Places]
  /\ \A p \in Invocation : HasItsFiles(p)
===============================================================================

------------------------------ MODULE KeyCustody ------------------------------
(* A key whose owner keeps it in a file, as the documentation of sign asks:   *)
(* the updated key is persisted before a signature is released. The owner is  *)
(* a program outside the repository; it is modelled from what sign asks of    *)
(* it. Its process may crash at any moment and loses what is in memory; a     *)
(* write of the file is taken to be atomic. The owner may also restore an     *)
(* older copy of the file, against the advice of that documentation.          *)
EXTENDS XmssKey

VARIABLES
  disk,      \* the key in the file
  pending,   \* the signature sign returned and the owner has not released
  released,  \* the signatures anybody else has seen
  line,      \* those of them released by states the present key descends from
  backup,    \* an older copy of the file, and line as it was then
  restored   \* whether a copy has ever been restored

custodyVars == <<vars, disk, pending, released, line, backup, restored>>

CustodyInit ==
  /\ Init
  /\ disk = sk
  /\ pending = {}
  /\ released = {}
  /\ line = {}
  /\ backup = [key |-> sk, line |-> {}]
  /\ restored = FALSE

-------------------------------------------------------------------------------
(* The owner asks for one signature at a time.                                *)
CallSign ==
  /\ pending = {}
  /\ \E e \in SignEpoch, m \in Message :
       /\ Sign(e, m)
       /\ pending' = IF reply'.outcome = "Ok" THEN {Signature(e, m, BottomTree(sk, e))} ELSE {}
  /\ UNCHANGED <<disk, released, line, backup, restored>>

CallAdvance ==
  /\ AdvancePreparation
  /\ UNCHANGED <<disk, pending, released, line, backup, restored>>

(* to_bytes, and the bytes written over the file.                             *)
Persist ==
  /\ disk # sk
  /\ disk' = sk
  /\ UNCHANGED <<vars, pending, released, line, backup, restored>>

(* Faulty: the signature is given away when sign returns it.                  *)
ReleaseAtOnce ==
  /\ pending # {}
  /\ released' = released \cup pending
  /\ line' = line \cup pending
  /\ pending' = {}
  /\ UNCHANGED <<vars, disk, backup, restored>>

Release ==
  /\ pending # {}
  /\ disk = sk
  /\ released' = released \cup pending
  /\ line' = line \cup pending
  /\ pending' = {}
  /\ UNCHANGED <<vars, disk, backup, restored>>

(* The process dies; a new one reads the file, if from_bytes takes it.        *)
CrashAndLoad ==
  /\ sk' = disk
  /\ reply' = Answer(IF Decodable(disk) THEN "Loaded" ELSE "BytesInvalid", 0)
  /\ pending' = {}
  /\ UNCHANGED <<issued, disk, released, line, backup, restored>>

TakeBackup ==
  /\ backup' = [key |-> disk, line |-> line]
  /\ UNCHANGED <<vars, disk, pending, released, line, restored>>

RestoreBackup ==
  /\ sk' = backup.key
  /\ disk' = backup.key
  /\ line' = backup.line
  /\ reply' = Answer("Loaded", 0)
  /\ pending' = {}
  /\ restored' = TRUE
  /\ UNCHANGED <<issued, released, backup>>

CustodyNext ==
  \/ CallSign
  \/ CallAdvance
  \/ Persist
  \/ Release
  \/ CrashAndLoad
  \/ TakeBackup
  \/ RestoreBackup

CustodySpec == CustodyInit /\ [][CustodyNext]_custodyVars

-------------------------------------------------------------------------------
(* Nobody else ever sees two signatures for one epoch, whatever the moment    *)
(* the process crashes at, unless an older copy of the key is restored.       *)
OneReleasedPerEpoch ==
  ~restored => \A s, t \in released : s.epoch = t.epoch => s = t

(* The file remembers every epoch its line released that its window still     *)
(* holds, so what a crash loses is never an epoch somebody has seen a         *)
(* signature for.                                                             *)
ReleasedOnDisk ==
  {s.epoch : s \in line} \cap PreparedInterval(disk) \subseteq UsedEpochs(disk)

(* The file is always one from_bytes takes: a crash never loses the key.      *)
DiskLoads == reply.outcome # "BytesInvalid" /\ Decodable(disk)

(* Restoring an older key bypasses the protection only for epochs released    *)
(* after the copy was taken: those released before it are still refused.      *)
OneReleasedPerLine ==
  \A s, t \in line : s.epoch = t.epoch => s = t

(* The signatures sigs are safe with key k: they are for different epochs,    *)
(* the key remembers those of its window, none lies ahead of it, and the key  *)
(* is one that its decoder takes.                                             *)
Keeps(k, sigs) ==
  /\ k \in SecretKeys /\ KeyShape(k)
  /\ StrictlyAscending(k.used_epochs) /\ UsedEpochs(k) \subseteq PreparedInterval(k)
  /\ sigs \subseteq [epoch: SignEpoch, message: Message, tree: Nat]
  /\ {s.epoch : s \in sigs} \cap PreparedInterval(k) \subseteq UsedEpochs(k)
  /\ \A s \in sigs : s.epoch < PreparedEnd(k)
  /\ \A s, t \in sigs : s.epoch = t.epoch => s = t

(* What every step of the owner keeps. The key in memory accounts for what it *)
(* signed and the file for what has been released, so that a crash, which     *)
(* puts the file in the place of the memory, forgets no released signature.   *)
CustodyInv ==
  /\ Keeps(sk, line \cup pending)
  /\ Keeps(disk, line)
  /\ Keeps(backup.key, backup.line)
  /\ reply.outcome # "BytesInvalid"
  /\ ~restored => released = line
===============================================================================

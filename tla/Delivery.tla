------------------------------ MODULE Delivery ------------------------------
(***************************************************************************)
(* Delivering a representation package to a board (visual/                 *)
(* delivery_runtime.py over native_runtime.py).  A delivery locks its      *)
(* output directory with delivery.lock, which it removes in the end,       *)
(* freezes the package's native bundle there, has it executed under the    *)
(* native board and receipt locks, and publishes delivery-receipt.json,    *)
(* which binds the execution's receipt.  A delivery that was interrupted   *)
(* can be resumed in the same directory.                                   *)
(*                                                                         *)
(* What is abstracted.  All deliveries are of one package to one board and *)
(* one directory.  Of the executor only what a delivery relies on is kept: *)
(* operations are executed in order, the receipt records each, and a run   *)
(* may fail after any of them (NativeExecutor is about the rest).  An open *)
(* lock file is known by its inode.                                        *)
(***************************************************************************)
EXTENDS Naturals, FiniteSets

CONSTANTS
  Fresh,       \* deliveries started without --resume
  Resumed,     \* deliveries started with it
  Operations,  \* number of operations in the bundle
  Inodes       \* bound: lock files ever created

ASSUME DeliveryAssumption ==
  /\ Fresh \cap Resumed = {}
  /\ Operations \in Nat \ {0} /\ Inodes \in Nat \ {0}

Deliveries == Fresh \cup Resumed

VARIABLES
  delivery,    \* the deliveries
  bundleFile,  \* native-bundle.json: none, part or whole
  native,      \* native-execution.json
  receiptFile, \* delivery-receipt.json
  lockFile,    \* the inode of delivery.lock, 0 for none
  inodes,      \* inodes used so far
  owner,       \* the delivery that has locked each inode, if any
  executing,   \* the delivery that holds the native locks, if any
  executed     \* history: how often each operation has been executed

deliveryVars == <<delivery, bundleFile, native, receiptFile, lockFile, inodes, owner, executing,
                  executed>>
locks == <<lockFile, inodes, owner, executing>>
outputs == <<bundleFile, native, receiptFile, executed>>

NoNative == [state |-> "none", done |-> 0, by |-> {}]

DeliveryInit ==
  /\ delivery = [d \in Deliveries |-> [step |-> "prepare", inode |-> 0, result |-> NoNative]]
  /\ bundleFile = "none"
  /\ native = NoNative
  /\ receiptFile = [state |-> "none", binds |-> NoNative]
  /\ lockFile = 0
  /\ inodes = 0
  /\ owner = [i \in 1..Inodes |-> {}]
  /\ executing = {}
  /\ executed = [o \in 1..Operations |-> 0]

-----------------------------------------------------------------------------

InStep(d, step) == delivery[d].step = step
Move(d, step) == delivery' = [delivery EXCEPT ![d].step = step]

Named ==
  (IF bundleFile = "none" THEN {} ELSE {"bundle"})
    \cup (IF native.state = "none" THEN {} ELSE {"native"})
    \cup (IF receiptFile.state = "none" THEN {} ELSE {"receipt"})
    \cup (IF lockFile = 0 THEN {} ELSE {"lock"})

\* The directory is empty, or it holds exactly what a resumption needs.
PrepareOutputDir(d) ==
  /\ InStep(d, "prepare")
  /\ LET allowed == IF d \in Resumed
                    THEN Named \ {"lock"} = {"bundle", "native"}
                    ELSE Named = {}
     IN  Move(d, IF allowed THEN "open" ELSE "over")
  /\ UNCHANGED <<locks, outputs>>

\* delivery.lock is opened, and created if it is not there.
OpenLock(d) ==
  /\ InStep(d, "open")
  /\ IF lockFile # 0
     THEN /\ delivery' = [delivery EXCEPT ![d].step = "flock", ![d].inode = lockFile]
          /\ UNCHANGED <<lockFile, inodes>>
     ELSE /\ inodes < Inodes
          /\ inodes' = inodes + 1
          /\ lockFile' = inodes + 1
          /\ delivery' = [delivery EXCEPT ![d].step = "flock", ![d].inode = inodes + 1]
  /\ UNCHANGED <<owner, executing, outputs>>

Flock(d) ==
  LET inode == delivery[d].inode
  IN  /\ InStep(d, "flock")
      /\ IF owner[inode] = {}
         THEN owner' = [owner EXCEPT ![inode] = {d}] /\ Move(d, "freeze")
         ELSE Move(d, "over") /\ UNCHANGED owner
      /\ UNCHANGED <<lockFile, inodes, executing, outputs>>

\* A fresh delivery creates the bundle file, a resumed one reads it back.
FreezeBundle(d) ==
  /\ \/ /\ InStep(d, "freeze") /\ d \in Fresh
        /\ IF bundleFile = "none"
           THEN bundleFile' = "part" /\ Move(d, "frozen")
           ELSE Move(d, "unlock") /\ UNCHANGED bundleFile
     \/ /\ InStep(d, "frozen")
        /\ bundleFile' = "whole" /\ Move(d, "apply")
     \/ /\ InStep(d, "freeze") /\ d \in Resumed
        /\ Move(d, IF bundleFile = "whole" THEN "apply" ELSE "unlock")
        /\ UNCHANGED bundleFile
  /\ UNCHANGED <<locks, native, receiptFile, executed>>

\* Mutant: the delivery lock is thought to be enough.
ApplyUnlocked(d) ==
  /\ InStep(d, "apply")
  /\ IF d \in Resumed /\ native.state \notin {"in_progress", "failed"}
     THEN Move(d, "unlock") /\ UNCHANGED native
     ELSE /\ native' = [state |-> "in_progress", by |-> {d},
                        done |-> IF d \in Resumed THEN native.done ELSE 0]
          /\ delivery' = [delivery EXCEPT ![d].step = "execute", ![d].result = native']
  /\ executing' = executing
  /\ UNCHANGED <<lockFile, inodes, owner, bundleFile, receiptFile, executed>>

\* native_apply: under the native locks, which are not waited for, the receipt to
\* resume from is loaded; one that is complete is refused.
NativeApply(d) ==
  /\ InStep(d, "apply")
  /\ IF \/ executing # {}
        \/ d \in Resumed /\ native.state \notin {"in_progress", "failed"}
     THEN Move(d, "unlock") /\ UNCHANGED <<native, executing>>
     ELSE /\ executing' = {d}
          /\ native' = [state |-> "in_progress", by |-> {d},
                        done |-> IF d \in Resumed THEN native.done ELSE 0]
          /\ delivery' = [delivery EXCEPT ![d].step = "execute", ![d].result = native']
  /\ UNCHANGED <<lockFile, inodes, owner, bundleFile, receiptFile, executed>>

\* The executor holds its receipt in memory and writes all of it at each checkpoint.
Checkpoint(d, receipt) ==
  /\ native' = receipt
  /\ delivery' = [delivery EXCEPT ![d].result = receipt]

ExecuteOperation(d) ==
  LET next == delivery[d].result.done + 1
  IN  /\ InStep(d, "execute")
      /\ next <= Operations
      /\ executed' = [executed EXCEPT ![next] = @ + 1]
      /\ Checkpoint(d, [delivery[d].result EXCEPT !.done = next])
      /\ UNCHANGED <<locks, bundleFile, receiptFile>>

\* The run ends, with an error or complete, and gives the native locks back.
EndApply(d) ==
  /\ InStep(d, "execute")
  /\ \E state \in {"failed"} \cup
       (IF delivery[d].result.done = Operations THEN {"complete"} ELSE {}) :
       /\ native' = [delivery[d].result EXCEPT !.state = state]
       /\ delivery' = [delivery EXCEPT ![d].result.state = state,
                                       ![d].step = IF state = "failed" THEN "unlock" ELSE "readback"]
  /\ executing' = executing \ {d}
  /\ UNCHANGED <<lockFile, inodes, owner, bundleFile, receiptFile, executed>>

\* The receipt on disk must be the one the run returned.
ReadNative(d) ==
  /\ InStep(d, "readback")
  /\ Move(d, IF native = delivery[d].result THEN "publish" ELSE "unlock")
  /\ UNCHANGED <<locks, outputs>>

\* The delivery receipt is created and written; there can only be one.
PublishDelivery(d) ==
  /\ \/ /\ InStep(d, "publish")
        /\ IF receiptFile.state = "none"
           THEN /\ receiptFile' = [state |-> "part", binds |-> delivery[d].result]
                /\ Move(d, "published")
           ELSE Move(d, "unlock") /\ UNCHANGED receiptFile
     \/ /\ InStep(d, "published")
        /\ receiptFile' = [receiptFile EXCEPT !.state = "whole"]
        /\ Move(d, "unlock")
  /\ UNCHANGED <<locks, bundleFile, native, executed>>

\* The lock is given up first and the file removed afterwards, if it is still the
\* one that was locked.
Unlock(d) ==
  /\ InStep(d, "unlock")
  /\ owner' = [owner EXCEPT ![delivery[d].inode] = @ \ {d}]
  /\ Move(d, "unlink")
  /\ UNCHANGED <<lockFile, inodes, executing, outputs>>

Unlink(d) ==
  /\ InStep(d, "unlink")
  /\ lockFile' = IF lockFile = delivery[d].inode THEN 0 ELSE lockFile
  /\ Move(d, "over")
  /\ UNCHANGED <<inodes, owner, executing, outputs>>

KillDelivery(d) ==
  /\ delivery[d].step \notin {"prepare", "over"}
  /\ Move(d, "over")
  /\ owner' = [i \in 1..Inodes |-> owner[i] \ {d}]
  /\ executing' = executing \ {d}
  /\ UNCHANGED <<lockFile, inodes, outputs>>

DeliveryNext ==
  \E d \in Deliveries :
    \/ PrepareOutputDir(d) \/ OpenLock(d) \/ Flock(d) \/ FreezeBundle(d) \/ NativeApply(d)
    \/ ExecuteOperation(d) \/ EndApply(d) \/ ReadNative(d) \/ PublishDelivery(d)
    \/ Unlock(d) \/ Unlink(d) \/ KillDelivery(d)

DeliverySpec == DeliveryInit /\ [][DeliveryNext]_deliveryVars

-----------------------------------------------------------------------------

\* Although delivery.lock can have two owners (one that locked the file that is then
\* removed, and one that locked the next file), no operation of the bundle is
\* executed twice, and the receipt a delivery publishes binds an execution that is
\* complete, still stands as it was bound, and has executed every operation.
DeliveredOnce ==
  /\ \A o \in 1..Operations : executed[o] <= 1
  /\ receiptFile.state # "none" =>
       /\ native = receiptFile.binds
       /\ native.state = "complete"
       /\ \A o \in 1..Operations : executed[o] = 1
=============================================================================

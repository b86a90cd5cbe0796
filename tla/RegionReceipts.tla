--------------------------- MODULE RegionReceipts ---------------------------
(***************************************************************************)
(* The receipts about a managed region of a board: from its declaration to *)
(* a closeout, or to the gate before live operations                       *)
(* (src/schauwerk/operator/regions.py, receipts.py, sw003_closeout.py and  *)
(* the region commands of cli_handlers.py).                                *)
(*                                                                         *)
(* Every command reads receipts from files, decides whether the next one   *)
(* is ready, and writes it.  A command looks only at what it is given: it  *)
(* trusts what an earlier receipt says of itself and checks again only     *)
(* part of it.  Operators choose the files, so that a command may be given *)
(* the snapshots and the evidence of another run.                          *)
(*                                                                         *)
(* Simplifications:                                                        *)
(* - receipts are written by these commands, not by hand, and are not      *)
(*   changed: the digest of a receipt is the receipt;                      *)
(* - reasons, descriptions and the fields that are the same in every       *)
(*   receipt of a kind (mutation_attempted, boundaries but for             *)
(*   simulation_only, required steps) are left out;                        *)
(* - the operation is kept only as far as the gate, the last to read it;   *)
(* - each command takes one receipt, the one held, and files of evidence;  *)
(*   receipts stay as they are, so that one line of receipts is followed   *)
(*   at a time, and the gate takes any packet that can be written.         *)
(***************************************************************************)
EXTENDS Naturals, Sequences, FiniteSets

CONSTANTS
  Declarations,    \* declared regions: view, region, mode, alias, expected
  Shots,           \* snapshots: alias, digest, count, repeatable, sanitized
  Allowlists,      \* the aliases that may be allowlisted at a preflight
  OperationLists,  \* files of fixture operations: id and region of each
  ProofFiles,      \* files of evidence for a closeout of SW-003
  Claims,          \* files of evidence for the live gate of SW-003
  FullDigests,     \* the digests with the 64 digits of SHA-256
  NoReceiptHeld

ASSUME ReceiptAssumption ==
  \A s \in Shots :
    /\ s = [alias |-> s.alias, digest |-> s.digest, count |-> s.count,
            repeatable |-> s.repeatable, sanitized |-> s.sanitized]
    /\ s.repeatable \in BOOLEAN /\ s.sanitized \in BOOLEAN

VARIABLES
  held,   \* the receipt that was written last
  origin  \* the preflight it goes back to (history)

receiptVars == <<held, origin>>

RegionOperations == {"render-update", "replace-region"}

ReceiptsInit == held = NoReceiptHeld /\ origin = NoReceiptHeld

Holding(kind) == held # NoReceiptHeld /\ held.kind = kind

Write(r) == held' = r /\ UNCHANGED origin

Sound(shot) == shot.repeatable /\ shot.sanitized

(* The snapshot is the one that the declaration expects.                   *)
AsDeclared(declaration, shot) == shot.digest = declaration.expected

(***************************************************************************)
(* Preflight and scaffold.                                                 *)
(***************************************************************************)

(* Seeded fault: the snapshot may be of another board.                     *)
PreflightAnyBoard(declaration, shot, listed, operation) ==
  [kind |-> "preflight", operation |-> operation, region |-> declaration,
   snapshot |-> shot, listed |-> listed,
   ok |-> /\ declaration.mode = "managed"
          /\ listed
          /\ AsDeclared(declaration, shot)
          /\ Sound(shot)]

Preflight(declaration, shot, listed, operation) ==
  [kind |-> "preflight", operation |-> operation, region |-> declaration,
   snapshot |-> shot, listed |-> listed,
   ok |-> /\ declaration.mode = "managed"
          /\ listed
          /\ AsDeclared(declaration, shot)
          /\ shot.alias = declaration.alias
          /\ Sound(shot)]

RunPreflight ==
  \E declaration \in Declarations, shot \in Shots, aliases \in Allowlists,
     operation \in RegionOperations :
    /\ held = NoReceiptHeld
    /\ held' = Preflight(declaration, shot, declaration.alias \in aliases, operation)
    /\ origin' = [region |-> declaration, snapshot |-> shot,
                  listed |-> declaration.alias \in aliases]

Scaffold(p) ==
  [kind |-> "scaffold", operation |-> p.operation, region |-> p.region,
   snapshot |-> p.snapshot, ok |-> p.ok]

RunScaffold == Holding("preflight") /\ Write(Scaffold(held))

(* What is asked again of a scaffold: not the allowlist, the alias of the  *)
(* snapshot or its soundness.                                              *)
ScaffoldUsable(s) ==
  s.ok /\ s.region.mode = "managed" /\ AsDeclared(s.region, s.snapshot)

(***************************************************************************)
(* Declared operations, and the evidence that they were simulated.         *)
(***************************************************************************)

(* Other operations are refused with an error.                             *)
OperationsFor(declaration, operations) ==
  /\ operations # <<>>
  /\ \A i \in DOMAIN operations : operations[i].region = declaration.region
  /\ \A i, j \in DOMAIN operations :
       operations[i].id = operations[j].id => i = j

(* An apply receipt or an operation contract.                              *)
DeclaredReceipt(kind, s, operations) ==
  [kind |-> kind, region |-> s.region, snapshot |-> s.snapshot,
   operations |-> operations, ok |-> ScaffoldUsable(s)]

RunApplyReceipt ==
  /\ Holding("scaffold")
  /\ \E operations \in OperationLists :
       /\ OperationsFor(held.region, operations)
       /\ Write(DeclaredReceipt("apply", held, operations))

RunContract ==
  /\ Holding("scaffold")
  /\ \E operations \in OperationLists :
       /\ OperationsFor(held.region, operations)
       /\ Write(DeclaredReceipt("contract", held, operations))

IdempotencyKey(d) == <<d.region.view, d.region.region, d.operations>>

(* Files of snapshots that were taken after operations: those declared by  *)
(* d, or by a receipt that differs from it in one respect.                 *)
AfterFiles(d) ==
  LET declared == {[d EXCEPT !.operations = o] : o \in OperationLists} \cup
                  {[d EXCEPT !.region = r] : r \in Declarations} \cup
                  {[d EXCEPT !.snapshot = s] : s \in Shots}
  IN  [shot : Shots, of : declared, verified : BOOLEAN]

(* The after snapshot is of the region's board, and of these operations.   *)
AfterObserved(d, after) ==
  /\ after.shot.alias = d.region.alias
  /\ Sound(after.shot)
  /\ after.of.operations = d.operations
  /\ IdempotencyKey(after.of) = IdempotencyKey(d)
  /\ after.verified

(* A simulation binds the contract as well.                                *)
Simulation(c, after) ==
  [kind |-> "simulation", region |-> c.region, before |-> c.snapshot,
   after |-> after, contract |-> c,
   ok |-> /\ c.ok
          /\ AsDeclared(c.region, c.snapshot)
          /\ AfterObserved(c, after)
          /\ after.of = c]

RunSimulation ==
  /\ Holding("contract")
  /\ \E after \in AfterFiles(held) : Write(Simulation(held, after))

(***************************************************************************)
(* Postflight and restore.                                                 *)
(***************************************************************************)

Postflight(r, after) ==
  [kind |-> "postflight", region |-> r.region, before |-> r.snapshot,
   after |-> after, simulated |-> FALSE, source |-> r,
   ok |-> r.ok /\ AfterObserved(r, after)]

RunPostflight ==
  /\ Holding("apply")
  /\ \E after \in AfterFiles(held) : Write(Postflight(held, after))

SimulationPostflight(r) ==
  [kind |-> "postflight", region |-> r.region, before |-> r.before,
   after |-> r.after, simulated |-> TRUE, source |-> r,
   ok |-> r.ok /\ r.after.verified]

RunSimulationPostflight ==
  Holding("simulation") /\ Write(SimulationPostflight(held))

(* The number of items is not compared; nor is the alias of the region.    *)
Restored(p, shot) ==
  [kind |-> "restore", region |-> p.region, before |-> p.before,
   restored |-> shot, simulated |-> p.simulated, postflight |-> p,
   simulation |-> IF p.simulated THEN p.source ELSE NoReceiptHeld,
   ok |-> /\ p.ok
          /\ shot.digest = p.before.digest
          /\ shot.alias = p.before.alias
          /\ Sound(shot)]

RunRestore ==
  /\ Holding("postflight")
  /\ \E shot \in Shots : Write(Restored(held, shot))

(***************************************************************************)
(* Closeouts.                                                              *)
(***************************************************************************)

SimulationCloseout(r) ==
  [kind |-> "simulation closeout", region |-> r.region, restore |-> r,
   simulation |-> r.simulation,
   ok |-> /\ r.ok
          /\ r.simulated
          /\ r.simulation # NoReceiptHeld
          /\ r.restored.alias = r.before.alias
          /\ r.restored.digest = r.before.digest
          /\ r.before.digest \in FullDigests
          /\ r.restored.count = r.before.count
          /\ Sound(r.restored)]

RunSimulationCloseout ==
  Holding("restore") /\ Write(SimulationCloseout(held))

(* The evidence is about this restore and this region, it has every        *)
(* verification, and it makes no claim about the live gate.                *)
ProofComplete(r, e) ==
  /\ e.own
  /\ e.region = r.region.region
  /\ e.alias = r.region.alias
  /\ e.marked
  /\ e.verified
  /\ e.mode \in {"restored-snapshot", "explicit-boundary"}
  /\ e.done
  /\ e.cleaned
  /\ ~e.claim

ProofCloseout(r, e) ==
  LET ready == r.ok /\ ProofComplete(r, e)
  IN  [kind |-> "proof closeout", region |-> r.region, restore |-> r,
       ok |-> ready,
       complete |-> e.mode = "restored-snapshot" /\ e.done,
       boundary |-> e.mode = "explicit-boundary" /\ ready]

RunProofCloseout ==
  /\ Holding("restore")
  /\ \E e \in ProofFiles : Write(ProofCloseout(held, e))

(***************************************************************************)
(* The evidence for the live gate.                                         *)
(***************************************************************************)

(* Seeded fault: a cleanup need not have been tried.                       *)
ClaimValidUntried(c) ==
  /\ c.requested
  /\ c.verified
  /\ c.listed
  /\ c.boundary \in {"none", "accepted"}
  /\ c.cleaned \/ c.boundary # "none"

ClaimValid(c) ==
  /\ c.requested
  /\ c.verified
  /\ c.listed
  /\ c.boundary \in {"none", "accepted"}
  /\ c.cleaned => c.attempted
  /\ c.cleaned \/ c.boundary # "none"

(* A program of an earlier release has evaluated claims against other      *)
(* requirements.                                                           *)
Evaluation(c, current) ==
  [kind |-> "evaluation", claim |-> c, current |-> current, valid |-> ClaimValid(c)]

Status(e) ==
  [kind |-> "status", evaluation |-> e, ok |-> e.current /\ e.valid]

ReviewPacket(s) == [kind |-> "review", status |-> s, ok |-> s.ok]

EvidencePacket(r) == [kind |-> "packet", review |-> r, ok |-> r.ok]

RunEvaluation ==
  /\ held = NoReceiptHeld
  /\ \E c \in Claims, current \in BOOLEAN : Write(Evaluation(c, current))

RunStatus == Holding("evaluation") /\ Write(Status(held))

RunReviewPacket == Holding("status") /\ Write(ReviewPacket(held))

RunEvidencePacket == Holding("review") /\ Write(EvidencePacket(held))

(* The packets that these commands write.                                  *)
Packets ==
  {EvidencePacket(ReviewPacket(Status(Evaluation(c, current)))) :
     c \in Claims, current \in BOOLEAN}

(***************************************************************************)
(* The gate.                                                               *)
(***************************************************************************)

Gate(s, packet, acknowledged) ==
  [kind |-> "gate", operation |-> s.operation, region |-> s.region,
   snapshot |-> s.snapshot, packet |-> packet,
   ok |-> /\ ScaffoldUsable(s)
          /\ s.snapshot.alias = s.region.alias
          /\ Sound(s.snapshot)
          /\ packet.ok
          /\ acknowledged]

RunGate ==
  /\ Holding("scaffold")
  /\ \E packet \in Packets, acknowledged \in BOOLEAN :
       Write(Gate(held, packet, acknowledged))

(* A candidate is a manifest that names a scaffold and a packet: it is     *)
(* checked like the gate, and the manifest must be the one that was sealed.*)
RunCandidateCheck ==
  /\ Holding("scaffold")
  /\ \E packet \in Packets, acknowledged, sealed \in BOOLEAN :
       LET gate == Gate(held, packet, acknowledged)
       IN  Write([gate EXCEPT !.kind = "candidate", !.ok = @ /\ sealed])

ReceiptsNext ==
  \/ RunPreflight \/ RunScaffold
  \/ RunApplyReceipt \/ RunContract \/ RunSimulation
  \/ RunPostflight \/ RunSimulationPostflight \/ RunRestore
  \/ RunSimulationCloseout \/ RunProofCloseout
  \/ RunEvaluation \/ RunStatus \/ RunReviewPacket \/ RunEvidencePacket
  \/ RunGate \/ RunCandidateCheck

ReceiptsSpec == ReceiptsInit /\ [][ReceiptsNext]_receiptVars

-----------------------------------------------------------------------------
(* Properties *)

(* The receipt goes back to a preflight that found the region managed, its *)
(* board allowlisted, and a sound snapshot of that board as declared.      *)
Cleared(declaration, shot) ==
  /\ origin.region = declaration
  /\ origin.snapshot = shot
  /\ declaration.mode = "managed"
  /\ origin.listed
  /\ shot.alias = declaration.alias
  /\ shot.digest = declaration.expected
  /\ Sound(shot)

(* Operations of this region alone were declared, and verified on its      *)
(* board.                                                                  *)
Carried(declaration, declared, after) ==
  /\ declared.region = declaration
  /\ OperationsFor(declaration, declared.operations)
  /\ IdempotencyKey(after.of) = IdempotencyKey(declared)
  /\ after.verified
  /\ after.shot.alias = declaration.alias
  /\ Sound(after.shot)

(* However the files of several runs are mixed, a closeout that is ready   *)
(* stands at the end of one run about one region of one board: cleared,    *)
(* with its own operations verified there, and restored to the snapshot    *)
(* before.  The closeout of a simulation is of this contract and has the   *)
(* snapshot back in every respect; the closeout of SW-003 has its cleanup  *)
(* settled in exactly one way (compile_region_simulation_closeout_receipt, *)
(* compile_sw003_closeout_receipt).                                        *)
CloseoutsProven ==
  /\ Holding("simulation closeout") /\ held.ok =>
       LET run == held.simulation
       IN  /\ Cleared(held.region, run.before)
           /\ Carried(held.region, run.contract, run.after)
           /\ run.after.of = run.contract
           /\ held.restore.restored = run.before
  /\ Holding("proof closeout") /\ held.ok =>
       LET post == held.restore.postflight
           declared == IF post.simulated THEN post.source.contract ELSE post.source
       IN  /\ Cleared(held.region, post.before)
           /\ Carried(held.region, declared, post.after)
           /\ held.restore.restored.digest = post.before.digest
           /\ held.restore.restored.alias = held.region.alias
           /\ held.complete # held.boundary

(* A gate, or a candidate for it, that is ready for live operations goes   *)
(* back to a cleared preflight and to a claim that is complete under the   *)
(* requirements of this program, with a board that was allowlisted and     *)
(* cleaned up or left with consent                                         *)
(* (compile_region_sw009_live_apply_gate_receipt).                         *)
GatesProven ==
  (Holding("gate") \/ Holding("candidate")) /\ held.ok =>
    LET evaluation == held.packet.review.status.evaluation
        claim == evaluation.claim
    IN  /\ Cleared(held.region, held.snapshot)
        /\ evaluation.current
        /\ claim.requested /\ claim.verified /\ claim.listed
        /\ (claim.cleaned /\ claim.attempted) \/ claim.boundary = "accepted"

(* What a ready receipt says is what the files behind it show.             *)
ReceiptsProven == CloseoutsProven /\ GatesProven
=============================================================================

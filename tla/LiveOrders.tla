----------------------------- MODULE LiveOrders -----------------------------
(***************************************************************************)
(* From the gate to the start of a live operation: the bundle of           *)
(* operations, the authorization and the reviewed plan                     *)
(* (src/schauwerk/operator/live_apply.py 144-676 and 1944-2018, and the    *)
(* sw009-live commands of cli_handlers.py).  RegionReceipts is about the   *)
(* receipts up to the gate, LiveApply about the operation itself.          *)
(*                                                                         *)
(* Each document is a file that its command writes again when it is run    *)
(* again, so that an authorization may be older than the gate and the      *)
(* bundle beside it, and a plan older than all three.                      *)
(*                                                                         *)
(* Simplifications:                                                        *)
(* - documents are written by the commands: a digest is the document, and  *)
(*   whatever the fields repeat of it is left out;                         *)
(* - a text is the set of its words, one of them the marker of its region, *)
(*   and contains the texts that have no other words;                      *)
(* - any gate that is ready may be put in place, as RegionReceipts writes  *)
(*   it; one that is not ready is refused by every command here;           *)
(* - the kill switch is the executor's (LiveApply looks at it again);      *)
(* - a behaviour ends with the first operation that is begun.              *)
(***************************************************************************)
EXTENDS RegionReceipts

CONSTANTS
  Drafts,      \* drafts of bundles: alias, region, expected, operations
  GatePackets, \* the packets with which gates in place were made
  Validities,  \* how long an authorization may be given
  LastMoment   \* bound on the clock

ASSUME OrderAssumption ==
  /\ Validities \subseteq Nat \ {0}
  /\ LastMoment \in Nat
  /\ GatePackets \subseteq Packets
  /\ \A d \in Drafts :
       d.operations \in Seq({d.operations[i] : i \in DOMAIN d.operations})

VARIABLES
  gate,           \* the gate receipt in place
  bundle,         \* the bundle in place
  authorization,  \* the authorization in place: of which gate and bundle, and when
  plan,           \* the plan in place, as it was reviewed
  hour,           \* the time
  order           \* the operation begun: its plan, the reviewed one, and when

orderVars == <<gate, bundle, authorization, plan, hour, order>>

OrdersInit ==
  /\ gate = NoReceiptHeld /\ bundle = NoReceiptHeld
  /\ authorization = NoReceiptHeld /\ plan = NoReceiptHeld
  /\ hour = 0
  /\ order = NoReceiptHeld

Open == order = NoReceiptHeld

(***************************************************************************)
(* The gate and the bundle.                                                *)
(***************************************************************************)

(* What the region commands write as a gate, if it is ready.               *)
PlaceGate ==
  /\ Open
  /\ \E d \in Declarations, shot \in Shots, operation \in RegionOperations,
        packet \in GatePackets :
       gate' = Gate(Scaffold(Preflight(d, shot, TRUE, operation)), packet, TRUE)
  /\ gate'.ok
  /\ UNCHANGED <<bundle, authorization, plan, hour, order>>

GateValid ==
  /\ gate # NoReceiptHeld
  /\ gate.ok
  /\ gate.region.mode = "managed"
  /\ AsDeclared(gate.region, gate.snapshot)
  /\ gate.snapshot.alias = gate.region.alias

(* The draft to edit, for a managed region.                                *)
TemplateOf(d) ==
  [alias |-> d.alias, region |-> d.region, expected |-> d.expected,
   operations |-> <<[id |-> 1, region |-> d.region,
                     old |-> {d.region, "old"}, new |-> {d.region, "new"}]>>]

EditedDrafts ==
  Drafts \cup {TemplateOf(d) : d \in {e \in Declarations : e.mode = "managed"}}

(* Old and new texts of all operations, in their order.                    *)
TextsOf(operations) ==
  [i \in 1..2 * Len(operations) |->
     IF i % 2 = 1 THEN operations[(i + 1) \div 2].old ELSE operations[i \div 2].new]

NoOverlap(texts) ==
  \A i, j \in DOMAIN texts : texts[i] \subseteq texts[j] => i = j

BundleValid(b) ==
  /\ b.expected \in FullDigests
  /\ OperationsFor(b, b.operations)
  /\ \A i \in DOMAIN b.operations :
       b.region \in b.operations[i].old \cap b.operations[i].new
  /\ NoOverlap(TextsOf(b.operations))

CompileBundle ==
  /\ Open
  /\ \E d \in EditedDrafts : BundleValid(d) /\ bundle' = d
  /\ UNCHANGED <<gate, authorization, plan, hour, order>>

(***************************************************************************)
(* The authorization and the plan.                                         *)
(***************************************************************************)

(* The bundle is not compared with the gate here.                          *)
Authorize ==
  /\ Open
  /\ GateValid
  /\ bundle # NoReceiptHeld
  /\ \E valid \in Validities :
       authorization' =
         [gate |-> gate, bundle |-> bundle, alias |-> gate.region.alias,
          region |-> gate.region.region, expected |-> gate.region.expected,
          from |-> hour, until |-> hour + valid]
  /\ UNCHANGED <<gate, bundle, plan, hour, order>>

(* Seeded fault: still in force when it expires.                           *)
InForceAtEnd == authorization.from <= hour /\ hour <= authorization.until

InForce == authorization.from <= hour /\ hour < authorization.until

Bound(document) ==
  /\ document.alias = gate.region.alias
  /\ document.region = gate.region.region
  /\ document.expected = gate.region.expected

PlanCompiles ==
  /\ GateValid
  /\ bundle # NoReceiptHeld
  /\ authorization # NoReceiptHeld
  /\ InForce
  /\ Bound(bundle) /\ Bound(authorization)
  /\ authorization.gate = gate
  /\ authorization.bundle = bundle
  /\ gate.operation = "render-update"

CompiledPlan == [gate |-> gate, bundle |-> bundle, authorization |-> authorization]

WritePlan ==
  /\ Open
  /\ PlanCompiles
  /\ plan' = CompiledPlan
  /\ UNCHANGED <<gate, bundle, authorization, hour, order>>

(* Seeded fault: the reviewed plan is not compared.                        *)
BeginUnreviewed ==
  /\ Open
  /\ PlanCompiles
  /\ plan # NoReceiptHeld
  /\ order' = [plan |-> CompiledPlan, reviewed |-> plan, at |-> hour]
  /\ UNCHANGED <<gate, bundle, authorization, plan, hour>>

(* The plan is compiled again from the files in place, and must be the one *)
(* that was reviewed.                                                      *)
BeginOperation ==
  /\ Open
  /\ PlanCompiles
  /\ plan = CompiledPlan
  /\ order' = [plan |-> CompiledPlan, reviewed |-> plan, at |-> hour]
  /\ UNCHANGED <<gate, bundle, authorization, plan, hour>>

LetTimePass ==
  /\ Open
  /\ hour < LastMoment
  /\ hour' = hour + 1
  /\ UNCHANGED <<gate, bundle, authorization, plan, order>>

OrdersNext ==
  \/ PlaceGate \/ CompileBundle \/ Authorize \/ WritePlan \/ BeginOperation
  \/ LetTimePass

OrdersSpec == OrdersInit /\ [][OrdersNext]_orderVars

-----------------------------------------------------------------------------
(* Properties *)

(* Whichever documents were replaced in between, an operation that begins  *)
(* follows the plan that was reviewed, under an authorization in force     *)
(* that was given for this very gate and bundle; board, region and         *)
(* snapshot are the same in all of them, the board was the region's own,   *)
(* and its texts can be told apart on the board, before the operation and  *)
(* after it, which is what the executor takes for granted (Plan in         *)
(* LiveApply; compile_live_apply_plan, handle_region_sw009_live_apply).    *)
OrdersBound ==
  ~Open =>
    LET p == order.plan
        given == p.authorization
    IN  /\ order.reviewed = p
        /\ given.gate = p.gate /\ given.bundle = p.bundle
        /\ given.from <= order.at /\ order.at < given.until
        /\ p.gate.operation = "render-update"
        /\ p.gate.packet.ok
        /\ p.gate.snapshot.alias = p.bundle.alias
        /\ p.gate.snapshot.digest = p.bundle.expected
        /\ p.gate.region.region = p.bundle.region
        /\ Sound(p.gate.snapshot)
        /\ LET texts == TextsOf(p.bundle.operations)
           IN  /\ \A i \in DOMAIN texts : p.gate.region.region \in texts[i]
               /\ NoOverlap(texts)
=============================================================================

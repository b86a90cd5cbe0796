------------------------------- MODULE Fundus -------------------------------
(***************************************************************************)
(* The visual decision of the Fundus (fundus/core.py): a registered asset  *)
(* is built, the build is previewed, a reviewer accepts or rejects it, a   *)
(* build with identical sources and outputs may inherit an acceptance, and *)
(* an accepted build is packaged.  Every command is a process of its own,  *)
(* there is no lock: what a command has written is immutable (pathio.py    *)
(* write_create_or_verify), but it may be killed while it writes, and the  *)
(* registry is edited by people at any time.                               *)
(*                                                                         *)
(* What is abstracted.  One asset.  A build is the pair of the manifest of *)
(* the asset and the recipe it was made from, and its files are one; the   *)
(* review bundles and the records of the earlier schemas, which no longer  *)
(* admit a package, are left out.                                          *)
(***************************************************************************)
EXTENDS Naturals, Sequences, FiniteSets

CONSTANTS
  Commands,    \* processes
  Manifests,   \* contents of the asset's manifest
  Recipes,     \* contents of its recipe
  Material,    \* the sources a manifest names
  Look,        \* the outputs of a build
  Registered,  \* the manifest and the recipe registered at first
  MaxRecords,  \* bound: decisions
  MaxPackages, \* bound: packages
  FundusEdits  \* bound: edits of the registry

Builds == [manifest : Manifests, recipe : Recipes]

ASSUME FundusAssumption ==
  /\ DOMAIN Material = Manifests /\ DOMAIN Look = Builds /\ Registered \in Builds
  /\ MaxRecords \in Nat /\ MaxPackages \in Nat /\ FundusEdits \in Nat

VARIABLES
  registry,  \* the manifest and the recipe registered now
  built,     \* the files of each build: none, part or whole
  preview,   \* the preview of each build, likewise
  record,    \* the decisions, in the order they were written
  package,   \* the packages, likewise
  command,   \* the processes
  reworked   \* edits of the registry so far

fundusVars == <<registry, built, preview, record, package, command, reworked>>
artifacts == <<built, preview, record, package>>

Idle == [step |-> "idle", build |-> Registered, writes |-> 0, rejected |-> {}]

FundusInit ==
  /\ registry = Registered
  /\ built = [b \in Builds |-> "none"]
  /\ preview = [b \in Builds |-> "none"]
  /\ record = <<>>
  /\ package = <<>>
  /\ command = [c \in Commands |-> Idle]
  /\ reworked = 0

-----------------------------------------------------------------------------

Doing(c, step) == command[c].step = step
EndCommand(c) == command' = [command EXCEPT ![c] = Idle]

EditRegistry ==
  /\ reworked < FundusEdits
  /\ \E b \in Builds \ {registry} : registry' = b
  /\ reworked' = reworked + 1
  /\ UNCHANGED <<artifacts, command>>

\* The gate of every admission: the build is of the manifest registered now.
ProductionProvenanceGate(b) == registry.manifest = b.manifest

\* A file that is there must be the same, or the command fails; otherwise it is
\* created, and whole only when the command has come to its end.
Advance(c, step, b) ==
  command' = [command EXCEPT ![c] = [Idle EXCEPT !.step = step, !.build = b]]

\* The manifest is read, and the recipe after it.  A build that is there in part is
\* completed, unless a file of it was cut off; one that is whole is verified.
Build(c) ==
  /\ \/ /\ Doing(c, "idle")
        /\ Advance(c, "recipe", registry)
        /\ UNCHANGED built
     \/ /\ Doing(c, "recipe")
        /\ LET b == [command[c].build EXCEPT !.recipe = registry.recipe]
           IN  \/ /\ built[b] # "whole"
                  /\ built' = [built EXCEPT ![b] = "part"]
                  /\ Advance(c, "building", b)
               \/ built[b] # "none" /\ EndCommand(c) /\ UNCHANGED built
     \/ /\ Doing(c, "building")
        /\ built' = [built EXCEPT ![command[c].build] = "whole"]
        /\ EndCommand(c)
  /\ UNCHANGED <<registry, preview, record, package, reworked>>

Preview(c) ==
  /\ \/ /\ Doing(c, "idle")
        /\ \E b \in Builds :
             /\ built[b] = "whole" /\ preview[b] # "whole"
             /\ preview' = [preview EXCEPT ![b] = "part"]
             /\ Advance(c, "rendering", b)
     \/ /\ Doing(c, "rendering")
        /\ preview' = [preview EXCEPT ![command[c].build] = "whole"]
        /\ EndCommand(c)
  /\ UNCHANGED <<registry, built, record, package, reworked>>

\* A decision is created under a name of its own, in part at first.
Decide(c, b, decision, parent) ==
  /\ Len(record) < MaxRecords
  /\ record' = Append(record, [build |-> b, decision |-> decision, parent |-> parent,
                               state |-> "part"])
  /\ command' = [command EXCEPT ![c] = [Idle EXCEPT !.step = "deciding", !.build = b,
                                                    !.writes = Len(record) + 1]]

\* An acceptance needs the preview of this build and passes the gate; a rejection
\* needs neither.
Accept(c) ==
  /\ Doing(c, "idle")
  /\ \E b \in Builds :
       /\ built[b] = "whole"
       /\ \/ ProductionProvenanceGate(b) /\ preview[b] = "whole" /\ Decide(c, b, "accepted", 0)
          \/ Decide(c, b, "rejected", 0)
  /\ UNCHANGED <<registry, built, preview, package, reworked>>

Identical(b, parent) ==
  /\ Material[b.manifest] = Material[parent.manifest]
  /\ Look[b] = Look[parent]

\* The recipe of the build must be the registered one, its sources and outputs the
\* parent's, and the parent accepted directly.
InheritAcceptance(c) ==
  /\ Doing(c, "idle")
  /\ \E b \in Builds, p \in DOMAIN record :
       /\ record[p].build # b
       /\ built[b] = "whole"
       /\ registry.recipe = b.recipe
       /\ record[p].state = "whole" /\ record[p].decision = "accepted"
       /\ ProductionProvenanceGate(b)
       /\ Identical(b, record[p].build)
       /\ Decide(c, b, "inherited", p)
  /\ UNCHANGED <<registry, built, preview, package, reworked>>

EndDecision(c) ==
  /\ Doing(c, "deciding")
  /\ record' = [record EXCEPT ![command[c].writes].state = "whole"]
  /\ EndCommand(c)
  /\ UNCHANGED <<registry, built, preview, package, reworked>>

Of(b) == {r \in DOMAIN record : record[r].build = b}

\* _load_acceptance: whole, and if it is inherited, from a direct acceptance of a
\* build with the same sources and outputs.
Loads(r) ==
  /\ record[r].state = "whole"
  /\ built[record[r].build] = "whole"
  /\ record[r].decision = "inherited" =>
       /\ record[record[r].parent].decision = "accepted"
       /\ record[record[r].parent].state = "whole"
       /\ Identical(record[r].build, record[record[r].parent].build)

Rejected(b) == {r \in Of(b) : record[r].decision = "rejected" /\ record[r].state = "whole"}

\* Mutant: the other decisions about the build are not looked at.
OwnDecision(b) == TRUE

\* All decisions about the build can be read and none rejects it.
NoneRejects(b) == \A r \in Of(b) : Loads(r) /\ record[r].decision # "rejected"

\* A package is made in three steps: the decisions are checked, then the gate, and
\* the files are written (part first).
Package(c) ==
  LET b == command[c].build
      n == command[c].writes
  IN  /\ \/ /\ Doing(c, "idle")
            /\ \E r \in DOMAIN record :
                 /\ Loads(r) /\ record[r].decision # "rejected"
                 /\ command' = [command EXCEPT ![c] =
                      [step |-> "siblings", build |-> record[r].build, writes |-> r,
                       rejected |-> Rejected(record[r].build)]]
            /\ UNCHANGED package
         \/ /\ Doing(c, "siblings")
            /\ IF NoneRejects(b)
               THEN command' = [command EXCEPT ![c].step = "gate"]
               ELSE EndCommand(c)
            /\ UNCHANGED package
         \/ /\ Doing(c, "gate")
            /\ IF ProductionProvenanceGate(b) /\ \A i \in DOMAIN package : package[i].record # n
               THEN /\ Len(package) < MaxPackages
                    /\ package' = Append(package, [record |-> n, state |-> "part",
                                                   rejected |-> command[c].rejected])
                    /\ command' = [command EXCEPT ![c].step = "packaging",
                                                  ![c].writes = Len(package) + 1]
               ELSE EndCommand(c) /\ UNCHANGED package
         \/ /\ Doing(c, "packaging")
            /\ package' = [package EXCEPT ![n].state = "whole"]
            /\ EndCommand(c)
      /\ UNCHANGED <<registry, built, preview, record, reworked>>

\* What was being written stays as it is.
KillCommand(c) ==
  /\ ~Doing(c, "idle")
  /\ EndCommand(c)
  /\ UNCHANGED <<registry, artifacts, reworked>>

FundusNext ==
  \/ EditRegistry
  \/ \E c \in Commands :
       \/ Build(c) \/ Preview(c) \/ Accept(c) \/ InheritAcceptance(c) \/ EndDecision(c)
       \/ Package(c) \/ KillCommand(c)

FundusSpec == FundusInit /\ [][FundusNext]_fundusVars

-----------------------------------------------------------------------------

\* What is packaged was shown to a reviewer and accepted: the package's decision leads
\* to a direct acceptance, behind which there is a whole preview of a build with
\* the same sources and outputs; and the packaged build had not been rejected when
\* the command that packaged it began, however the commands overlapped or were killed.
PackagedReviewed ==
  \A i \in DOMAIN package :
    LET r == package[i].record
        direct == IF record[r].decision = "inherited" THEN record[r].parent ELSE r
    IN  /\ record[direct].decision = "accepted" /\ record[direct].state = "whole"
        /\ preview[record[direct].build] = "whole"
        /\ Identical(record[r].build, record[direct].build)
        /\ package[i].rejected = {}
=============================================================================

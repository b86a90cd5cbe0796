------------------------- MODULE CompanionEvidence -------------------------
(***************************************************************************)
(* Evidence that the Miro companion is installed and released as its       *)
(* manifest says (surfaces/miro/companion_evidence.py).  A capture takes   *)
(* the refresh lock, checks the public release, reads Miro back in a       *)
(* browser, writes the files of a new generation one by one, and last      *)
(* points current.json to it; a failed reading leaves an attention         *)
(* receipt.  Captures run from a timer and by hand, and may be killed      *)
(* between any two steps.                                                  *)
(*                                                                         *)
(* What is abstracted.  Time is counted in seconds, the resolution of a    *)
(* generation's name; one release is published.  A file is written whole,  *)
(* in part (its writer was killed) or not at all.                          *)
(***************************************************************************)
EXTENDS Naturals, Sequences

CONSTANTS
  Captures,   \* runs of capture_evidence
  Forced,     \* those of them with --force
  Lifetime,   \* seconds evidence is valid for
  Early,      \* seconds before its end from which it is refreshed
  LastSecond  \* bound: the clock

ASSUME CaptureAssumption ==
  /\ Forced \subseteq Captures
  /\ Lifetime \in Nat /\ Early \in Nat /\ LastSecond \in Nat

VARIABLES
  second,      \* the clock
  capture,     \* the runs
  lockedBy,    \* the run that holds refresh.lock, if any
  generation,  \* the files of each generation, by the second it is named for
  current,     \* the generation current.json names
  attention,   \* the seconds for which there is an attention receipt
  published    \* history: every generation current.json has named

evidenceVars == <<second, capture, lockedBy, generation, current, attention, published>>

Seconds == 0..LastSecond
NoGeneration == LastSecond + 1

\* The files of a generation in the order they are written.
Parts == <<"in-board", "app-config", "gate-status", "manifest">>
FileStates == {"none", "part", "whole"}
NoFiles == [i \in DOMAIN Parts |-> "none"]

EvidenceInit ==
  /\ second = 0
  /\ capture = [c \in Captures |-> [step |-> "begin", observed |-> 0, previous |-> NoGeneration,
                                    file |-> 1]]
  /\ lockedBy = {}
  /\ generation = [s \in Seconds |-> [made |-> FALSE, files |-> NoFiles,
                                      supersedes |-> NoGeneration]]
  /\ current = NoGeneration
  /\ attention = {}
  /\ published = {}

-----------------------------------------------------------------------------

On(c, step) == capture[c].step = step
Reach(c, step) == capture' = [capture EXCEPT ![c].step = step]
store == <<generation, current, attention, published>>

\* The time of the observation is taken before the lock is asked for.
BeginCapture(c) ==
  /\ On(c, "begin")
  /\ capture' = [capture EXCEPT ![c].step = "lock", ![c].observed = second]
  /\ UNCHANGED <<second, lockedBy, store>>

NotDue(c, pointer) ==
  /\ c \notin Forced
  /\ pointer # NoGeneration
  /\ pointer + Lifetime > capture[c].observed + Early

\* The lock is not waited for; under it the pointer is read.
LockCapture(c) ==
  /\ On(c, "lock")
  /\ IF lockedBy # {} \/ NotDue(c, current)
     THEN Reach(c, "ended") /\ UNCHANGED lockedBy
     ELSE /\ lockedBy' = {c}
          /\ capture' = [capture EXCEPT ![c].step = "observe", ![c].previous = current]
  /\ UNCHANGED <<second, store>>

Release(c) ==
  /\ Reach(c, "ended")
  /\ lockedBy' = {}

\* The release and Miro are read; a failure leaves a receipt, unless one of that
\* second and reason is there already.
Observe(c) ==
  /\ On(c, "observe")
  /\ \/ Reach(c, "directory") /\ UNCHANGED <<lockedBy, attention>>
     \/ Release(c) /\ attention' = attention \cup {capture[c].observed}
  /\ UNCHANGED <<second, generation, current, published>>

\* The directory of the generation must be new.
MakeDirectory(c) ==
  LET name == capture[c].observed
  IN  /\ On(c, "directory")
      /\ IF generation[name].made
         THEN Release(c) /\ UNCHANGED generation
         ELSE /\ generation' = [generation EXCEPT ![name].made = TRUE]
              /\ Reach(c, "write") /\ UNCHANGED lockedBy
      /\ UNCHANGED <<second, current, attention, published>>

\* One file of the generation is created and written; the manifest names the
\* generation it supersedes.  A writer that fails removes the file.
WriteFile(c) ==
  LET name == capture[c].observed
      file == capture[c].file
  IN  /\ On(c, "write")
      /\ \/ /\ generation[name].files[file] = "none"
            /\ generation' = [generation EXCEPT
                 ![name].files[file] = "part",
                 ![name].supersedes = IF Parts[file] = "manifest" THEN capture[c].previous ELSE @]
            /\ Reach(c, "sync")
            /\ UNCHANGED lockedBy
         \/ Release(c) /\ UNCHANGED generation
      /\ UNCHANGED <<second, current, attention, published>>

\* MUTANT of SyncFile: the pointer comes before the manifest.
SyncAllButLast(c) ==
  LET name == capture[c].observed
      file == capture[c].file
  IN  /\ On(c, "sync")
      /\ generation' = [generation EXCEPT ![name].files[file] = "whole"]
      /\ capture' = [capture EXCEPT ![c].file = @ + 1,
                                   ![c].step = IF file = 3 THEN "point" ELSE "write"]
      /\ UNCHANGED <<second, lockedBy, current, attention, published>>

\* The file's bytes are on the disk; after the last one comes the pointer.
SyncFile(c) ==
  LET name == capture[c].observed
      file == capture[c].file
  IN  /\ On(c, "sync")
      /\ \/ /\ generation' = [generation EXCEPT ![name].files[file] = "whole"]
            /\ capture' = [capture EXCEPT
                 ![c].file = @ + 1,
                 ![c].step = IF file = Len(Parts) THEN "point" ELSE "write"]
            /\ UNCHANGED lockedBy
         \/ /\ generation' = [generation EXCEPT ![name].files[file] = "none"]
            /\ Release(c)
      /\ UNCHANGED <<second, current, attention, published>>

\* current.json is replaced in one step.
Point(c) ==
  /\ On(c, "point")
  /\ \/ /\ current' = capture[c].observed
        /\ published' = published \cup {capture[c].observed}
     \/ UNCHANGED <<current, published>>
  /\ Release(c)
  /\ UNCHANGED <<second, generation, attention>>

\* The process is killed: its lock is free.
KillCapture(c) ==
  /\ c \in lockedBy
  /\ Reach(c, "ended")
  /\ lockedBy' = lockedBy \ {c}
  /\ UNCHANGED <<second, store>>

PassSecond ==
  /\ second < LastSecond
  /\ second' = second + 1
  /\ UNCHANGED <<capture, lockedBy, store>>

EvidenceNext ==
  \/ PassSecond
  \/ \E c \in Captures :
       \/ BeginCapture(c) \/ LockCapture(c) \/ Observe(c) \/ MakeDirectory(c)
       \/ WriteFile(c) \/ SyncFile(c) \/ Point(c) \/ KillCapture(c)

EvidenceSpec == EvidenceInit /\ [][EvidenceNext]_evidenceVars

-----------------------------------------------------------------------------

Whole(name) == \A i \in DOMAIN Parts : generation[name].files[i] = "whole"

\* Whoever reads current.json, at any moment and after any kill, finds a generation
\* with all its files whole (the pointer is written last and generations are never
\* changed), and every generation that has been current is still reached from it
\* through the "supersedes" of the manifests.
EvidenceChained ==
  \A name \in published :
    /\ Whole(name)
    /\ name = current \/ \E later \in published : generation[later].supersedes = name
=============================================================================

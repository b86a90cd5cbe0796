---------------------------- MODULE ReviewSession ----------------------------
(***************************************************************************)
(* One review, and what its page promises in a calm behaviour: the server  *)
(* is not killed and nobody else edits the board.                          *)
(***************************************************************************)
EXTENDS Regie

VARIABLE calm  \* nothing disturbs the server

ReviewInit == RegieInit /\ calm \in BOOLEAN

ReviewNext ==
  /\ UNCHANGED calm
  /\ \/ \E p \in Procs : Request(p)
     \/ ~calm /\ \E p \in Procs : ServerCrash(p)
     \/ Surroundings /\ UNCHANGED sessionVars /\ (calm => UNCHANGED edits)

ReviewSpec == ReviewInit /\ [][ReviewNext]_<<vars, sessionVars, calm>>

(* With a server that is never killed, on a board that nobody else edits,  *)
(* whatever the page offers the executor accepts, and an applied review    *)
(* can be restored, from the page (state, controls) and in the executor,   *)
(* also after restores that failed and were recovered (restore_ready).     *)
OffersServed == calm => OffersHold /\ RestoreAvailable
=============================================================================

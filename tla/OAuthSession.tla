---------------------------- MODULE OAuthSession ----------------------------
(***************************************************************************)
(* The OAuth tokens the Miro commands share (surfaces/miro/credentials.py, *)
(* discovery.py, safe_logout.py).  A live session holds the flow lock from *)
(* before it reads the stored tokens to its end; a refresh that Miro       *)
(* answers replaces the refresh token, or leaves it out, in which case the *)
(* old one is carried forward by a second write.  Each access of the state *)
(* file is under a lock of its own; a logout takes only that one.          *)
(*                                                                         *)
(* What is abstracted.  A refresh token is a number; Miro (and the MCP     *)
(* client library, which decides when to refresh) is external.  The flow   *)
(* lock is polled by a thread, which goes on when its task is cancelled.   *)
(***************************************************************************)
EXTENDS Naturals

CONSTANTS
  Sessions,  \* live sessions
  MaxTokens  \* bound: refresh tokens Miro hands out

ASSUME SessionAssumption == MaxTokens \in Nat \ {0}

VARIABLES
  session,   \* the sessions
  flowLock,  \* the session whose thread has the flow lock, if any
  stored,    \* the refresh token in the state file, 0 for tokens without one
  saved,     \* whether the state file has tokens at all
  granted,   \* the refresh token handed out last
  valid,     \* the refresh tokens Miro accepts
  stale,     \* history: a token Miro no longer accepts has been presented
  broken     \* history: a refresh was interrupted or its answer was lost

oauthVars == <<session, flowLock, stored, saved, granted, valid, stale, broken>>
miro == <<granted, valid, stale, broken>>
state == <<stored, saved>>

Live == {"begin", "open", "sent", "carry"}

OAuthInit ==
  /\ session = [s \in Sessions |-> [step |-> "idle", refresh |-> 0, answer |-> 0]]
  /\ flowLock = {}
  /\ stored = 1 /\ saved = TRUE
  /\ granted = 1 /\ valid = {1}
  /\ stale = FALSE /\ broken = FALSE

-----------------------------------------------------------------------------

Is(s, step) == session[s].step = step
To(s, step) == session' = [session EXCEPT ![s].step = step]

Wait(s) ==
  /\ Is(s, "idle")
  /\ To(s, "waiting")
  /\ UNCHANGED <<flowLock, state, miro>>

\* Mutant: only the accesses of the file are locked, not the session.
AcquireShared(s) ==
  /\ Is(s, "waiting")
  /\ To(s, "begin")
  /\ flowLock' = flowLock \cup {s}
  /\ UNCHANGED <<state, miro>>

\* The thread gets the lock, for a task that is still waiting or one that is gone.
AcquireFlowLock(s) ==
  /\ session[s].step \in {"waiting", "cancelled"}
  /\ flowLock = {}
  /\ flowLock' = {s}
  /\ To(s, IF Is(s, "waiting") THEN "begin" ELSE "leaked")
  /\ UNCHANGED <<state, miro>>

\* The thread gives up when the lock stays busy.
GiveUp(s) ==
  /\ session[s].step \in {"waiting", "cancelled"}
  /\ flowLock # {}
  /\ To(s, "over")
  /\ UNCHANGED <<flowLock, state, miro>>

CancelWaiting(s) ==
  /\ Is(s, "waiting")
  /\ To(s, "cancelled")
  /\ UNCHANGED <<flowLock, state, miro>>

\* The first request makes the provider read the stored tokens.
Initialize(s) ==
  /\ Is(s, "begin")
  /\ session' = [session EXCEPT ![s].step = "open",
                                ![s].refresh = IF saved THEN stored ELSE 0]
  /\ UNCHANGED <<flowLock, state, miro>>

\* Without a usable token the user authorizes a session anew (login).
Authorize(s) ==
  /\ Is(s, "open")
  /\ session[s].refresh = 0
  /\ granted < MaxTokens
  /\ granted' = granted + 1
  /\ valid' = valid \cup {granted'}
  /\ session' = [session EXCEPT ![s].refresh = granted']
  /\ stored' = granted' /\ saved' = TRUE
  /\ UNCHANGED <<flowLock, stale, broken>>

\* The access token has expired: the refresh token is presented.  Miro rotates it,
\* or keeps it and leaves it out of its answer, or refuses it.
PresentRefresh(s) ==
  LET token == session[s].refresh
  IN  /\ Is(s, "open")
      /\ token # 0
      /\ IF token \in valid
         THEN \/ /\ granted < MaxTokens
                 /\ granted' = granted + 1
                 /\ valid' = (valid \ {token}) \cup {granted'}
                 /\ session' = [session EXCEPT ![s].step = "sent", ![s].answer = granted']
                 /\ UNCHANGED stale
              \/ /\ session' = [session EXCEPT ![s].step = "sent", ![s].answer = 0]
                 /\ UNCHANGED <<granted, valid, stale>>
         ELSE /\ session' = [session EXCEPT ![s].refresh = 0]
              /\ stale' = TRUE
              /\ UNCHANGED <<granted, valid>>
      /\ UNCHANGED <<flowLock, state, broken>>

\* The library stores the answer as it came.
StoreAnswer(s) ==
  /\ Is(s, "sent")
  /\ stored' = session[s].answer /\ saved' = TRUE
  /\ IF session[s].answer = 0
     THEN To(s, "carry")
     ELSE session' = [session EXCEPT ![s].step = "open", ![s].refresh = session[s].answer]
  /\ UNCHANGED <<flowLock, miro>>

\* _handle_refresh_response: an answer without a refresh token keeps the old one.
CarryForward(s) ==
  /\ Is(s, "carry")
  /\ stored' = session[s].refresh /\ saved' = TRUE
  /\ To(s, "open")
  /\ UNCHANGED <<flowLock, miro>>

\* The session ends, by itself, by an error or cancelled; if a refresh is under way
\* its answer is lost.  The lock is given back.
EndSession(s) ==
  /\ session[s].step \in Live
  /\ broken' = (broken \/ session[s].step \in {"sent", "carry"})
  /\ To(s, "over")
  /\ flowLock' = flowLock \ {s}
  /\ UNCHANGED <<state, granted, valid, stale>>

\* The process of a cancelled task ends, and with it the lock its thread got.
EndProcess(s) ==
  /\ Is(s, "leaked")
  /\ To(s, "over")
  /\ flowLock' = flowLock \ {s}
  /\ UNCHANGED <<state, miro>>

Logout ==
  /\ saved
  /\ saved' = FALSE
  /\ UNCHANGED <<session, flowLock, stored, miro>>

OAuthNext ==
  \/ Logout
  \/ \E s \in Sessions :
       \/ Wait(s) \/ AcquireFlowLock(s) \/ GiveUp(s) \/ CancelWaiting(s) \/ Initialize(s)
       \/ Authorize(s) \/ PresentRefresh(s) \/ StoreAnswer(s) \/ CarryForward(s)
       \/ EndSession(s) \/ EndProcess(s)

OAuthSpec == OAuthInit /\ [][OAuthNext]_oauthVars

-----------------------------------------------------------------------------

\* As long as no refresh was interrupted, no session presents a refresh token that
\* another session has used up, and between sessions the stored token is one Miro
\* accepts, whatever logouts come in between (the flow lock of
\* serialized_oauth_provider, with the tokens read inside it, and the second write of
\* _handle_refresh_response).
LoginKept ==
  ~broken =>
    /\ ~stale
    /\ (\A s \in Sessions : session[s].step \notin Live) /\ saved => stored \in valid
=============================================================================

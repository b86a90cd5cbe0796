------------------------------ MODULE MiroProofs ------------------------------
(***************************************************************************)
(* Theorems about the sessions with Miro (OAuthSession), about the         *)
(* evidence that the companion app collects (CompanionEvidence), about the *)
(* images that Schauwerk manages on a board (ManagedImage), about the      *)
(* deliveries of representations to a board (Delivery), and about the      *)
(* snapshots that are taken of a board (Snapshot).                         *)
(***************************************************************************)
EXTENDS OAuthSession, CompanionEvidence, ManagedImage, Delivery, Snapshot,
        SequenceTheorems, FiniteSetTheorems, TLAPS

-----------------------------------------------------------------------------
(* Sessions.  Whoever is between the reading of the stored tokens and the  *)
(* end of its session has the flow lock, so that no other session presents *)
(* or stores a token meanwhile; a logout, which does not take the lock,    *)
(* only removes tokens.                                                    *)

Tokens == 0..MaxTokens
LoginSteps == {"idle", "waiting", "cancelled", "leaked", "over"} \cup Live

OAuthTypeOK ==
  /\ session \in [Sessions -> [step : LoginSteps, refresh : Tokens, answer : Tokens]]
  /\ flowLock \subseteq Sessions
  /\ stored \in Tokens /\ saved \in BOOLEAN
  /\ granted \in Tokens /\ valid \subseteq Tokens
  /\ stale \in BOOLEAN /\ broken \in BOOLEAN

(* The flow lock has one holder: the live session, or the thread of a task *)
(* that was cancelled.                                                     *)
Exclusive ==
  /\ \A s \in Sessions : s \in flowLock <=> session[s].step \in Live \cup {"leaked"}
  /\ \A s, t \in flowLock : s = t

(* The tokens a live session goes on with are good, unless it has none.    *)
SessionGood(s) ==
  /\ Is(s, "open") /\ session[s].refresh # 0 => session[s].refresh \in valid
  /\ Is(s, "sent") => IF session[s].answer = 0
                      THEN session[s].refresh \in valid
                      ELSE session[s].answer \in valid
  /\ Is(s, "carry") => session[s].refresh \in valid

(* Only between an answer of Miro and its last write is what is stored not *)
(* what Miro accepts.                                                      *)
StoreGood ==
  (\A s \in Sessions : session[s].step \notin {"sent", "carry"}) /\ saved => stored \in valid

LoginInv ==
  /\ OAuthTypeOK
  /\ Exclusive
  /\ ~broken => ~stale /\ StoreGood /\ \A s \in Sessions : SessionGood(s)

(* Before the first session the stored token is the one Miro has granted.  *)
LEMMA LoginInit == OAuthInit => LoginInv
  <1> SUFFICES ASSUME OAuthInit PROVE LoginInv
    OBVIOUS
  <1> USE SessionAssumption DEF OAuthInit, Tokens, LoginSteps, Live, Is
  <1>1. OAuthTypeOK
    <2>1. 0 \in Tokens /\ 1 \in Tokens /\ "idle" \in LoginSteps
      OBVIOUS
    <2>2. session \in [Sessions -> [step : LoginSteps, refresh : Tokens, answer : Tokens]]
      BY <2>1
    <2> QED
      BY <2>1, <2>2 DEF OAuthTypeOK
  <1>2. Exclusive
    BY DEF Exclusive
  <1>3. StoreGood /\ \A s \in Sessions : SessionGood(s)
    BY DEF StoreGood, SessionGood
  <1> QED
    BY <1>1, <1>2, <1>3 DEF LoginInv

(* Every variable keeps its type.                                          *)
LEMMA LoginTypeStep ==
  ASSUME OAuthTypeOK, [OAuthNext]_oauthVars
  PROVE  OAuthTypeOK'
  <1> USE SessionAssumption DEF OAuthTypeOK, Tokens, LoginSteps, Live, Is, To, state, miro
  <1>1. CASE Logout
    BY <1>1 DEF Logout
  <1>2. ASSUME NEW s \in Sessions, Wait(s) \/ AcquireFlowLock(s) \/ GiveUp(s) \/ CancelWaiting(s)
        PROVE  OAuthTypeOK'
    BY <1>2 DEF Wait, AcquireFlowLock, GiveUp, CancelWaiting
  <1>3. ASSUME NEW s \in Sessions, Initialize(s) \/ Authorize(s)
        PROVE  OAuthTypeOK'
    <2>1. CASE Initialize(s)
      <3>1. PICK token \in Tokens :
              session' = [session EXCEPT ![s].step = "open", ![s].refresh = token]
        <4>1. stored \in Tokens /\ 0 \in Tokens
          OBVIOUS
        <4> QED
          BY <2>1, <4>1 DEF Initialize
      <3>2. session' \in [Sessions -> [step : LoginSteps, refresh : Tokens, answer : Tokens]]
        BY <3>1
      <3> QED
        BY <2>1, <3>2 DEF Initialize
    <2>2. CASE Authorize(s)
      <3>1. granted' \in Tokens
        BY <2>2 DEF Authorize
      <3>2. session' = [session EXCEPT ![s].refresh = granted']
        BY <2>2 DEF Authorize
      <3>3. session' \in [Sessions -> [step : LoginSteps, refresh : Tokens, answer : Tokens]]
        BY <3>1, <3>2
      <3> QED
        BY <2>2, <3>1, <3>3 DEF Authorize
    <2> QED
      BY <1>3, <2>1, <2>2
  <1>4. ASSUME NEW s \in Sessions, PresentRefresh(s)
        PROVE  OAuthTypeOK'
    <2>1. ASSUME granted < MaxTokens, granted' = granted + 1,
                 session' = [session EXCEPT ![s].step = "sent", ![s].answer = granted'],
                 valid' = (valid \ {session[s].refresh}) \cup {granted'}, stale' = stale
          PROVE  OAuthTypeOK'
      <3>1. granted' \in Tokens
        BY <2>1
      <3>2. session' \in [Sessions -> [step : LoginSteps, refresh : Tokens, answer : Tokens]]
        BY <2>1, <3>1
      <3> QED
        BY <1>4, <2>1, <3>1, <3>2 DEF PresentRefresh
    <2>2. ASSUME session' = [session EXCEPT ![s].step = "sent", ![s].answer = 0],
                 UNCHANGED <<granted, valid, stale>>
          PROVE  OAuthTypeOK'
      BY <1>4, <2>2 DEF PresentRefresh
    <2>3. ASSUME session' = [session EXCEPT ![s].refresh = 0], stale' = TRUE,
                 UNCHANGED <<granted, valid>>
          PROVE  OAuthTypeOK'
      BY <1>4, <2>3 DEF PresentRefresh
    <2> QED
      BY <1>4, <2>1, <2>2, <2>3 DEF PresentRefresh
  <1>5. ASSUME NEW s \in Sessions, StoreAnswer(s) \/ CarryForward(s)
        PROVE  OAuthTypeOK'
    <2>1. CASE StoreAnswer(s)
      <3>1. session[s].answer \in Tokens /\ session[s].refresh \in Tokens
        OBVIOUS
      <3>2. CASE session[s].answer = 0
        BY <2>1, <3>1, <3>2 DEF StoreAnswer
      <3>3. CASE session[s].answer # 0
        BY <2>1, <3>1, <3>3 DEF StoreAnswer
      <3> QED
        BY <3>2, <3>3
    <2>2. CASE CarryForward(s)
      <3>1. session[s].refresh \in Tokens
        OBVIOUS
      <3> QED
        BY <2>2, <3>1 DEF CarryForward
    <2> QED
      BY <1>5, <2>1, <2>2
  <1>6. ASSUME NEW s \in Sessions, EndSession(s) \/ EndProcess(s)
        PROVE  OAuthTypeOK'
    BY <1>6 DEF EndSession, EndProcess
  <1>7. CASE UNCHANGED oauthVars
    BY <1>7 DEF oauthVars
  <1> QED
    BY <1>1, <1>2, <1>3, <1>4, <1>5, <1>6, <1>7 DEF OAuthNext

(* The lock keeps every other session from being live.                     *)
LEMMA ExclusiveStep ==
  ASSUME OAuthTypeOK, Exclusive, [OAuthNext]_oauthVars
  PROVE  Exclusive'
  <1> USE DEF OAuthTypeOK, Exclusive, LoginSteps, Live, Is, To, state, miro
  <1>1. CASE Logout
    BY <1>1 DEF Logout
  <1>2. ASSUME NEW s \in Sessions, Wait(s) \/ AcquireFlowLock(s) \/ GiveUp(s) \/ CancelWaiting(s)
        PROVE  Exclusive'
    BY <1>2 DEF Wait, AcquireFlowLock, GiveUp, CancelWaiting
  <1>3. ASSUME NEW s \in Sessions, Initialize(s) \/ Authorize(s)
        PROVE  Exclusive'
    BY <1>3 DEF Initialize, Authorize
  <1>4. ASSUME NEW s \in Sessions, PresentRefresh(s)
        PROVE  Exclusive'
    BY <1>4 DEF PresentRefresh
  <1>5. ASSUME NEW s \in Sessions, StoreAnswer(s) \/ CarryForward(s)
        PROVE  Exclusive'
    BY <1>5 DEF StoreAnswer, CarryForward
  <1>6. ASSUME NEW s \in Sessions, EndSession(s) \/ EndProcess(s)
        PROVE  Exclusive'
    BY <1>6 DEF EndSession, EndProcess
  <1>7. CASE UNCHANGED oauthVars
    BY <1>7 DEF oauthVars
  <1> QED
    BY <1>1, <1>2, <1>3, <1>4, <1>5, <1>6, <1>7 DEF OAuthNext

(* Unless a refresh is interrupted, tokens stay good.                      *)
LEMMA TokensStep ==
  ASSUME LoginInv, [OAuthNext]_oauthVars, ~broken'
  PROVE  ~stale' /\ StoreGood' /\ \A s \in Sessions : SessionGood(s)'
  <1> DEFINE Goal == ~stale' /\ StoreGood' /\ \A s \in Sessions : SessionGood(s)'
  <1> SUFFICES Goal
    OBVIOUS
  <1>a. OAuthTypeOK /\ Exclusive
    BY DEF LoginInv
  <1>b. ~broken
    BY <1>a DEF OAuthNext, Logout, Wait, AcquireFlowLock, GiveUp, CancelWaiting, Initialize,
      Authorize, PresentRefresh, StoreAnswer, CarryForward, EndSession, EndProcess, oauthVars,
      miro, OAuthTypeOK
  <1>c. ~stale /\ StoreGood /\ \A s \in Sessions : SessionGood(s)
    BY <1>b DEF LoginInv
  <1>d. \A s, t \in Sessions : session[s].step \in Live /\ session[t].step \in Live => s = t
    BY <1>a DEF Exclusive
  <1> HIDE DEF Goal
  <1> USE <1>a, <1>c, <1>d DEF OAuthTypeOK, StoreGood, SessionGood, Live, Is, To, state, miro
  <1>1. CASE Logout
    BY <1>1 DEF Logout, Goal
  <1>2. ASSUME NEW s \in Sessions, Wait(s) \/ AcquireFlowLock(s) \/ GiveUp(s) \/ CancelWaiting(s)
        PROVE  Goal
    BY <1>2 DEF Wait, AcquireFlowLock, GiveUp, CancelWaiting, Goal
  <1>3. ASSUME NEW s \in Sessions, Initialize(s)
        PROVE  Goal
    BY <1>3 DEF Initialize, Goal
  <1>4. ASSUME NEW s \in Sessions, Authorize(s)
        PROVE  Goal
    BY <1>4 DEF Authorize, Goal
  <1>5. ASSUME NEW s \in Sessions, PresentRefresh(s)
        PROVE  Goal
    <2>1. session[s].refresh \in valid /\ Is(s, "open")
      BY <1>5 DEF PresentRefresh
    <2>2. \A t \in Sessions \ {s} : session'[t] = session[t] /\ session[t].step \notin Live
      BY <1>5 DEF PresentRefresh
    <2>3. stale' = stale /\ session'[s].step = "sent"
      BY <1>5, <2>1 DEF PresentRefresh
    <2>4. IF session'[s].answer = 0
          THEN session'[s].refresh \in valid' ELSE session'[s].answer \in valid'
      <3>1. CASE granted' = granted + 1 /\ valid' = (valid \ {session[s].refresh}) \cup {granted'}
                 /\ session' = [session EXCEPT ![s].step = "sent", ![s].answer = granted']
        <4>1. granted' # 0
          BY <3>1 DEF Tokens
        <4>2. session'[s].answer = granted'
          BY <3>1
        <4> QED
          BY <3>1, <4>1, <4>2
      <3>2. CASE valid' = valid
                 /\ session' = [session EXCEPT ![s].step = "sent", ![s].answer = 0]
        BY <2>1, <3>2
      <3> QED
        BY <1>5, <2>1, <3>1, <3>2 DEF PresentRefresh
    <2>5. StoreGood'
      BY <2>3
    <2>6. SessionGood(s)'
      BY <2>3, <2>4
    <2>7. ASSUME NEW t \in Sessions \ {s}
          PROVE  SessionGood(t)'
      BY <2>2, <2>7
    <2> QED
      BY <1>c, <2>3, <2>5, <2>6, <2>7 DEF Goal
  <1>6. ASSUME NEW s \in Sessions, StoreAnswer(s)
        PROVE  Goal
    BY <1>6 DEF StoreAnswer, Goal
  <1>7. ASSUME NEW s \in Sessions, CarryForward(s)
        PROVE  Goal
    BY <1>7 DEF CarryForward, Goal
  <1>8. ASSUME NEW s \in Sessions, EndSession(s)
        PROVE  Goal
    BY <1>8 DEF EndSession, Goal
  <1>9. ASSUME NEW s \in Sessions, EndProcess(s)
        PROVE  Goal
    BY <1>9 DEF EndProcess, Goal
  <1>10. CASE UNCHANGED oauthVars
    BY <1>10 DEF oauthVars, Goal
  <1> QED
    BY <1>1, <1>2, <1>3, <1>4, <1>5, <1>6, <1>7, <1>8, <1>9, <1>10 DEF OAuthNext

(* The invariant holds always, for any number of sessions and tokens.      *)
THEOREM LoginInvariance == OAuthSpec => []LoginInv
  <1>1. LoginInv /\ [OAuthNext]_oauthVars => LoginInv'
    <2>1. ASSUME LoginInv, [OAuthNext]_oauthVars
          PROVE  LoginInv'
      <3>1. OAuthTypeOK' /\ Exclusive'
        BY <2>1, LoginTypeStep, ExclusiveStep DEF LoginInv
      <3>2. ~broken' => (~stale /\ StoreGood /\ \A s \in Sessions : SessionGood(s))'
        BY <2>1, TokensStep
      <3> QED
        BY <3>1, <3>2 DEF LoginInv
    <2> QED
      BY <2>1
  <1> QED
    BY LoginInit, <1>1, PTL DEF OAuthSpec

(* As long as no refresh is interrupted, no session presents a used token, *)
(* and between sessions the stored one is accepted: the flow lock around   *)
(* whole sessions and the second write of an answer without refresh token  *)
(* keep the login, with any number of sessions, cancelled waits, processes *)
(* that end and logouts.                                                   *)
THEOREM LoginsAreKept == OAuthSpec => []LoginKept
  <1>1. LoginInv => LoginKept
    BY DEF LoginInv, LoginKept, StoreGood, Live
  <1> QED
    BY LoginInvariance, <1>1, PTL

-----------------------------------------------------------------------------
(* Evidence.  The capture that holds the lock writes a generation nobody   *)
(* else has made, and nothing else changes the store; so a generation that *)
(* has been current stays as it was published, and the manifest of the     *)
(* next one supersedes it.                                                 *)

CaptureWorking == {"observe", "directory", "write", "sync", "point"}
CaptureSteps == {"begin", "lock", "ended"} \cup CaptureWorking
Names == Seconds \cup {NoGeneration}

CaptureRuns == [step : CaptureSteps, observed : Seconds, previous : Names, file : 1..5]
Generations == [made : BOOLEAN, files : [1..4 -> FileStates], supersedes : Names]

EvidenceTypeOK ==
  /\ second \in Seconds
  /\ capture \in [Captures -> CaptureRuns]
  /\ lockedBy \subseteq Captures
  /\ generation \in [Seconds -> Generations]
  /\ current \in Names
  /\ attention \subseteq Seconds
  /\ published \subseteq Seconds

(* One capture at a time works, from the pointer it has read.              *)
OneWorks ==
  /\ \A c, d \in lockedBy : c = d
  /\ \A c \in Captures :
       capture[c].step \in CaptureWorking => c \in lockedBy /\ capture[c].previous = current

(* What the capture that works has written so far.                         *)
WrittenBy(c) ==
  LET own == generation[capture[c].observed]
  IN  /\ capture[c].step \in {"begin", "lock", "observe", "directory"} => capture[c].file = 1
      /\ capture[c].step \in {"write", "sync"} => capture[c].file <= 4
      /\ capture[c].step \in {"write", "sync", "point"} =>
           /\ own.made /\ capture[c].observed \notin published
           /\ \A i \in 1..4 : i < capture[c].file => own.files[i] = "whole"
      /\ On(c, "sync") /\ capture[c].file = 4 => own.supersedes = capture[c].previous
      /\ On(c, "point") => capture[c].file = 5 /\ own.supersedes = capture[c].previous

(* What has been current.                                                  *)
Kept ==
  /\ current # NoGeneration => current \in published
  /\ \A name \in published : generation[name].made
  /\ \A name \in published, i \in 1..4 : generation[name].files[i] = "whole"
  /\ \A name \in published :
       name = current \/ \E later \in published : generation[later].supersedes = name

EvidenceInv == EvidenceTypeOK /\ OneWorks /\ (\A c \in Captures : WrittenBy(c)) /\ Kept

LEMMA PartsAre == DOMAIN Parts = 1..4 /\ Len(Parts) = 4
                  /\ \A i \in 1..4 : Parts[i] = "manifest" <=> i = 4
  BY DEF Parts

(* Nothing has been captured at first.                                     *)
LEMMA EvidenceInitInv == EvidenceInit => EvidenceInv
  <1> SUFFICES ASSUME EvidenceInit PROVE EvidenceInv
    OBVIOUS
  <1> USE CaptureAssumption DEF EvidenceInit
  <1>1. EvidenceTypeOK
    <2>1. 0 \in Seconds /\ NoGeneration \in Names
      BY DEF Seconds, Names
    <2>2. capture \in [Captures -> CaptureRuns]
      BY <2>1 DEF CaptureRuns, CaptureSteps
    <2>3. NoFiles \in [1..4 -> FileStates]
      BY PartsAre DEF NoFiles, FileStates
    <2>4. generation \in [Seconds -> Generations]
      BY <2>1, <2>3 DEF Generations
    <2> QED
      BY <2>1, <2>2, <2>4 DEF EvidenceTypeOK
  <1>2. OneWorks /\ Kept
    BY DEF OneWorks, CaptureWorking, Kept
  <1>3. \A c \in Captures : WrittenBy(c)
    BY DEF WrittenBy, On
  <1> QED
    BY <1>1, <1>2, <1>3 DEF EvidenceInv

(* A capture that takes the lock reads the pointer; one that has not, or   *)
(* that ends, leaves the store alone.                                      *)
LEMMA OutsideStep ==
  ASSUME EvidenceInv, NEW c \in Captures,
         BeginCapture(c) \/ LockCapture(c) \/ Observe(c) \/ KillCapture(c)
  PROVE  EvidenceInv'
  <1> USE CaptureAssumption DEF EvidenceInv, On, Reach, Release, store
  <1>0. generation' = generation /\ current' = current /\ published' = published /\ second' = second
    BY DEF BeginCapture, LockCapture, Observe, KillCapture
  <1>1. \A d \in Captures \ {c} : capture'[d] = capture[d]
    BY DEF BeginCapture, LockCapture, Observe, KillCapture, EvidenceTypeOK
  <1>2. /\ capture'[c].step \in {"lock", "observe", "directory", "ended"}
        /\ capture'[c].file = capture[c].file
        /\ capture'[c].step # "ended" => capture[c].step \in {"begin", "lock", "observe"}
    BY DEF BeginCapture, LockCapture, Observe, KillCapture, EvidenceTypeOK, CaptureRuns
  <1>3. capture'[c].step \in {"observe", "directory"} =>
          lockedBy' = {c} /\ capture'[c].previous = current
    <2>1. CASE BeginCapture(c) \/ KillCapture(c)
      BY <2>1 DEF BeginCapture, KillCapture, EvidenceTypeOK, CaptureRuns
    <2>2. CASE LockCapture(c)
      BY <2>2 DEF LockCapture, EvidenceTypeOK, CaptureRuns
    <2>3. CASE Observe(c)
      <3>1. lockedBy = {c} /\ capture[c].previous = current
        BY <2>3 DEF Observe, OneWorks, CaptureWorking, EvidenceTypeOK
      <3> QED
        BY <2>3, <3>1 DEF Observe, EvidenceTypeOK, CaptureRuns
    <2> QED
      BY <2>1, <2>2, <2>3
  <1>4. EvidenceTypeOK'
    <2>1. capture' \in [Captures -> CaptureRuns]
      <3>1. CASE BeginCapture(c)
        BY <3>1 DEF BeginCapture, EvidenceTypeOK, CaptureRuns, CaptureSteps
      <3>2. CASE LockCapture(c)
        <4>1. \/ capture' = [capture EXCEPT ![c].step = "ended"]
              \/ capture' = [capture EXCEPT ![c].step = "observe", ![c].previous = current]
          BY <3>2 DEF LockCapture
        <4> QED
          BY <4>1 DEF EvidenceTypeOK, CaptureRuns, CaptureSteps, CaptureWorking
      <3>3. CASE Observe(c) \/ KillCapture(c)
        <4>1. PICK step \in {"directory", "ended"} : capture' = [capture EXCEPT ![c].step = step]
          BY <3>3 DEF Observe, KillCapture
        <4> QED
          BY <4>1 DEF EvidenceTypeOK, CaptureRuns, CaptureSteps, CaptureWorking
      <3> QED
        BY <3>1, <3>2, <3>3
    <2>2. lockedBy' \subseteq Captures
      BY DEF BeginCapture, LockCapture, Observe, KillCapture, EvidenceTypeOK
    <2>3. attention' \subseteq Seconds
      BY DEF BeginCapture, LockCapture, Observe, KillCapture, EvidenceTypeOK, CaptureRuns
    <2> QED
      BY <1>0, <2>1, <2>2, <2>3 DEF EvidenceTypeOK
  <1>5. OneWorks'
    <2>1. \A d \in Captures \ {c} : capture[d].step \in CaptureWorking => d \in lockedBy'
      BY DEF BeginCapture, LockCapture, Observe, KillCapture, OneWorks, CaptureWorking, EvidenceTypeOK
    <2>2. \A d, e \in lockedBy' : d = e
      BY DEF BeginCapture, LockCapture, Observe, KillCapture, OneWorks
    <2> QED
      BY <1>0, <1>1, <1>2, <1>3, <2>1, <2>2 DEF OneWorks, CaptureWorking
  <1>6. \A d \in Captures : WrittenBy(d)'
    <2>1. WrittenBy(c)'
      BY <1>2 DEF WrittenBy
    <2>2. ASSUME NEW d \in Captures \ {c}
          PROVE  WrittenBy(d)'
      BY <1>0, <1>1, <2>2 DEF WrittenBy
    <2> QED
      BY <2>1, <2>2
  <1>7. Kept'
    BY <1>0 DEF Kept
  <1> QED
    BY <1>4, <1>5, <1>6, <1>7

(* While one capture works, the others do not.                             *)
LEMMA Alone ==
  ASSUME EvidenceInv, NEW c \in Captures, capture[c].step \in CaptureWorking
  PROVE  /\ lockedBy = {c} /\ capture[c].previous = current
         /\ \A d \in Captures \ {c} : capture[d].step \notin CaptureWorking
  BY DEF EvidenceInv, OneWorks, EvidenceTypeOK

(* The capture that works writes its own generation only, and points to it *)
(* when all of it is written.                                              *)
LEMMA WorkStep ==
  ASSUME EvidenceInv, NEW c \in Captures,
         MakeDirectory(c) \/ WriteFile(c) \/ SyncFile(c) \/ Point(c)
  PROVE  EvidenceInv'
  <1> USE CaptureAssumption DEF EvidenceInv, On, Reach, Release
  <1> DEFINE own == capture[c].observed
             nth == capture[c].file
  <1>0. capture[c].step \in CaptureWorking \ {"observe"} /\ second' = second /\ attention' = attention
    BY DEF MakeDirectory, WriteFile, SyncFile, Point, CaptureWorking
  <1>1. /\ lockedBy = {c} /\ capture[c].previous = current
        /\ \A d \in Captures \ {c} : capture[d].step \notin CaptureWorking
    BY <1>0, Alone
  <1>2. own \in Seconds /\ nth \in 1..5 /\ capture[c] \in CaptureRuns /\ current \in Names
    BY DEF EvidenceTypeOK, CaptureRuns
  <1>3. capture' \in [Captures -> CaptureRuns] /\ \A d \in Captures \ {c} : capture'[d] = capture[d]
    <2>1. \/ \E step \in {"write", "sync", "ended"} : capture' = [capture EXCEPT ![c].step = step]
          \/ /\ nth <= 4
             /\ \E step \in {"write", "point"} :
                   capture' = [capture EXCEPT ![c].file = @ + 1, ![c].step = step]
      BY DEF MakeDirectory, WriteFile, SyncFile, Point, WrittenBy
    <2>2. ASSUME NEW step \in {"write", "sync", "ended"}, capture' = [capture EXCEPT ![c].step = step]
          PROVE  capture' \in [Captures -> CaptureRuns]
      BY <2>2 DEF EvidenceTypeOK, CaptureRuns, CaptureSteps, CaptureWorking
    <2>3. ASSUME nth <= 4, NEW step \in {"write", "point"},
                 capture' = [capture EXCEPT ![c].file = @ + 1, ![c].step = step]
          PROVE  capture' \in [Captures -> CaptureRuns]
      <3>1. nth + 1 \in 1..5
        BY <1>2, <2>3
      <3> QED
        BY <2>3, <3>1 DEF EvidenceTypeOK, CaptureRuns, CaptureSteps, CaptureWorking
    <2> QED
      BY <2>1, <2>2, <2>3 DEF EvidenceTypeOK
  <1>4. \A d \in Captures \ {c} : WrittenBy(d)'
    BY <1>1, <1>3 DEF WrittenBy, CaptureWorking
  <1>5. ASSUME generation' = generation \/ \E g \in Generations : generation' = [generation EXCEPT ![own] = g],
               own \notin published, current' = current, published' = published
        PROVE  /\ generation' \in [Seconds -> Generations]
               /\ Kept'
    <2>1. generation' \in [Seconds -> Generations]
      BY <1>2, <1>5 DEF EvidenceTypeOK
    <2>2. \A name \in published : generation'[name] = generation[name]
      BY <1>5 DEF EvidenceTypeOK
    <2> QED
      BY <1>5, <2>1, <2>2 DEF Kept
  <1>6. ASSUME capture'[c].step = "ended", lockedBy' = {}, current' = current
        PROVE  OneWorks' /\ WrittenBy(c)'
    BY <1>1, <1>3, <1>6 DEF OneWorks, WrittenBy, CaptureWorking
  <1>7. ASSUME capture'[c].step \in CaptureWorking, lockedBy' = lockedBy, current' = current,
               capture'[c].previous = capture[c].previous
        PROVE  OneWorks'
    BY <1>1, <1>3, <1>7 DEF OneWorks
  <1>8. CASE MakeDirectory(c)
    <2>1. current' = current /\ published' = published
      BY <1>8 DEF MakeDirectory
    <2>2. CASE generation[own].made
      <3>1. generation' = generation /\ capture'[c].step = "ended" /\ lockedBy' = {}
        BY <1>8, <2>2 DEF MakeDirectory, EvidenceTypeOK, CaptureRuns
      <3> QED
        BY <1>0, <1>3, <1>4, <1>6, <2>1, <3>1 DEF EvidenceTypeOK, Kept
    <2>3. CASE ~generation[own].made
      <3>1. generation' = [generation EXCEPT ![own].made = TRUE] /\ lockedBy' = lockedBy
            /\ capture' = [capture EXCEPT ![c].step = "write"]
        BY <1>8, <2>3 DEF MakeDirectory
      <3>2. own \notin published
        BY <2>3 DEF Kept
      <3>3. generation[own] \in Generations
        BY <1>2 DEF EvidenceTypeOK
      <3>4. [generation[own] EXCEPT !.made = TRUE] \in Generations
            /\ generation' = [generation EXCEPT ![own] = [generation[own] EXCEPT !.made = TRUE]]
        BY <3>1, <3>3 DEF Generations
      <3>5. capture'[c].step = "write" /\ capture'[c].file = 1 /\ capture'[c].observed = own
            /\ capture'[c].previous = capture[c].previous
        BY <1>2, <1>8, <3>1 DEF MakeDirectory, WrittenBy, EvidenceTypeOK, CaptureRuns
      <3>6. WrittenBy(c)'
        <4>1. generation'[own].made
          BY <1>2, <3>3, <3>4 DEF EvidenceTypeOK, Generations
        <4> QED
          BY <2>1, <3>2, <3>5, <4>1 DEF WrittenBy
      <3>7. OneWorks'
        BY <1>7, <2>1, <3>1, <3>5 DEF CaptureWorking
      <3> QED
        BY <1>0, <1>3, <1>4, <1>5, <2>1, <3>1, <3>2, <3>4, <3>6, <3>7 DEF EvidenceTypeOK
    <2> QED
      BY <2>2, <2>3
  <1>9. CASE WriteFile(c)
    <2>1. current' = current /\ published' = published /\ own \notin published /\ nth \in 1..4
          /\ generation[own].made /\ \A i \in 1..4 : i < nth => generation[own].files[i] = "whole"
      <3>1. On(c, "write") /\ WrittenBy(c) /\ current' = current /\ published' = published
        BY <1>9 DEF WriteFile
      <3> QED
        BY <1>2, <3>1 DEF WrittenBy
    <2>2. CASE generation' = generation /\ capture' = [capture EXCEPT ![c].step = "ended"] /\ lockedBy' = {}
      <3>1. capture'[c].step = "ended"
        BY <2>2 DEF EvidenceTypeOK, CaptureRuns
      <3> QED
        BY <1>0, <1>3, <1>4, <1>6, <2>1, <2>2, <3>1 DEF EvidenceTypeOK, Kept
    <2>3. CASE /\ generation' = [generation EXCEPT ![own].files[nth] = "part",
                     ![own].supersedes = IF Parts[nth] = "manifest" THEN capture[c].previous ELSE @]
               /\ capture' = [capture EXCEPT ![c].step = "sync"] /\ lockedBy' = lockedBy
      <3> DEFINE made == [generation[own] EXCEPT !.files[nth] = "part",
                            !.supersedes = IF Parts[nth] = "manifest" THEN current ELSE @]
      <3>1. generation[own] \in Generations
        BY <1>2 DEF EvidenceTypeOK
      <3>2. made \in Generations
        BY <1>2, <2>1, <3>1 DEF Generations, FileStates
      <3>3. generation' = [generation EXCEPT ![own] = made]
        BY <1>1, <1>2, <2>3 DEF EvidenceTypeOK, Generations
      <3>4. capture'[c].step = "sync" /\ capture'[c].file = nth /\ capture'[c].observed = own
            /\ capture'[c].previous = current
        BY <1>1, <2>3 DEF EvidenceTypeOK, CaptureRuns
      <3>5. WrittenBy(c)'
        <4>1. generation'[own] = made
          BY <1>2, <3>3 DEF EvidenceTypeOK
        <4>2. made.made /\ (nth = 4 => made.supersedes = current)
              /\ \A i \in 1..4 : i < nth => made.files[i] = "whole"
          BY <2>1, <3>1, PartsAre DEF Generations
        <4> QED
          BY <2>1, <3>4, <4>1, <4>2 DEF WrittenBy
      <3>6. OneWorks'
        BY <1>1, <1>7, <2>1, <2>3, <3>4 DEF CaptureWorking
      <3> QED
        BY <1>0, <1>3, <1>4, <1>5, <2>1, <2>3, <3>2, <3>3, <3>5, <3>6 DEF EvidenceTypeOK
    <2> QED
      BY <1>9, <2>2, <2>3 DEF WriteFile
  <1>10. CASE SyncFile(c)
    <2>1. current' = current /\ published' = published /\ own \notin published /\ nth \in 1..4
          /\ generation[own].made /\ (\A i \in 1..4 : i < nth => generation[own].files[i] = "whole")
          /\ (nth = 4 => generation[own].supersedes = current)
      BY <1>1, <1>2, <1>10 DEF SyncFile, WrittenBy
    <2>2. generation[own] \in Generations
      BY <1>2 DEF EvidenceTypeOK
    <2>3. CASE /\ generation' = [generation EXCEPT ![own].files[nth] = "none"]
               /\ capture' = [capture EXCEPT ![c].step = "ended"] /\ lockedBy' = {}
      <3>1. capture'[c].step = "ended"
        BY <2>3 DEF EvidenceTypeOK, CaptureRuns
      <3>2. [generation[own] EXCEPT !.files[nth] = "none"] \in Generations
            /\ generation' = [generation EXCEPT ![own] = [generation[own] EXCEPT !.files[nth] = "none"]]
        BY <1>2, <2>1, <2>2, <2>3 DEF Generations, FileStates, EvidenceTypeOK
      <3> QED
        BY <1>0, <1>3, <1>4, <1>5, <1>6, <2>1, <2>3, <3>1, <3>2 DEF EvidenceTypeOK
    <2>4. CASE /\ generation' = [generation EXCEPT ![own].files[nth] = "whole"]
               /\ capture' = [capture EXCEPT ![c].file = @ + 1,
                                ![c].step = IF nth = Len(Parts) THEN "point" ELSE "write"]
               /\ lockedBy' = lockedBy
      <3> DEFINE made == [generation[own] EXCEPT !.files[nth] = "whole"]
      <3>1. made \in Generations
        BY <1>2, <2>1, <2>2 DEF Generations, FileStates
      <3>2. generation' = [generation EXCEPT ![own] = made]
        BY <1>2, <2>4 DEF EvidenceTypeOK, Generations
      <3>3. capture'[c].step = (IF nth = 4 THEN "point" ELSE "write")
            /\ capture'[c].file = nth + 1 /\ capture'[c].observed = own
            /\ capture'[c].previous = current
        BY <1>1, <2>4, PartsAre DEF EvidenceTypeOK, CaptureRuns
      <3>4. WrittenBy(c)'
        <4>1. generation'[own] = made
          BY <1>2, <3>2 DEF EvidenceTypeOK
        <4>2. made.made /\ made.supersedes = generation[own].supersedes
              /\ \A i \in 1..4 : i < nth + 1 => made.files[i] = "whole"
          BY <2>1, <2>2 DEF Generations
        <4> QED
          BY <2>1, <3>3, <4>1, <4>2 DEF WrittenBy
      <3>5. OneWorks'
        BY <1>1, <1>7, <2>1, <2>4, <3>3 DEF CaptureWorking
      <3> QED
        BY <1>0, <1>3, <1>4, <1>5, <2>1, <2>4, <3>1, <3>2, <3>4, <3>5 DEF EvidenceTypeOK
    <2> QED
      BY <1>10, <2>3, <2>4 DEF SyncFile
  <1>11. CASE Point(c)
    <2>1. generation' = generation /\ capture'[c].step = "ended" /\ lockedBy' = {}
      BY <1>11 DEF Point, EvidenceTypeOK, CaptureRuns
    <2>2. OneWorks' /\ WrittenBy(c)'
      BY <1>1, <1>3, <2>1 DEF OneWorks, WrittenBy, CaptureWorking
    <2>3. CASE UNCHANGED <<current, published>>
      BY <1>0, <1>3, <1>4, <2>1, <2>2, <2>3 DEF EvidenceTypeOK, Kept
    <2>4. CASE current' = own /\ published' = published \cup {own}
      <3>1. generation[own].made /\ generation[own].supersedes = current
            /\ \A i \in 1..4 : generation[own].files[i] = "whole"
        BY <1>1, <1>11 DEF Point, WrittenBy
      <3>2. Kept'
        BY <2>1, <2>4, <3>1 DEF Kept
      <3> QED
        BY <1>0, <1>2, <1>3, <1>4, <2>1, <2>2, <2>4, <3>2 DEF EvidenceTypeOK, Names
    <2> QED
      BY <1>11, <2>3, <2>4 DEF Point
  <1> QED
    BY <1>8, <1>9, <1>10, <1>11

(* The invariant holds always, for any captures, lifetimes and kills.      *)
THEOREM EvidenceInvariance == EvidenceSpec => []EvidenceInv
  <1>1. ASSUME EvidenceInv, [EvidenceNext]_evidenceVars
        PROVE  EvidenceInv'
    <2>1. CASE PassSecond
      BY <1>1, <2>1, CaptureAssumption
         DEF PassSecond, store, EvidenceInv, EvidenceTypeOK, OneWorks, WrittenBy, Kept, On, Seconds
    <2>2. ASSUME NEW c \in Captures,
                 \/ BeginCapture(c) \/ LockCapture(c) \/ Observe(c) \/ MakeDirectory(c)
                 \/ WriteFile(c) \/ SyncFile(c) \/ Point(c) \/ KillCapture(c)
          PROVE  EvidenceInv'
      BY <1>1, <2>2, OutsideStep, WorkStep
    <2>3. CASE UNCHANGED evidenceVars
      BY <1>1, <2>3 DEF evidenceVars, EvidenceInv, EvidenceTypeOK, OneWorks, WrittenBy, Kept, On
    <2> QED
      BY <1>1, <2>1, <2>2, <2>3 DEF EvidenceNext
  <1> QED
    BY EvidenceInitInv, <1>1, PTL DEF EvidenceSpec

(* Whoever reads current.json finds a whole generation, from which every   *)
(* earlier one can be reached, with any number of captures, by timer and   *)
(* by hand, killed anywhere.                                               *)
THEOREM EvidenceIsChained == EvidenceSpec => []EvidenceChained
  <1>1. EvidenceInv => EvidenceChained
    BY PartsAre DEF EvidenceInv, Kept, EvidenceChained, Whole
  <1> QED
    BY EvidenceInvariance, <1>1, PTL

-----------------------------------------------------------------------------
(* Managed images.  A run between its first inventory and its receipt has  *)
(* the board's locks, so that nobody but people works on the board while   *)
(* it does; and an image that is gone never comes back, since new images   *)
(* have new numbers.                                                       *)

ImageTypeOK ==
  /\ board \in [Items -> {"none", "placed", "moved"}]
  /\ last \in Items
  /\ file \in [Files -> [item : 0..MaxItems, src : {OldSource} \cup {Source[r] : r \in Replacing}]]
  /\ receipt \in [Runs -> Statuses]
  /\ run \in [Runs -> [step : Steps, old : 0..MaxItems, new : 0..MaxItems, before : Nat]]
  /\ holder \subseteq Runs /\ touched \subseteq Items /\ edits \in Nat

Unseen == {"start", "lock", "inventory"}
InLock(r) == run[r].step \in Working \cup {"identity", "receipt"}

(* The images a run works on have numbers of the asset, and its own image  *)
(* is newer than the one it replaces.                                      *)
Numbered(r) ==
  /\ run[r].step # "start" => run[r].old \in Lineage
  /\ run[r].step \in Unseen \cup {"create"} => run[r].new = 0
  /\ run[r].old <= last /\ run[r].new <= last
  /\ run[r].new # 0 => run[r].new # run[r].old
  /\ r \in Deleting =>
       /\ run[r].new = 0
       /\ run[r].step \notin {"create", "stage", "compensate", "recheck", "identity"}
       /\ run[r].step \in {"delete", "confirm", "verify", "receipt"} => run[r].before # 0

Numbers ==
  /\ \A i \in Items : i > last => board[i] = "none"
  /\ \A r \in Runs : Numbered(r)
  /\ \A r, s \in Runs : r # s /\ run[r].new # 0 => run[r].new # run[s].new
  /\ \A f \in Files : file[f].item = 0 \/ file[f].item \in Lineage

BoardLocked == \A r \in Runs : InLock(r) => holder = {r}

(* An image is in place as far as the runs know.                           *)
Safe(i) == i \in Items /\ (board[i] = "placed" \/ i \in touched)
NewThere(r) == Safe(run[r].new) \/ Later(run[r].new, r)

(* What a run has read is so, and its receipt says no more than it read.   *)
RunTrue(r) ==
  /\ receipt[r] # "none" => run[r].step = "done"
  /\ r \in Replacing =>
       /\ run[r].step \in {"create", "stage", "compensate", "recheck", "delete"} => Safe(run[r].old)
       /\ run[r].step \in {"stage", "compensate", "recheck"} => run[r].new # 0
       /\ run[r].step \in {"delete", "confirm", "verify"} => Safe(run[r].new)
       /\ run[r].step \in {"identity", "receipt"} \/ receipt[r] = "verified" => run[r].new # 0 /\ NewThere(r)
       /\ run[r].step = "receipt" \/ receipt[r] = "verified" => file[Output[r]].item = run[r].new
       /\ receipt[r] = "failed" => run[r].new \notin Present \/ run[r].old \notin Present
  /\ run[r].step \in {"verify", "identity", "receipt"} \/ receipt[r] = "verified" =>
       run[r].old \notin Present

(* Two runs never work on the same image once one of them has seen it gone.*)
SawGone(r) == run[r].step \in {"verify", "identity", "receipt"} \/ receipt[r] = "verified"
SawPlaced(r) == (InLock(r) /\ run[r].step # "inventory") \/ receipt[r] = "verified"
Apart == \A r, s \in Runs : r # s /\ SawGone(r) /\ SawPlaced(s) => run[r].old # run[s].old

AssetSafe ==
  \/ \E i \in Lineage : Safe(i)
  \/ \E r \in Deleting : run[r].before # 0

ImageInv ==
  /\ ImageTypeOK
  /\ Numbers
  /\ BoardLocked
  /\ \A r \in Runs : RunTrue(r)
  /\ Apart
  /\ AssetSafe

(* At first the one image of the asset is in its place.                    *)
LEMMA ImageInitInv == ImageInit => ImageInv
  <1> SUFFICES ASSUME ImageInit PROVE ImageInv
    OBVIOUS
  <1> USE ImageAssumption DEF ImageInit
  <1>1. ImageTypeOK
    <2>1. NoFile \in [item : 0..MaxItems, src : {OldSource} \cup {Source[r] : r \in Replacing}]
      BY DEF NoFile
    <2>2. [item |-> 1, src |-> OldSource] \in [item : 0..MaxItems, src : {OldSource} \cup {Source[r] : r \in Replacing}]
      OBVIOUS
    <2>3. file \in [Files -> [item : 0..MaxItems, src : {OldSource} \cup {Source[r] : r \in Replacing}]]
      BY <2>1, <2>2
    <2>4. Waiting \in [step : Steps, old : 0..MaxItems, new : 0..MaxItems, before : Nat]
      BY DEF Waiting, Steps
    <2> QED
      BY <2>3, <2>4 DEF ImageTypeOK, Items, Statuses
  <1>2. \A r \in Runs : run[r].step = "start" /\ run[r].old = 0 /\ run[r].new = 0 /\ receipt[r] = "none"
    BY DEF Waiting
  <1>3. Numbers
    <2>1. \A r \in Runs : Numbered(r)
      BY <1>2 DEF Numbered, Unseen
    <2> QED
      BY <1>2, <2>1 DEF Numbers, Items, Lineage, NoFile
  <1>4. BoardLocked /\ Apart /\ \A r \in Runs : RunTrue(r)
    BY <1>2 DEF BoardLocked, Apart, RunTrue, InLock, Working, SawGone, SawPlaced
  <1>5. AssetSafe
    BY DEF AssetSafe, Safe, Lineage, Items
  <1> QED
    BY <1>1, <1>3, <1>4, <1>5 DEF ImageInv

(* Only an image that is on the board is counted.                          *)
LEMMA PresentCounted ==
  ASSUME ImageTypeOK
  PROVE  /\ Cardinality(Present) \in Nat
         /\ \A i \in Present : Cardinality(Present) # 0
  <1>1. IsFiniteSet(Items)
    BY FS_Interval, ImageAssumption DEF Items
  <1>2. IsFiniteSet(Present)
    BY <1>1, FS_Subset DEF Present
  <1> QED
    BY <1>2, FS_CardinalityType, FS_EmptySet

(* The steps of the runs and of people keep the types.                     *)
LEMMA ImageTypes ==
  ASSUME ImageTypeOK, [ImageNext]_imageVars
  PROVE  ImageTypeOK'
  <1> DEFINE Row == [step : Steps, old : 0..MaxItems, new : 0..MaxItems, before : Nat]
             Identity == [item : 0..MaxItems, src : {OldSource} \cup {Source[r] : r \in Replacing}]
             Places == {"none", "placed", "moved"}
  <1>0. /\ board \in [Items -> Places] /\ file \in [Files -> Identity] /\ run \in [Runs -> Row]
        /\ receipt \in [Runs -> Statuses] /\ last \in Items /\ holder \subseteq Runs
        /\ touched \subseteq Items /\ edits \in Nat
    BY DEF ImageTypeOK
  <1>g. SUFFICES /\ board' \in [Items -> Places] /\ file' \in [Files -> Identity] /\ run' \in [Runs -> Row]
                 /\ receipt' \in [Runs -> Statuses] /\ last' \in Items /\ holder' \subseteq Runs
                 /\ touched' \subseteq Items /\ edits' \in Nat
    BY DEF ImageTypeOK
  <1>1. ASSUME NEW r \in Runs, NEW step \in Steps, Goto(r, step)
        PROVE  run' \in [Runs -> Row]
    <2>1. run[r] \in Row
      BY <1>0
    <2>2. [run[r] EXCEPT !.step = step] \in Row
      BY <2>1
    <2> QED
      BY <1>0, <1>1, <2>2 DEF Goto
  <1>2. ASSUME NEW r \in Runs, NEW status \in Statuses, End(r, status)
        PROVE  run' \in [Runs -> Row] /\ receipt' \in [Runs -> Statuses] /\ holder' \subseteq Runs
    <2>1. run' \in [Runs -> Row]
      BY <1>1, <1>2 DEF End, Goto, Steps
    <2>2. "none" \in Statuses
      BY DEF Statuses
    <2> QED
      BY <1>0, <1>2, <2>1, <2>2 DEF End
  <1>3. \A i \in Items : Removed(i) \in [Items -> Places]
    BY <1>0 DEF Removed
  <1>4. ASSUME NEW r \in Runs, Step(r) \/ Cancel(r) \/ LoseSession(r) \/ Kill(r)
        PROVE  /\ board' \in [Items -> Places] /\ file' \in [Files -> Identity] /\ run' \in [Runs -> Row]
               /\ receipt' \in [Runs -> Statuses] /\ last' \in Items /\ holder' \subseteq Runs
               /\ touched' \subseteq Items /\ edits' \in Nat
    <2>0. run[r].old \in 0..MaxItems /\ run[r].new \in 0..MaxItems
      BY <1>0
    <2>s. /\ {"start", "lock", "inventory", "create", "stage", "compensate", "recheck", "delete",
              "confirm", "verify", "identity", "receipt", "done"} \subseteq Steps
          /\ {"none", "verified", "failed", "broken", "manual"} \subseteq Statuses
      BY DEF Steps, Statuses
    <2>r. \A i : Removed(i) \in [Items -> Places]
      BY <1>0 DEF Removed
    <2>1. CASE Start(r)
      <3>1. PICK f \in Files : run' = [run EXCEPT ![r].step = "lock", ![r].old = file[f].item]
        BY <2>1 DEF Start
      <3>2. [run[r] EXCEPT !.step = "lock", !.old = file[f].item] \in Row
        BY <1>0, <2>s
      <3>3. run' \in [Runs -> Row]
        BY <1>0, <3>1, <3>2
      <3> QED
        BY <1>0, <2>1, <3>3 DEF Start, people
    <2>2. CASE Lock(r)
      BY <1>0, <1>1, <2>s, <2>2 DEF Lock, people
    <2>3. CASE Inventory(r)
      <3>1. ASSUME NEW step \in Steps, run' = [run EXCEPT ![r].step = step, ![r].before = Cardinality(Present)]
            PROVE  run' \in [Runs -> Row]
        <4>1. [run[r] EXCEPT !.step = step, !.before = Cardinality(Present)] \in Row
          BY <1>0, PresentCounted
        <4> QED
          BY <1>0, <3>1, <4>1
      <3> QED
        BY <1>0, <1>2, <2>s, <2>3, <3>1 DEF Inventory, people
    <2>4. CASE Create(r)
      <3>1. last < MaxItems => last + 1 \in Items
        BY <1>0, ImageAssumption DEF Items
      <3>2. ASSUME NEW p \in {"placed", "moved"}, last' = last + 1, board' = [board EXCEPT ![last'] = p]
            PROVE  board' \in [Items -> Places]
        BY <1>0, <3>2
      <3>3. ASSUME last' = last + 1, last < MaxItems, run' = [run EXCEPT ![r].step = "stage", ![r].new = last']
            PROVE  run' \in [Runs -> Row]
        <4>1. last' \in 0..MaxItems
          BY <1>0, <3>3, ImageAssumption DEF Items
        <4>2. [run[r] EXCEPT !.step = "stage", !.new = last'] \in Row
          BY <1>0, <2>s, <4>1
        <4> QED
          BY <1>0, <3>3, <4>2
      <3> QED
        BY <1>0, <1>2, <2>s, <2>4, <3>1, <3>2, <3>3 DEF Create, people
    <2>5. CASE Stage(r)
      BY <1>0, <1>1, <2>s, <2>5 DEF Stage, people
    <2>6. CASE Compensate(r)
      BY <1>0, <1>1, <1>2, <2>s, <2>r, <2>6 DEF Compensate, people
    <2>7. CASE Recheck(r)
      BY <1>0, <1>2, <2>s, <2>7 DEF Recheck, people
    <2>8. CASE Delete(r)
      BY <1>0, <1>1, <1>2, <2>s, <2>r, <2>8 DEF Delete, people
    <2>9. CASE Confirm(r)
      BY <1>0, <1>1, <1>2, <2>s, <2>9 DEF Confirm, people
    <2>10. CASE Verify(r)
      BY <1>0, <1>1, <1>2, <2>s, <2>10 DEF Verify, ReadBack
    <2>11. CASE r \in Replacing /\ PublishIdentity(r)
      <3>1. [item |-> run[r].new, src |-> Source[r]] \in Identity
        BY <2>0, <2>11
      <3>2. file' \in [Files -> Identity]
        BY <1>0, <2>11, <3>1 DEF PublishIdentity
      <3>3. run' \in [Runs -> Row] /\ receipt' \in [Runs -> Statuses] /\ holder' \subseteq Runs
        BY <1>0, <1>1, <1>2, <2>s, <2>11 DEF PublishIdentity
      <3> QED
        BY <1>0, <2>11, <3>2, <3>3 DEF PublishIdentity, people
    <2>12. CASE PublishReceipt(r)
      BY <1>0, <1>2, <2>s, <2>12 DEF PublishReceipt, people
    <2>13. CASE Cancel(r) \/ LoseSession(r)
      BY <1>0, <1>2, <2>s, <2>13 DEF Cancel, LoseSession, people
    <2>14. CASE Kill(r)
      BY <1>0, <1>1, <2>s, <2>14 DEF Kill, people
    <2> QED
      BY <1>4, <2>1, <2>2, <2>3, <2>4, <2>5, <2>6, <2>7, <2>8, <2>9, <2>10, <2>11, <2>12, <2>13, <2>14
         DEF Step
  <1>5. CASE Edit
    <2>1. edits' \in Nat /\ touched' \subseteq Items
      BY <1>0, <1>5 DEF Edit, Present
    <2>2. last' \in Items
      BY <1>0, <1>5, ImageAssumption DEF Edit, Items
    <2>3. board' \in [Items -> Places]
      BY <1>0, <1>5 DEF Edit
    <2> QED
      BY <1>0, <1>5, <2>1, <2>2, <2>3 DEF Edit
  <1>6. CASE UNCHANGED imageVars
    BY <1>0, <1>6 DEF imageVars, people
  <1> QED
    BY <1>4, <1>5, <1>6 DEF ImageNext

(* What no step does: bring an image back, or change an identity file.     *)
Forward ==
  /\ last' \in {last, last + 1}
  /\ \A i \in Items : i > last' => board'[i] = "none"
  /\ \A i \in 0..last : i \notin Present => i \notin Present'
  /\ \A f \in Files : file[f].item # 0 => file'[f] = file[f]

(* The image a step of run r may take off the board: its own new one, or   *)
(* its old one.                                                            *)
Removes(r, i) ==
  \/ r \in Replacing /\ run[r].step = "compensate" /\ i = run[r].new
  \/ run[r].step = "delete" /\ i = run[r].old

(* What a step of run r does to the rest.                                  *)
Moves(r) ==
  /\ Forward
  /\ \A s \in Runs \ {r} : run'[s] = run[s] /\ receipt'[s] = receipt[s]
  /\ run[r].step # "start" => run'[r].step # "start" /\ run'[r].old = run[r].old
  /\ run[r].step \notin Unseen => run'[r].step \notin Unseen
  /\ \/ run'[r].new = run[r].new
     \/ run[r].step = "create" /\ last' = last + 1 /\ run'[r].new = last'
  /\ \A i : Safe(i) => Safe(i)' \/ Removes(r, i)

(* Every step of a run moves like that.                                    *)
LEMMA RunMoves ==
  ASSUME ImageInv, NEW r \in Runs, Step(r) \/ Cancel(r) \/ LoseSession(r) \/ Kill(r)
  PROVE  Moves(r)
  <1> DEFINE Row == [step : Steps, old : 0..MaxItems, new : 0..MaxItems, before : Nat]
             Places == {"none", "placed", "moved"}
             Quiet == UNCHANGED <<board, last, touched>>
             Filed == \A f \in Files : file[f].item # 0 => file'[f] = file[f]
             Apiece == /\ \A s \in Runs \ {r} : run'[s] = run[s] /\ receipt'[s] = receipt[s]
                       /\ run'[r].step # "start" /\ run'[r].old = run[r].old
                       /\ run[r].step \notin Unseen => run'[r].step \notin Unseen
  <1>0. /\ board \in [Items -> Places] /\ run \in [Runs -> Row] /\ receipt \in [Runs -> Statuses]
        /\ last \in Items /\ touched \subseteq Items
    BY DEF ImageInv, ImageTypeOK
  <1>b. \A i \in Items : i > last => board[i] = "none"
    BY DEF ImageInv, Numbers
  <1>1. ASSUME NEW step \in Steps \ Unseen, Goto(r, step) /\ UNCHANGED receipt
        PROVE  Apiece /\ run'[r].new = run[r].new
    BY <1>0, <1>1 DEF Goto, Unseen
  <1>2. ASSUME NEW status \in Statuses, End(r, status)
        PROVE  Apiece /\ run'[r].new = run[r].new
    BY <1>0, <1>2 DEF End, Unseen, Statuses
  <1>s. /\ {"create", "stage", "compensate", "recheck", "delete",
            "confirm", "verify", "identity", "receipt", "done"} \subseteq Steps \ Unseen
        /\ {"none", "verified", "failed", "broken", "manual"} \subseteq Statuses
    BY DEF Steps, Statuses, Unseen
  <1>q. ASSUME Quiet PROVE /\ Forward \/ ~Filed
                           /\ \A i : Safe(i) => Safe(i)'
    BY <1>0, <1>b, <1>q DEF Forward, Present, Safe
  <1>h. ASSUME NEW x, board' \in {board, Removed(x)}, UNCHANGED <<last, touched>>, Filed
        PROVE  Forward /\ \A i : Safe(i) => Safe(i)' \/ i = x
    BY <1>0, <1>b, <1>h DEF Forward, Present, Safe, Removed
  <1> HIDE DEF Row, Places, Apiece
  <1>3. ASSUME Apiece, run'[r].new = run[r].new, Forward, \A i : Safe(i) => Safe(i)' \/ Removes(r, i)
        PROVE  Moves(r)
    BY <1>3 DEF Moves, Apiece
  <1>4. ASSUME Apiece, run'[r].new = run[r].new, Quiet, UNCHANGED file
        PROVE  Moves(r)
    BY <1>3, <1>4, <1>q
  <1>5. CASE Start(r)
    <2>1. PICK f \in Files : run' = [run EXCEPT ![r].step = "lock", ![r].old = file[f].item]
      BY <1>5 DEF Start
    <2>2. run[r].step = "start" /\ run'[r].new = run[r].new /\ UNCHANGED <<board, last, touched, file, receipt>>
          /\ \A s \in Runs \ {r} : run'[s] = run[s]
      BY <1>0, <1>5, <2>1 DEF Start, people, At, Row
    <2> QED
      BY <1>q, <2>2 DEF Moves, Unseen
  <1>6. CASE Lock(r)
    <2>1. run'[r].step \in {"inventory", "done"} /\ run'[r].old = run[r].old /\ run'[r].new = run[r].new
          /\ (\A s \in Runs \ {r} : run'[s] = run[s]) /\ run[r].step = "lock"
      BY <1>0, <1>6 DEF Lock, Goto, At, Row
    <2> QED
      BY <1>4, <1>6, <2>1 DEF Lock, people, Apiece, Unseen
  <1>7. CASE Inventory(r)
    <2>1. ASSUME NEW step \in Steps \ Unseen, UNCHANGED receipt,
                 run' = [run EXCEPT ![r].step = step, ![r].before = Cardinality(Present)]
          PROVE  Apiece /\ run'[r].new = run[r].new
      BY <1>0, <2>1 DEF Apiece, Row, Unseen
    <2> QED
      BY <1>2, <1>4, <1>7, <1>s, <2>1 DEF Inventory, people
  <1>8. CASE Create(r)
    <2>1. CASE UNCHANGED <<board, last>>
      BY <1>2, <1>4, <1>8, <1>s, <2>1, <1>0, ImageAssumption DEF Create, people, Items
    <2>2. ASSUME last < MaxItems, last' = last + 1, NEW p \in {"placed", "moved"}, board' = [board EXCEPT ![last'] = p],
                 UNCHANGED <<file, touched>>
          PROVE  Forward /\ \A i : Safe(i) => Safe(i)'
      BY <1>0, <1>b, <2>2, ImageAssumption DEF Forward, Present, Safe, Items, Places
    <2>3. CASE End(r, "manual")
      BY <1>2, <1>3, <1>8, <1>s, <2>1, <2>2, <2>3 DEF Create, people
    <2>4. CASE run' = [run EXCEPT ![r].step = "stage", ![r].new = last'] /\ UNCHANGED receipt
      <3>1. run[r].step = "create" /\ run'[r].new = last' /\ Apiece
        BY <1>0, <1>8, <2>4 DEF Create, At, Apiece, Unseen, Row
      <3> QED
        BY <1>8, <2>1, <2>2, <3>1, <2>4 DEF Create, Moves, Apiece, people
    <2> QED
      BY <1>8, <2>1, <2>3, <2>4 DEF Create
  <1>9. CASE Stage(r)
    BY <1>1, <1>4, <1>9, <1>s DEF Stage, people
  <1>10. CASE r \in Replacing /\ Compensate(r)
    <2>1. board' \in {board, Removed(run[r].new)} /\ UNCHANGED <<last, touched, file>> /\ Removes(r, run[r].new)
      BY <1>10 DEF Compensate, people, Removes, At
    <2>2. Apiece /\ run'[r].new = run[r].new
      BY <1>1, <1>2, <1>10, <1>s DEF Compensate
    <2>3. Forward /\ \A i : Safe(i) => Safe(i)' \/ Removes(r, i)
      <3>1. PICK x : x = run[r].new
        OBVIOUS
      <3>2. Forward /\ \A i : Safe(i) => Safe(i)' \/ i = x
        BY <1>h, <2>1, <3>1
      <3> QED
        BY <2>1, <3>1, <3>2
    <2> QED
      BY <1>3, <2>2, <2>3
  <1>11. CASE Recheck(r)
    BY <1>2, <1>4, <1>11, <1>s DEF Recheck, people
  <1>12. CASE Delete(r)
    <2>1. board' \in {board, Removed(run[r].old)} /\ UNCHANGED <<last, touched, file>> /\ Removes(r, run[r].old)
      BY <1>12 DEF Delete, people, Removes, At
    <2>2. Apiece /\ run'[r].new = run[r].new
      BY <1>1, <1>2, <1>12, <1>s DEF Delete
    <2>3. Forward /\ \A i : Safe(i) => Safe(i)' \/ Removes(r, i)
      <3>1. PICK x : x = run[r].old
        OBVIOUS
      <3>2. Forward /\ \A i : Safe(i) => Safe(i)' \/ i = x
        BY <1>h, <2>1, <3>1
      <3> QED
        BY <2>1, <3>1, <3>2
    <2> QED
      BY <1>3, <2>2, <2>3
  <1>13. CASE Confirm(r)
    BY <1>1, <1>2, <1>4, <1>13, <1>s DEF Confirm, people
  <1>14. CASE Verify(r)
    <2>1. CASE touched' = touched
      BY <1>1, <1>2, <1>4, <1>14, <1>s, <2>1 DEF Verify, ReadBack
    <2>2. CASE ReadBack(r)
      <3>1. Apiece /\ run'[r].new = run[r].new
        BY <1>1, <1>s, <2>2 DEF ReadBack
      <3>2. UNCHANGED <<board, last, file>>
        BY <1>14 DEF Verify
      <3>3. Forward
        BY <1>0, <1>b, <3>2 DEF Forward, Present
      <3>4. run[r].new = 0 \/ board[run[r].new] = "placed"
        BY <2>2 DEF ReadBack, Done, ImageInv, Numbers, Numbered, Runs
      <3>5. \A i : Safe(i) => Safe(i)'
        BY <3>2, <3>4, <2>2 DEF Safe, ReadBack, Items
      <3> QED
        BY <1>3, <3>1, <3>3, <3>5
    <2> QED
      BY <1>14, <2>1, <2>2 DEF Verify
  <1>15. CASE r \in Replacing /\ PublishIdentity(r)
    <2>1. Apiece /\ run'[r].new = run[r].new
      BY <1>1, <1>2, <1>15, <1>s DEF PublishIdentity
    <2>2. Filed
      BY <1>15 DEF PublishIdentity, ImageInv, ImageTypeOK
    <2>3. Quiet
      BY <1>15 DEF PublishIdentity, people
    <2> QED
      BY <1>3, <1>q, <2>1, <2>2, <2>3
  <1>16. CASE PublishReceipt(r)
    BY <1>2, <1>4, <1>16, <1>s DEF PublishReceipt, people
  <1>17. CASE Cancel(r) \/ LoseSession(r)
    BY <1>2, <1>4, <1>17, <1>s DEF Cancel, LoseSession, people
  <1>18. CASE Kill(r)
    BY <1>1, <1>4, <1>18, <1>s DEF Kill, people
  <1> QED
    BY <1>5, <1>6, <1>7, <1>8, <1>9, <1>10, <1>11, <1>12, <1>13, <1>14, <1>15, <1>16, <1>17, <1>18 DEF Step

(* People bring no image back either, and those they touch are marked.     *)
LEMMA PeopleMove ==
  ASSUME ImageInv, Edit
  PROVE  Forward /\ (\A i : Safe(i) => Safe(i)') /\ UNCHANGED <<run, receipt, holder>>
  <1>0. /\ board \in [Items -> {"none", "placed", "moved"}] /\ last \in Items /\ touched \subseteq Items
        /\ \A i \in Items : i > last => board[i] = "none"
    BY DEF ImageInv, ImageTypeOK, Numbers
  <1>1. UNCHANGED <<file, run, receipt, holder>>
    BY DEF Edit
  <1>2. CASE last < MaxItems /\ last' = last + 1 /\ board' = [board EXCEPT ![last'] = "placed"] /\ UNCHANGED touched
    BY <1>0, <1>1, <1>2, ImageAssumption DEF Forward, Present, Safe, Items
  <1>3. ASSUME NEW i \in Present, NEW p \in {"moved", "none"}, board' = [board EXCEPT ![i] = p],
               touched' = touched \cup {i}, UNCHANGED last
        PROVE  Forward /\ \A j : Safe(j) => Safe(j)'
    <2>1. i \in Items /\ board[i] # "none"
      BY <1>3 DEF Present
    <2> QED
      BY <1>0, <1>1, <1>3, <2>1 DEF Forward, Present, Safe, Items
  <1> QED
    BY <1>1, <1>2, <1>3 DEF Edit

(* What is true of a run stays true while others move: only a run with the *)
(* board's locks removes images, and what it removes of another run's      *)
(* images it has taken over.                                               *)
LEMMA OthersStay ==
  ASSUME ImageInv, ImageTypeOK', NEW s \in Runs, Forward, run'[s] = run[s], receipt'[s] = receipt[s],
         InLock(s) => \A i : Safe(i) => Safe(i)',
         NewThere(s) => NewThere(s)'
  PROVE  RunTrue(s)'
  <1>0. /\ run[s].old \in 0..last /\ run[s].new \in 0..last /\ last \in Items
    BY ImageAssumption DEF ImageInv, ImageTypeOK, Numbers, Numbered, Items
  <1>1. RunTrue(s)
    BY DEF ImageInv
  <1>2. /\ run[s].old \notin Present => run[s].old \notin Present'
        /\ run[s].new \notin Present => run[s].new \notin Present'
    BY <1>0 DEF Forward
  <1>3. s \in Replacing /\ run[s].new # 0 /\ file[Output[s]].item = run[s].new => file'[Output[s]].item = run[s].new
    BY ImageAssumption DEF Forward
  <1>4. run[s].step \in {"create", "stage", "compensate", "recheck", "delete", "confirm", "verify"} => InLock(s)
    BY DEF InLock, Working
  <1> QED
    BY <1>1, <1>2, <1>3, <1>4 DEF RunTrue

(* When a run has moved, what was true of the others still is.             *)
LEMMA OthersTrue ==
  ASSUME ImageInv, ImageTypeOK', NEW r \in Runs, Moves(r), NEW s \in Runs \ {r}
  PROVE  RunTrue(s)'
  <1>0. run'[s] = run[s] /\ receipt'[s] = receipt[s] /\ Forward
    BY DEF Moves
  <1>1. InLock(s) => \A i : Safe(i) => Safe(i)'
    <2>1. InLock(s) => ~InLock(r)
      BY DEF ImageInv, BoardLocked
    <2>2. \A i : Removes(r, i) => InLock(r)
      BY DEF Removes, InLock, Working
    <2> QED
      BY <2>1, <2>2 DEF Moves
  <1>2. \A t \in Runs : run[t].step \notin Unseen => run'[t].old = run[t].old /\ run'[t].step \notin Unseen
    BY DEF Moves, Unseen
  <1>3. Later(run[s].new, s) => Later(run[s].new, s)'
    BY <1>0, <1>2 DEF Later, Unseen
  <1>4. ASSUME Safe(run[s].new), Removes(r, run[s].new)
        PROVE  Later(run[s].new, s)'
    <2>1. run[s].new # 0
      BY <1>4, ImageAssumption DEF Safe, Items
    <2>2. run[r].step = "delete" /\ run[r].old = run[s].new
      BY <1>4, <2>1 DEF Removes, ImageInv, Numbers
    <2>3. run'[r].old = run[s].new /\ run'[r].step \notin Unseen
      BY <2>2, <1>2 DEF Unseen
    <2> QED
      BY <2>3, <1>0 DEF Later, Unseen
  <1>5. NewThere(s) => NewThere(s)'
    BY <1>0, <1>3, <1>4 DEF NewThere, Moves
  <1> QED
    BY <1>0, <1>1, <1>5, OthersStay

(* What a run has read itself is so.                                       *)
LEMMA OwnTrue ==
  ASSUME ImageInv, NEW r \in Runs, Step(r) \/ Cancel(r) \/ LoseSession(r) \/ Kill(r), Moves(r)
  PROVE  RunTrue(r)'
  <1> DEFINE Row == [step : Steps, old : 0..MaxItems, new : 0..MaxItems, before : Nat]
  <1>0. /\ run \in [Runs -> Row] /\ receipt \in [Runs -> Statuses] /\ last \in Items
        /\ run[r].old \in 0..last /\ run[r].new \in 0..last /\ 0 \notin Items
        /\ run[r].step \in Unseen \cup {"create"} => run[r].new = 0
        /\ run[r].step # "start" => run[r].old \in Items
        /\ run[r].new # 0 => run[r].new \in Items /\ run[r].new # run[r].old
    <2>1. last \in Items /\ \A t \in Replacing : run[t].new \in 0..last
      BY DEF ImageInv, ImageTypeOK, Numbers, Numbered, Items, Runs
    <2>2. \A i \in Lineage : i \in Items
      BY <2>1, ImageAssumption DEF Lineage, Items
    <2> QED
      BY <2>1, <2>2, ImageAssumption DEF ImageInv, ImageTypeOK, Numbers, Numbered, Items
  <1>n. PICK old, new : old = run[r].old /\ new = run[r].new
    OBVIOUS
  <1>1. /\ RunTrue(r)
        /\ run[r].step # "done" => receipt[r] = "none"
    BY DEF ImageInv, RunTrue
  <1>2. /\ run[r].old \notin Present => run[r].old \notin Present'
        /\ run[r].new \notin Present => run[r].new \notin Present'
        /\ \A i : Safe(i) => Safe(i)' \/ Removes(r, i)
    BY <1>0 DEF Moves, Forward
  <1>3. ASSUME NEW step \in Steps, Goto(r, step)
        PROVE  run'[r].step = step /\ run'[r].old = run[r].old /\ run'[r].new = run[r].new
    BY <1>0, <1>3 DEF Goto
  <1>4. ASSUME NEW status \in {"manual", "failed", "broken"}, End(r, status),
               status = "failed" /\ r \in Replacing => run[r].new \notin Present' \/ run[r].old \notin Present'
        PROVE  RunTrue(r)'
    <2>1. run'[r].step = "done" /\ run'[r].old = run[r].old /\ run'[r].new = run[r].new
      BY <1>0, <1>4 DEF End
    <2>2. receipt'[r] \in {status, "none"}
      BY <1>0, <1>4 DEF End
    <2> QED
      BY <1>4, <2>1, <2>2 DEF RunTrue
  <1>m. End(r, "manual") \/ End(r, "broken") => RunTrue(r)'
    BY <1>4
  <1>s. {"lock", "inventory", "create", "stage", "compensate", "recheck", "delete",
         "confirm", "verify", "identity", "receipt", "done"} \subseteq Steps
    BY DEF Steps
  <1>u. ASSUME NEW step \in Unseen, run'[r].step = step, receipt'[r] = "none"
        PROVE  RunTrue(r)'
    BY <1>u DEF RunTrue, Unseen
  <1>5. CASE Start(r)
    <2>1. run'[r].step = "lock" /\ receipt'[r] = "none"
      BY <1>0, <1>5 DEF Start
    <2> QED
      BY <2>1, <1>u DEF Unseen
  <1>6. CASE Lock(r)
    <2>1. run'[r].step \in {"inventory", "done"} /\ receipt'[r] = "none"
      BY <1>1, <1>3, <1>6, <1>s DEF Lock, At
    <2> QED
      BY <2>1 DEF RunTrue
  <1>7. CASE Inventory(r)
    <2>1. CASE End(r, "failed")
      BY <1>0, <1>2, <1>4, <1>7, <2>1 DEF Inventory, At, Present, Unseen
    <2>2. CASE /\ board[run[r].old] = "placed"
               /\ run' = [run EXCEPT ![r].step = IF r \in Replacing THEN "create" ELSE "delete",
                                     ![r].before = Cardinality(Present)]
               /\ UNCHANGED receipt
      <3>1. /\ run'[r].step \in {"create", "delete"} /\ receipt'[r] = "none"
            /\ run'[r].old = run[r].old /\ run'[r].new = run[r].new
            /\ r \in Replacing => run'[r].step = "create"
        BY <1>0, <1>1, <1>7, <2>2 DEF Inventory, At
      <3>2. Safe(old)'
        BY <1>n, <1>0, <1>7, <2>2 DEF Inventory, At, Safe, people
      <3> QED
        BY <1>n, <3>1, <3>2 DEF RunTrue, Safe
    <2> QED
      BY <1>7, <2>1, <2>2 DEF Inventory
  <1>8. CASE r \in Replacing /\ Create(r)
    <2>1. CASE End(r, "failed") /\ UNCHANGED <<board, last>>
      BY <1>0, <1>2, <1>4, <1>8, <2>1 DEF Create, At, Present
    <2>2. CASE run' = [run EXCEPT ![r].step = "stage", ![r].new = last'] /\ UNCHANGED receipt /\ last' = last + 1
      <3>1. run'[r].step = "stage" /\ run'[r].old = run[r].old /\ run'[r].new = last + 1 /\ receipt'[r] = "none"
        BY <1>0, <1>1, <1>8, <2>2 DEF Create, At
      <3>2. Safe(old)'
        BY <1>n, <1>1, <1>2, <1>8 DEF Create, At, RunTrue, Removes
      <3> QED
        BY <1>0, <1>n, <3>1, <3>2 DEF RunTrue, Safe, Items
    <2> QED
      BY <1>8, <1>m, <2>1, <2>2 DEF Create
  <1>9. CASE r \in Replacing /\ Stage(r)
    <2>1. /\ run'[r].step \in {"delete", "compensate"} /\ receipt'[r] = "none"
          /\ run'[r].old = run[r].old /\ run'[r].new = run[r].new
          /\ run'[r].step = "delete" => Staged(r)
      BY <1>1, <1>3, <1>9, <1>s DEF Stage, At
    <2>2. Safe(old)' /\ run[r].new # 0
      BY <1>n, <1>1, <1>2, <1>9 DEF Stage, At, RunTrue, Removes
    <2>3. Staged(r) => Safe(new)'
      BY <1>n, <1>0, <2>2, <1>9 DEF Stage, Staged, Safe, people
    <2> QED
      BY <1>n, <2>1, <2>2, <2>3 DEF RunTrue, Safe
  <1>10. CASE r \in Replacing /\ Compensate(r)
    <2>1. CASE Goto(r, "recheck") /\ UNCHANGED receipt
      <3>1. run'[r].step = "recheck" /\ run'[r].old = run[r].old /\ run'[r].new = run[r].new /\ receipt'[r] = "none"
        BY <1>1, <1>3, <1>10, <2>1, <1>s DEF Compensate, At
      <3>2. Safe(old)' /\ run[r].new # 0
        BY <1>n, <1>0, <1>1, <1>2, <1>10 DEF Compensate, At, RunTrue, Removes
      <3> QED
        BY <1>n, <3>1, <3>2 DEF RunTrue, Safe
    <2> QED
      BY <1>m, <1>10, <2>1 DEF Compensate
  <1>11. CASE r \in Replacing /\ Recheck(r)
    BY <1>2, <1>4, <1>11 DEF Recheck
  <1>12. CASE Delete(r)
    <2>1. CASE Goto(r, "confirm") /\ UNCHANGED receipt
      <3>1. run'[r].step = "confirm" /\ run'[r].new = run[r].new /\ receipt'[r] = "none"
        BY <1>1, <1>3, <1>12, <2>1, <1>s DEF Delete, At
      <3>2. r \in Replacing => Safe(new)'
        BY <1>n, <1>0, <1>1, <1>2, <1>12 DEF Delete, At, RunTrue, Removes, Safe
      <3> QED
        BY <1>n, <3>1, <3>2 DEF RunTrue, Safe
    <2> QED
      BY <1>m, <1>12, <2>1 DEF Delete
  <1>13. CASE Confirm(r)
    <2>1. CASE run[r].old \notin Present /\ Goto(r, "verify") /\ UNCHANGED receipt
      <3>1. run'[r].step = "verify" /\ run'[r].old = run[r].old /\ run'[r].new = run[r].new /\ receipt'[r] = "none"
        BY <1>1, <1>3, <1>13, <2>1, <1>s DEF Confirm, At
      <3>2. r \in Replacing => Safe(new)'
        BY <1>n, <1>1, <1>2, <1>13 DEF Confirm, At, RunTrue, Removes
      <3> QED
        BY <1>2, <1>n, <2>1, <3>1, <3>2 DEF RunTrue, Safe
    <2> QED
      BY <1>m, <1>13, <2>1 DEF Confirm
  <1>14. CASE Verify(r)
    <2>1. CASE End(r, "failed")
      <3>1. run[r].old \notin Present'
        BY <1>1, <1>2, <1>14 DEF Verify, At, RunTrue
      <3> QED
        BY <1>4, <2>1, <3>1
    <2>2. CASE ReadBack(r)
      <3>1. /\ run'[r].step \in {"identity", "receipt"} /\ receipt'[r] = "none"
            /\ run'[r].old = run[r].old /\ run'[r].new = run[r].new
            /\ r \in Replacing => run'[r].step = "identity"
        BY <1>1, <1>3, <1>14, <2>2, <1>s DEF Verify, ReadBack, At
      <3>2. r \in Replacing => Safe(run[r].new) /\ Safe(new)'
        BY <1>n, <1>1, <1>2, <1>14 DEF Verify, At, RunTrue, Removes
      <3>3. r \in Replacing => run[r].new # 0
        BY <1>0, <1>n, <3>2 DEF Safe
      <3>4. run[r].old \notin Present'
        BY <1>2, <2>2 DEF ReadBack, Done
      <3> QED
        BY <1>n, <3>1, <3>2, <3>3, <3>4 DEF RunTrue, NewThere, Safe
    <2> QED
      BY <1>m, <1>14, <2>1, <2>2 DEF Verify
  <1>l. ASSUME \A t \in Runs \ {r} : run'[t] = run[t], run'[r].new = run[r].new, NewThere(r),
               run[r].step \in {"identity", "receipt"}
        PROVE  NewThere(r)'
    <2>1. Safe(new) => Safe(new)'
      BY <1>2, <1>n, <1>l DEF Removes
    <2> QED
      BY <1>n, <1>l, <2>1 DEF NewThere, Later, Safe
  <1>15. CASE r \in Replacing /\ PublishIdentity(r)
    <2>1. CASE /\ file' = [file EXCEPT ![Output[r]] = [item |-> run[r].new, src |-> Source[r]]]
               /\ Goto(r, "receipt") /\ UNCHANGED receipt
      <3>1. run'[r].step = "receipt" /\ run'[r].old = run[r].old /\ run'[r].new = run[r].new /\ receipt'[r] = "none"
        BY <1>1, <1>3, <1>15, <2>1, <1>s DEF PublishIdentity, At
      <3>2. NewThere(r)'
        BY <1>1, <1>l, <1>15, <3>1 DEF PublishIdentity, At, RunTrue, Moves
      <3>3. file'[Output[r]].item = run[r].new
        BY <1>15, <2>1, ImageAssumption DEF ImageInv, ImageTypeOK
      <3>4. run[r].new # 0 /\ run[r].old \notin Present'
        BY <1>1, <1>2, <1>15 DEF PublishIdentity, At, RunTrue
      <3> QED
        BY <3>1, <3>2, <3>3, <3>4 DEF RunTrue
    <2> QED
      BY <1>m, <1>15, <2>1 DEF PublishIdentity
  <1>16. CASE PublishReceipt(r)
    <2>1. run'[r].step = "done" /\ run'[r].old = run[r].old /\ run'[r].new = run[r].new
          /\ receipt'[r] \in {"verified", "none"}
      BY <1>0, <1>16 DEF PublishReceipt, End
    <2>2. run[r].old \notin Present'
      BY <1>1, <1>2, <1>16 DEF PublishReceipt, At, RunTrue
    <2>3. r \in Replacing => NewThere(r)' /\ run[r].new # 0 /\ file'[Output[r]].item = run[r].new
      BY <1>1, <1>l, <1>16, <2>1 DEF PublishReceipt, At, RunTrue, Moves
    <2> QED
      BY <2>1, <2>2, <2>3 DEF RunTrue
  <1>17. CASE Cancel(r) \/ LoseSession(r)
    BY <1>m, <1>17 DEF Cancel, LoseSession
  <1>18. CASE Kill(r)
    <2>1. run'[r].step = "done" /\ receipt'[r] = "none"
      BY <1>1, <1>3, <1>18, <1>s DEF Kill
    <2> QED
      BY <2>1 DEF RunTrue
  <1> QED
    BY <1>5, <1>6, <1>7, <1>8, <1>9, <1>10, <1>11, <1>12, <1>13, <1>14, <1>15, <1>16, <1>17, <1>18 DEF Step

(* The steps a run takes, by what they do to its own row.                  *)
LEMMA OwnRow ==
  ASSUME ImageInv, NEW r \in Runs, Step(r) \/ Cancel(r) \/ LoseSession(r) \/ Kill(r)
  PROVE  /\ run[r].step = "start" =>
              /\ run'[r].step = "lock" /\ run'[r].new = run[r].new
              /\ \E f \in Files : file[f].item # 0 /\ run'[r].old = file[f].item
         /\ run'[r].step \in Unseen \cup {"create"} => run[r].step \in Unseen
         /\ r \in Deleting =>
              /\ run'[r].step \notin {"create", "stage", "compensate", "recheck", "identity"}
              /\ run[r].before # 0 => run'[r].before # 0
              /\ run'[r].step \in {"delete", "confirm", "verify", "receipt"} => run'[r].before # 0
         /\ run'[r].step \in Working \cup {"identity", "receipt"} => holder' = {r}
         /\ holder' = holder \/ holder = {} \/ InLock(r) \/ holder' = holder \ {r}
  <1> DEFINE Row == [step : Steps, old : 0..MaxItems, new : 0..MaxItems, before : Nat]
  <1>0. /\ run \in [Runs -> Row] /\ holder \subseteq Runs
        /\ r \in Deleting <=> r \notin Replacing
        /\ InLock(r) => holder = {r}
    BY ImageAssumption DEF ImageInv, ImageTypeOK, BoardLocked, Runs
  <1>d. r \in Deleting =>
          /\ run[r].step \notin {"create", "stage", "compensate", "recheck", "identity"}
          /\ run[r].step \in {"delete", "confirm", "verify", "receipt"} => run[r].before # 0
    BY DEF ImageInv, Numbers, Numbered
  <1>1. ASSUME NEW step \in Steps, Goto(r, step)
        PROVE  run'[r].step = step /\ run'[r].before = run[r].before
    BY <1>0, <1>1 DEF Goto
  <1>2. ASSUME NEW status, End(r, status)
        PROVE  run'[r].step = "done" /\ run'[r].before = run[r].before /\ holder' = {}
    BY <1>0, <1>2 DEF End
  <1>s. {"lock", "inventory", "create", "stage", "compensate", "recheck", "delete",
         "confirm", "verify", "identity", "receipt", "done"} \subseteq Steps
    BY DEF Steps
  <1> DEFINE Goal == /\ run[r].step # "start"
                     /\ run'[r].step \in Unseen \cup {"create"} => run[r].step \in Unseen
                     /\ r \in Deleting =>
                          /\ run'[r].step \notin {"create", "stage", "compensate", "recheck", "identity"}
                          /\ run[r].before # 0 => run'[r].before # 0
                          /\ run'[r].step \in {"delete", "confirm", "verify", "receipt"} => run'[r].before # 0
                     /\ run'[r].step \in Working \cup {"identity", "receipt"} => holder' = {r}
                     /\ holder' = holder \/ holder = {} \/ InLock(r) \/ holder' = holder \ {r}
  <1>e. ASSUME NEW status, End(r, status), InLock(r)
        PROVE  Goal
    BY <1>2, <1>e DEF Unseen, InLock, Working
  <1>g. ASSUME NEW step \in Steps, Goto(r, step), UNCHANGED holder, InLock(r),
               step \in {"stage", "delete", "compensate", "recheck", "confirm", "verify", "identity", "receipt"},
               r \in Deleting => /\ step \in {"delete", "confirm", "verify", "receipt"}
                                 /\ run[r].step \in {"delete", "confirm", "verify", "receipt"}
        PROVE  Goal
    BY <1>0, <1>d, <1>1, <1>g DEF Unseen, InLock, Working
  <1>w. run[r].step \in {"inventory", "create", "stage", "compensate", "recheck", "delete", "confirm", "verify",
                         "identity", "receipt"} => InLock(r)
    BY DEF InLock, Working
  <1>3. CASE Start(r)
    <2>1. PICK f \in Files : file[f].item # 0 /\ run' = [run EXCEPT ![r].step = "lock", ![r].old = file[f].item]
      BY <1>3 DEF Start
    <2>2. run'[r].step = "lock" /\ run'[r].old = file[f].item /\ run'[r].new = run[r].new
          /\ run'[r].before = run[r].before
      BY <1>0, <2>1
    <2> QED
      BY <1>3, <2>1, <2>2 DEF Start, At, Unseen, Working
  <1>x. SUFFICES ASSUME ~Start(r) PROVE Goal
    BY <1>3
  <1>4. CASE Lock(r)
    <2>1. CASE holder = {} /\ holder' = {r} /\ Goto(r, "inventory")
      BY <1>0, <1>1, <1>4, <1>s, <2>1 DEF Lock, At, Unseen, Working, InLock
    <2>2. CASE Goto(r, "done") /\ UNCHANGED holder
      BY <1>0, <1>1, <1>4, <1>s, <2>2 DEF Lock, At, Unseen, Working, InLock
    <2> QED
      BY <1>4, <2>1, <2>2 DEF Lock
  <1>5. CASE Inventory(r)
    <2>1. CASE End(r, "failed")
      BY <1>e, <1>w, <1>5, <2>1 DEF Inventory, At
    <2>2. CASE /\ board[run[r].old] = "placed"
               /\ run' = [run EXCEPT ![r].step = IF r \in Replacing THEN "create" ELSE "delete",
                                     ![r].before = Cardinality(Present)]
               /\ UNCHANGED holder
      <3>1. /\ run'[r].step = (IF r \in Replacing THEN "create" ELSE "delete")
            /\ run'[r].before = Cardinality(Present)
        BY <1>0, <2>2
      <3>2. run[r].step = "inventory"
        BY <1>5 DEF Inventory, At
      <3>3. run[r].old \in Items
        <4>1. run[r].old \in Lineage /\ \A t \in Replacing : run[t].new \in 0..MaxItems
          BY <3>2 DEF ImageInv, ImageTypeOK, Numbers, Numbered, Runs
        <4> QED
          BY <4>1, ImageAssumption DEF Lineage, Items
      <3>4. Cardinality(Present) # 0
        BY <2>2, <3>3, PresentCounted DEF Present, ImageInv
      <3> QED
        BY <1>0, <1>w, <2>2, <3>1, <3>2, <3>4 DEF Unseen, Working
    <2> QED
      BY <1>5, <2>1, <2>2 DEF Inventory
  <1>6. CASE r \in Replacing /\ Create(r)
    <2>1. CASE run' = [run EXCEPT ![r].step = "stage", ![r].new = last'] /\ UNCHANGED holder
      <3>1. run'[r].step = "stage"
        BY <1>0, <2>1
      <3> QED
        BY <1>0, <1>w, <1>6, <2>1, <3>1 DEF Create, At, Unseen, Working
    <2> QED
      BY <1>e, <1>w, <1>6, <2>1 DEF Create, At
  <1>7. CASE r \in Replacing /\ (Stage(r) \/ Compensate(r) \/ Recheck(r) \/ PublishIdentity(r))
    BY <1>0, <1>e, <1>g, <1>w, <1>s, <1>7 DEF Stage, Compensate, Recheck, PublishIdentity, At
  <1>8. CASE Delete(r) \/ Confirm(r) \/ PublishReceipt(r)
    BY <1>0, <1>e, <1>g, <1>w, <1>s, <1>8 DEF Delete, Confirm, PublishReceipt, At
  <1>9. CASE Verify(r)
    BY <1>0, <1>e, <1>g, <1>w, <1>s, <1>9 DEF Verify, ReadBack, At
  <1>10. CASE Cancel(r) \/ LoseSession(r)
    BY <1>e, <1>10 DEF Cancel, LoseSession, InLock
  <1>11. CASE Kill(r)
    <2>1. run[r].step = "lock" \/ InLock(r)
      BY <1>11 DEF Kill, InLock, Working, Steps
    <2> QED
      BY <1>1, <1>11, <1>s, <2>1 DEF Kill, Unseen, Working
  <1> QED
    BY <1>x, <1>4, <1>5, <1>6, <1>7, <1>8, <1>9, <1>10, <1>11 DEF Step

(* The numbers stay as they should be, and the asset's images only grow.   *)
LEMMA NumbersStay ==
  ASSUME ImageInv, ImageTypeOK', NEW r \in Runs, Step(r) \/ Cancel(r) \/ LoseSession(r) \/ Kill(r), Moves(r)
  PROVE  Numbers' /\ \A i \in Lineage : i \in Lineage'
  <1>0. /\ last \in Nat /\ last' \in Nat /\ last <= last' /\ last >= 1
        /\ \A s \in Runs : run[s].new \in 0..last /\ run[s].old \in 0..last
        /\ \A s \in Runs : Numbered(s)
        /\ r \in Deleting <=> r \notin Replacing
    BY ImageAssumption DEF ImageInv, ImageTypeOK, Numbers, Numbered, Moves, Forward, Items, Runs
  <1>1. \A s \in Runs \ {r} : run'[s] = run[s]
    BY DEF Moves
  <1>2. \/ run'[r].new = run[r].new
        \/ run[r].step = "create" /\ run[r].new = 0 /\ last' = last + 1 /\ run'[r].new = last'
    BY <1>0 DEF Moves, Numbered
  <1>3. \A i \in Lineage : i \in Lineage'
    BY <1>0, <1>1, <1>2 DEF Lineage, Runs
  <1>4. \A i \in Lineage : i <= last
    BY <1>0 DEF Lineage, Runs
  <1>5. \A s \in Runs \ {r} : Numbered(s)'
    BY <1>0, <1>1, <1>3 DEF Numbered
  <1>6. Numbered(r)'
    <2>1. PICK old : old = run'[r].old
      OBVIOUS
    <2>2. old \in Lineage' /\ old <= last
      <3>1. CASE run[r].step = "start"
        BY <1>3, <1>4, <2>1, <3>1, OwnRow DEF ImageInv, Numbers
      <3>2. CASE run[r].step # "start"
        BY <1>0, <1>3, <1>4, <2>1, <3>2 DEF Moves, Numbered
      <3> QED
        BY <3>1, <3>2
    <2>3. run'[r].new <= last' /\ old <= last'
      <3>1. old \in Nat
        BY <2>1 DEF ImageTypeOK
      <3> QED
        BY <1>0, <1>2, <2>2, <3>1
    <2>4. run'[r].step \in Unseen \cup {"create"} => run'[r].new = 0
      BY <1>0, <1>2, OwnRow DEF Numbered, Unseen
    <2>5. run'[r].new # 0 => run'[r].new # old
      <3>1. CASE run[r].step = "start"
        <4>1. run[r].new = 0 /\ run'[r].new = run[r].new
          BY <1>0, <3>1, OwnRow DEF Numbered, Unseen
        <4> QED
          BY <4>1
      <3>2. CASE run[r].step # "start"
        BY <1>0, <1>2, <2>1, <2>2, <3>2 DEF Moves, Numbered
      <3> QED
        BY <3>1, <3>2
    <2>6. r \in Deleting => run'[r].new = 0
      BY <1>0, <1>2 DEF Numbered
    <2> QED
      BY <2>1, <2>2, <2>3, <2>4, <2>5, <2>6, OwnRow DEF Numbered
  <1>7. \A s, t \in Runs : s # t /\ run'[s].new # 0 => run'[s].new # run'[t].new
    BY <1>0, <1>1, <1>2 DEF ImageInv, Numbers
  <1>8. \A f \in Files : file'[f].item = 0 \/ file'[f].item \in Lineage'
    <2>1. CASE UNCHANGED file
      BY <1>3, <2>1 DEF ImageInv, Numbers
    <2>2. CASE /\ r \in Replacing
               /\ file' = [file EXCEPT ![Output[r]] = [item |-> run[r].new, src |-> Source[r]]]
      <3>1. PICK new : new = run[r].new
        OBVIOUS
      <3>2. new = 0 \/ new \in Lineage'
        BY <1>0, <1>3, <2>2, <3>1 DEF Lineage
      <3>3. \A f \in Files : file'[f] = file[f] \/ file'[f].item = new
        BY <2>2, <3>1 DEF ImageInv, ImageTypeOK
      <3> QED
        BY <1>3, <3>2, <3>3 DEF ImageInv, Numbers
    <2> QED
      BY <2>1, <2>2 DEF Step, Start, Lock, Inventory, Create, Stage, Compensate, Recheck, Delete, Confirm, Verify,
             PublishIdentity, PublishReceipt, Cancel, LoseSession, Kill
  <1> QED
    BY <1>3, <1>5, <1>6, <1>7, <1>8 DEF Numbers, Moves, Forward

LEMMA LockStays ==
  ASSUME ImageInv, NEW r \in Runs, Step(r) \/ Cancel(r) \/ LoseSession(r) \/ Kill(r), Moves(r)
  PROVE  BoardLocked'
  <1>1. ASSUME NEW s \in Runs \ {r}, InLock(s)'
        PROVE  holder' = {s}
    <2>1. InLock(s) /\ holder = {s} /\ ~InLock(r)
      BY <1>1 DEF Moves, InLock, ImageInv, BoardLocked
    <2> QED
      BY <2>1, OwnRow
  <1> QED
    BY <1>1, OwnRow DEF BoardLocked, InLock

(* A run sees its image in place only while nobody else has seen it gone,  *)
(* and sees it gone only when it has worked on it alone.                   *)
LEMMA ApartStays ==
  ASSUME ImageInv, NEW r \in Runs, Step(r) \/ Cancel(r) \/ LoseSession(r) \/ Kill(r), Moves(r)
  PROVE  Apart'
  <1> DEFINE Row == [step : Steps, old : 0..MaxItems, new : 0..MaxItems, before : Nat]
  <1>0. /\ run \in [Runs -> Row] /\ receipt \in [Runs -> Statuses]
        /\ InLock(r) => holder = {r}
        /\ \A s \in Runs : InLock(s) => holder = {s}
        /\ receipt[r] # "none" => run[r].step = "done"
    BY DEF ImageInv, ImageTypeOK, BoardLocked, RunTrue
  <1>1. \A s \in Runs \ {r} : /\ run'[s] = run[s] /\ receipt'[s] = receipt[s]
                              /\ SawGone(s)' <=> SawGone(s)
                              /\ SawPlaced(s)' <=> SawPlaced(s)
    BY DEF Moves, SawGone, SawPlaced, InLock
  <1>2. ASSUME NEW step \in Steps, Goto(r, step), UNCHANGED receipt
        PROVE  run'[r].step = step /\ receipt'[r] = receipt[r]
    BY <1>0, <1>2 DEF Goto
  <1>3. ASSUME NEW status, End(r, status)
        PROVE  run'[r].step = "done" /\ receipt'[r] \in {status, "none"}
    BY <1>0, <1>3 DEF End
  <1>s. {"lock", "inventory", "create", "stage", "compensate", "recheck", "delete",
         "confirm", "verify", "identity", "receipt", "done"} \subseteq Steps
    BY DEF Steps
  <1> DEFINE Goal == /\ SawGone(r)' => SawGone(r) \/ run[r].step = "confirm"
                     /\ SawPlaced(r)' =>
                          SawPlaced(r) \/ (run[r].step = "inventory" /\ board[run[r].old] = "placed")
  <1>e. ASSUME NEW status \in {"failed", "manual", "broken"}, End(r, status)
        PROVE  Goal
    BY <1>3, <1>e DEF SawGone, SawPlaced, InLock, Working
  <1>g. ASSUME NEW step \in Steps, Goto(r, step), UNCHANGED receipt,
               \/ step \in Unseen \cup {"done"}
               \/ /\ InLock(r) /\ run[r].step # "inventory"
                  /\ \/ step \notin {"verify", "identity", "receipt"}
                     \/ run[r].step \in {"confirm", "verify", "identity"}
        PROVE  Goal
    BY <1>0, <1>2, <1>g DEF SawGone, SawPlaced, InLock, Working, Unseen
  <1>w. run[r].step \in {"create", "stage", "compensate", "recheck", "delete", "confirm", "verify",
                         "identity", "receipt"} => InLock(r) /\ run[r].step # "inventory"
    BY DEF InLock, Working
  <1>4. Goal
    <2>1. CASE Start(r)
      <3>1. run'[r].step = "lock" /\ receipt'[r] = "none"
        BY <1>0, <2>1 DEF Start
      <3> QED
        BY <3>1 DEF SawGone, SawPlaced, InLock, Working
    <2>2. CASE Lock(r)
      BY <1>g, <1>s, <2>2 DEF Lock, Unseen
    <2>3. CASE Inventory(r)
      <3>1. CASE /\ board[run[r].old] = "placed"
                 /\ run' = [run EXCEPT ![r].step = IF r \in Replacing THEN "create" ELSE "delete",
                                       ![r].before = Cardinality(Present)]
                 /\ UNCHANGED receipt
        <4>1. run'[r].step \in {"create", "delete"} /\ receipt'[r] = receipt[r] /\ run[r].step = "inventory"
          BY <1>0, <2>3, <3>1 DEF Inventory, At
        <4> QED
          BY <1>0, <3>1, <4>1 DEF SawGone, SawPlaced, InLock, Working
      <3> QED
        BY <1>e, <2>3, <3>1 DEF Inventory
    <2>4. CASE r \in Replacing /\ Create(r)
      <3>1. CASE run' = [run EXCEPT ![r].step = "stage", ![r].new = last'] /\ UNCHANGED receipt
        <4>1. run'[r].step = "stage" /\ receipt'[r] = receipt[r] /\ run[r].step = "create"
          BY <1>0, <2>4, <3>1 DEF Create, At
        <4> QED
          BY <1>0, <4>1 DEF SawGone, SawPlaced, InLock, Working
      <3> QED
        BY <1>e, <2>4, <3>1 DEF Create
    <2>5. CASE r \in Replacing /\ (Stage(r) \/ Compensate(r) \/ Recheck(r) \/ PublishIdentity(r))
      BY <1>e, <1>g, <1>s, <1>w, <2>5 DEF Stage, Compensate, Recheck, PublishIdentity, At
    <2>6. CASE Delete(r) \/ Confirm(r) \/ Verify(r)
      BY <1>e, <1>g, <1>s, <1>w, <2>6 DEF Delete, Confirm, Verify, ReadBack, At
    <2>7. CASE PublishReceipt(r)
      <3>1. run[r].step = "receipt"
        BY <2>7 DEF PublishReceipt, At
      <3> QED
        BY <1>w, <3>1 DEF SawGone, SawPlaced
    <2>8. CASE Cancel(r) \/ LoseSession(r)
      BY <1>e, <2>8 DEF Cancel, LoseSession
    <2>9. CASE Kill(r)
      BY <1>g, <1>s, <2>9 DEF Kill
    <2> QED
      BY <2>1, <2>2, <2>3, <2>4, <2>5, <2>6, <2>7, <2>8, <2>9 DEF Step
  <1>5. SawGone(r)' \/ SawPlaced(r)' => run'[r].old = run[r].old
    <2>1. run[r].step = "start" => run'[r].step = "lock" /\ receipt'[r] = "none"
      <3>1. run[r].step = "start" => Start(r)
        BY DEF Step, Start, Lock, Inventory, Create, Stage, Compensate, Recheck, Delete, Confirm, Verify,
               PublishIdentity, PublishReceipt, Cancel, LoseSession, Kill, At, Working
      <3> QED
        BY <1>0, <3>1, OwnRow DEF Start
    <2> QED
      BY <2>1 DEF Moves, SawGone, SawPlaced, InLock, Working
  <1>6. ASSUME NEW s \in Runs \ {r}
        PROVE  /\ SawGone(r)' /\ SawPlaced(s)' => run'[r].old # run'[s].old
               /\ SawGone(s)' /\ SawPlaced(r)' => run'[s].old # run'[r].old
    <2>1. ASSUME SawGone(r)', SawPlaced(s)'
          PROVE  run[r].old # run[s].old
      <3>1. CASE SawGone(r)
        BY <1>1, <1>6, <2>1, <3>1 DEF ImageInv, Apart
      <3>2. CASE run[r].step = "confirm"
        <4>1. SawPlaced(r) /\ InLock(r)
          BY <3>2 DEF SawPlaced, InLock, Working
        <4>2. SawGone(s)
          BY <1>0, <1>1, <1>6, <2>1, <4>1 DEF SawPlaced, SawGone
        <4> QED
          BY <1>6, <4>1, <4>2 DEF ImageInv, Apart
      <3> QED
        BY <1>4, <2>1, <3>1, <3>2
    <2>2. ASSUME SawGone(s)', SawPlaced(r)'
          PROVE  run[s].old # run[r].old
      <3>1. CASE SawPlaced(r)
        BY <1>1, <1>6, <2>2, <3>1 DEF ImageInv, Apart
      <3>2. CASE run[r].step = "inventory" /\ board[run[r].old] = "placed"
        <4>1. run[r].old \in Present
          <5>1. run[r].old \in Lineage /\ \A t \in Replacing : run[t].new \in 0..MaxItems
            BY <3>2 DEF ImageInv, ImageTypeOK, Numbers, Numbered, Runs
          <5> QED
            BY <3>2, <5>1, ImageAssumption DEF Lineage, Items, Present
        <4>2. run[s].old \notin Present
          BY <1>1, <1>6, <2>2 DEF ImageInv, RunTrue, SawGone
        <4> QED
          BY <4>1, <4>2
      <3> QED
        BY <1>4, <2>2, <3>1, <3>2
    <2> QED
      BY <1>1, <1>5, <1>6, <2>1, <2>2
  <1>7. \A s, t \in Runs \ {r} : s # t /\ SawGone(s)' /\ SawPlaced(t)' => run'[s].old # run'[t].old
    BY <1>1 DEF ImageInv, Apart
  <1> QED
    BY <1>6, <1>7 DEF Apart

(* The asset keeps an image: the old one is removed while the new one is   *)
(* in place, and the new one while the old one is.                         *)
LEMMA AssetStays ==
  ASSUME ImageInv, NEW r \in Runs, Step(r) \/ Cancel(r) \/ LoseSession(r) \/ Kill(r), Moves(r),
         \A i \in Lineage : i \in Lineage'
  PROVE  AssetSafe'
  <1>1. CASE \E d \in Deleting : run[d].before # 0
    <2>1. PICK d \in Deleting : run[d].before # 0
      BY <1>1
    <2>2. run'[d].before # 0
      BY <2>1, OwnRow DEF Moves, Runs
    <2> QED
      BY <2>2 DEF AssetSafe
  <1>2. CASE \E i \in Lineage : Safe(i)
    <2>1. PICK i \in Lineage : Safe(i)
      BY <1>2
    <2>2. CASE ~Removes(r, i)
      BY <2>1, <2>2 DEF Moves, AssetSafe
    <2>3. CASE Removes(r, i)
      <3>1. PICK old, new : old = run[r].old /\ new = run[r].new
        OBVIOUS
      <3>2. old \in Lineage /\ (r \in Replacing /\ new # 0 => new \in Lineage) /\ 0 \notin Items
            /\ (new # 0 => new # old)
        BY <2>3, <3>1, ImageAssumption DEF ImageInv, Numbers, Numbered, Removes, Lineage, Items
      <3>3. CASE r \in Replacing /\ run[r].step = "compensate"
        <4>1. Safe(old) /\ new # 0
          BY <3>1, <3>3 DEF ImageInv, RunTrue
        <4>2. Safe(old)'
          BY <3>1, <3>2, <3>3, <4>1 DEF Moves, Removes
        <4> QED
          BY <3>2, <4>2 DEF AssetSafe
      <3>4. CASE r \in Replacing /\ run[r].step = "delete"
        <4>1. Safe(new)
          BY <3>1, <3>4 DEF ImageInv, RunTrue
        <4>2. new # 0 /\ new \in Lineage
          BY <3>2, <3>4, <4>1 DEF Safe
        <4>3. Safe(new)'
          BY <3>1, <3>2, <3>4, <4>1, <4>2 DEF Moves, Removes
        <4> QED
          BY <4>2, <4>3 DEF AssetSafe
      <3>5. CASE r \in Deleting /\ run[r].step = "delete"
        BY <1>1, <3>5 DEF ImageInv, Numbers, Numbered
      <3> QED
        BY <2>3, <3>3, <3>4, <3>5 DEF Removes, Runs
    <2> QED
      BY <2>2, <2>3
  <1> QED
    BY <1>1, <1>2 DEF ImageInv, AssetSafe

(* The invariant holds always, for any runs, files, edits and failures.    *)
THEOREM ImageInvariance == ImageSpec => []ImageInv
  <1>1. ASSUME ImageInv, [ImageNext]_imageVars
        PROVE  ImageInv'
    <2>0. ImageTypeOK'
      BY <1>1, ImageTypes DEF ImageInv
    <2>1. ASSUME NEW r \in Runs, Step(r) \/ Cancel(r) \/ LoseSession(r) \/ Kill(r)
          PROVE  ImageInv'
      <3>1. Moves(r)
        BY <1>1, <2>1, RunMoves
      <3>2. Numbers' /\ \A i \in Lineage : i \in Lineage'
        BY <1>1, <2>0, <2>1, <3>1, NumbersStay
      <3>3. RunTrue(r)'
        BY <1>1, <2>1, <3>1, OwnTrue
      <3>4. \A s \in Runs \ {r} : RunTrue(s)'
        BY <1>1, <2>0, <3>1, OthersTrue
      <3>5. BoardLocked' /\ Apart' /\ AssetSafe'
        BY <1>1, <2>1, <3>1, <3>2, LockStays, ApartStays, AssetStays
      <3> QED
        BY <2>0, <3>2, <3>3, <3>4, <3>5 DEF ImageInv
    <2>2. CASE Edit
      <3>1. Forward /\ (\A i : Safe(i) => Safe(i)') /\ UNCHANGED <<run, receipt, holder>>
        BY <1>1, <2>2, PeopleMove
      <3>2. UNCHANGED file
        BY <2>2 DEF Edit
      <3>3. Lineage' = Lineage
        BY <3>1 DEF Lineage
      <3>4. \A r \in Runs : Numbered(r)'
        BY <1>1, <2>0, <3>1, <3>3, ImageAssumption
           DEF ImageInv, ImageTypeOK, Numbers, Numbered, Forward, Items
      <3>5. Numbers'
        BY <1>1, <3>1, <3>2, <3>3, <3>4 DEF ImageInv, Numbers, Forward
      <3>6. ASSUME NEW s \in Runs
            PROVE  RunTrue(s)'
        <4>1. Later(run[s].new, s) => Later(run[s].new, s)'
          BY <3>1 DEF Later
        <4>2. NewThere(s) => NewThere(s)'
          BY <3>1, <4>1 DEF NewThere
        <4> QED
          BY <1>1, <2>0, <3>1, <4>2, OthersStay
      <3>7. BoardLocked' /\ Apart'
        BY <1>1, <3>1 DEF ImageInv, BoardLocked, Apart, InLock, SawGone, SawPlaced
      <3>8. AssetSafe'
        BY <1>1, <3>1, <3>3 DEF ImageInv, AssetSafe
      <3> QED
        BY <2>0, <3>5, <3>6, <3>7, <3>8 DEF ImageInv
    <2>3. CASE UNCHANGED imageVars
      BY <1>1, <2>3 DEF imageVars, people, ImageInv, ImageTypeOK, Numbers, Numbered, Lineage, BoardLocked, InLock,
         RunTrue, NewThere, Later, Safe, Apart, SawGone, SawPlaced, AssetSafe, Present
    <2> QED
      BY <1>1, <2>1, <2>2, <2>3 DEF ImageNext
  <1> QED
    BY ImageInitInv, <1>1, PTL DEF ImageSpec

(* An asset stays on the board, is where the success receipts say, and     *)
(* each of its images is replaced once; a failure receipt hides two images *)
(* only of a run whose session ended or whose compensation was cancelled.  *)
(* However many runs work on it, and whatever fails, is cancelled, cut off *)
(* or killed while people edit the board.                                  *)
THEOREM ImagesAreKept == ImageSpec => []ImagesKept
  <1>1. ASSUME ImageInv
        PROVE  ImagesKept
    <2>1. AssetKept
      BY <1>1 DEF ImageInv, AssetSafe, AssetKept, Safe
    <2>2. ReceiptsTrue
      BY <1>1 DEF ImageInv, RunTrue, ReceiptsTrue, NewThere, Safe
    <2>3. ConsumedOnce
      BY <1>1 DEF ImageInv, Apart, SawGone, SawPlaced, ConsumedOnce
    <2> QED
      BY <2>1, <2>2, <2>3 DEF ImagesKept
  <1> QED
    BY ImageInvariance, <1>1, PTL

-----------------------------------------------------------------------------
(* Deliveries.  delivery.lock has no part in the proofs: it can have two   *)
(* owners.  What keeps an operation from being executed twice is that the  *)
(* bundle file can be created once, that a delivery without it is not      *)
(* resumed, and that the native locks keep other runs out.                 *)

DeliverySteps == {"prepare", "open", "flock", "freeze", "frozen", "apply", "execute", "readback",
                  "publish", "published", "unlock", "unlink", "over"}
NativeStates == {"none", "in_progress", "failed", "complete"}
Natives == [state : NativeStates, done : 0..Operations, by : SUBSET Deliveries]

DeliveryRecords == [step : DeliverySteps, inode : 0..Inodes, result : Natives]

DeliveryTypeOK ==
  /\ delivery \in [Deliveries -> DeliveryRecords]
  /\ bundleFile \in {"none", "part", "whole"}
  /\ native \in Natives
  /\ receiptFile \in [state : {"none", "part", "whole"}, binds : Natives]
  /\ executed \in [1..Operations -> Nat]
  /\ executing \subseteq Deliveries
  /\ lockFile \in 0..Inodes /\ inodes \in 0..Inodes
  /\ owner \in [1..Inodes -> SUBSET Deliveries]

(* The run that holds the native locks has the receipt on disk in memory.  *)
RunExclusive ==
  /\ \A d \in Deliveries : d \in executing <=> InStep(d, "execute")
  /\ \A d, e \in executing : d = e
  /\ \A d \in executing : delivery[d].result = native /\ native.state = "in_progress"

(* One fresh delivery has created the bundle and not executed it yet; a    *)
(* resumed one has found what an execution left.                           *)
OneBeginning ==
  /\ bundleFile = "none" => native = NoNative
  /\ native.state = "none" => native = NoNative
  /\ \A d \in Fresh :
       delivery[d].step \in {"frozen", "apply"} => native = NoNative /\ bundleFile # "none"
  /\ \A d, e \in Fresh :
       {delivery[d].step, delivery[e].step} \subseteq {"frozen", "apply"} => d = e
  /\ \A d \in Resumed : delivery[d].step \notin {"prepare", "over"} => native.state # "none"

(* What has been executed is what the receipt counts; a complete one has   *)
(* everything and stays, and so does what a delivery publishes of it.      *)
Counted ==
  /\ \A o \in 1..Operations : executed[o] = IF o <= native.done THEN 1 ELSE 0
  /\ native.state = "complete" => native.done = Operations
  /\ \A d \in Deliveries :
       delivery[d].step \in {"readback", "publish", "published"} =>
         delivery[d].result.state = "complete"
  /\ \A d \in Deliveries : InStep(d, "publish") => native = delivery[d].result
  /\ \A d \in Deliveries : InStep(d, "published") => receiptFile.state # "none"
  /\ receiptFile.state # "none" => native = receiptFile.binds /\ native.state = "complete"

DeliveryInv == DeliveryTypeOK /\ RunExclusive /\ OneBeginning /\ Counted

(* Nothing has been written when the first delivery begins.                *)
LEMMA DeliveryInitInv == DeliveryInit => DeliveryInv
  <1> SUFFICES ASSUME DeliveryInit PROVE DeliveryInv
    OBVIOUS
  <1> USE DeliveryAssumption DEF DeliveryInit, InStep, Deliveries
  <1>1. DeliveryTypeOK
    <2>1. NoNative \in Natives
      BY DEF NoNative, Natives, NativeStates
    <2>2. delivery \in [Deliveries -> DeliveryRecords]
      BY <2>1 DEF DeliverySteps, DeliveryRecords
    <2> QED
      BY <2>1, <2>2 DEF DeliveryTypeOK
  <1>2. RunExclusive
    BY DEF RunExclusive
  <1>3. OneBeginning
    BY DEF OneBeginning
  <1>4. Counted
    BY DEF Counted, NoNative
  <1> QED
    BY <1>1, <1>2, <1>3, <1>4 DEF DeliveryInv

(* A delivery that moves on keeps its type, also with a new inode or result. *)
LEMMA Moving ==
  ASSUME DeliveryTypeOK, NEW d \in Deliveries, NEW step \in DeliverySteps
  PROVE  [delivery EXCEPT ![d].step = step] \in [Deliveries -> DeliveryRecords]
  BY DEF DeliveryTypeOK, DeliveryRecords

LEMMA MovingTo ==
  ASSUME DeliveryTypeOK, NEW d \in Deliveries, NEW step \in DeliverySteps, NEW inode \in 0..Inodes
  PROVE  [delivery EXCEPT ![d].step = step, ![d].inode = inode] \in [Deliveries -> DeliveryRecords]
  BY DEF DeliveryTypeOK, DeliveryRecords

LEMMA MovingWith ==
  ASSUME DeliveryTypeOK, NEW d \in Deliveries, NEW step \in DeliverySteps, NEW result \in Natives
  PROVE  /\ [delivery EXCEPT ![d].step = step, ![d].result = result] \in [Deliveries -> DeliveryRecords]
         /\ [delivery EXCEPT ![d].result = result] \in [Deliveries -> DeliveryRecords]
  BY DEF DeliveryTypeOK, DeliveryRecords

(* Steps that only move a delivery on, or that touch nothing but the lock. *)
Elsewhere(d) ==
  \/ PrepareOutputDir(d) \/ OpenLock(d) \/ Flock(d) \/ Unlock(d) \/ Unlink(d) \/ KillDelivery(d)

LEMMA ElsewhereStep ==
  ASSUME DeliveryInv, NEW d \in Deliveries, Elsewhere(d)
  PROVE  DeliveryInv'
  <1> USE DeliveryAssumption DEF DeliveryInv, InStep, Move, outputs, locks
  <1>0. bundleFile' = bundleFile /\ native' = native /\ receiptFile' = receiptFile
        /\ executed' = executed
    BY DEF Elsewhere, PrepareOutputDir, OpenLock, Flock, Unlock, Unlink, KillDelivery
  <1>1. \A e \in Deliveries \ {d} : delivery'[e] = delivery[e]
    BY DEF Elsewhere, PrepareOutputDir, OpenLock, Flock, Unlock, Unlink, KillDelivery, DeliveryTypeOK
  <1>2. delivery'[d].step \in {"open", "flock", "freeze", "unlink", "over"}
        /\ delivery'[d].result = delivery[d].result
    BY DEF Elsewhere, PrepareOutputDir, OpenLock, Flock, Unlock, Unlink, KillDelivery,
           DeliveryTypeOK, DeliveryRecords
  <1>3. executing' = executing \ {d}
    BY DEF Elsewhere, PrepareOutputDir, OpenLock, Flock, Unlock, Unlink, KillDelivery, RunExclusive
  <1>4. d \in Resumed /\ delivery'[d].step # "over" => native.state # "none"
    <2>1. CASE PrepareOutputDir(d)
      <3>1. Named \ {"lock"} = {"bundle", "native"} => native.state # "none"
        BY DEF Named
      <3>2. d \in Resumed /\ delivery'[d].step # "over" => Named \ {"lock"} = {"bundle", "native"}
        BY <2>1 DEF PrepareOutputDir, DeliveryTypeOK
      <3> QED
        BY <3>1, <3>2
    <2>2. CASE ~PrepareOutputDir(d) /\ ~KillDelivery(d) /\ ~Unlink(d)
      <3>1. delivery[d].step \in {"open", "flock", "unlock"}
        BY <2>2 DEF Elsewhere, OpenLock, Flock, Unlock
      <3> QED
        BY <3>1 DEF OneBeginning
    <2>3. CASE KillDelivery(d) \/ Unlink(d)
      BY <2>3 DEF KillDelivery, Unlink, DeliveryTypeOK, DeliveryRecords
    <2> QED
      BY <2>1, <2>2, <2>3
  <1>5. DeliveryTypeOK'
    <2>0. {"open", "flock", "freeze", "unlink", "over"} \subseteq DeliverySteps
      BY DEF DeliverySteps
    <2>1. CASE PrepareOutputDir(d)
      BY <2>0, <2>1, Moving DEF PrepareOutputDir, DeliveryTypeOK
    <2>2. CASE OpenLock(d)
      <3>1. lockFile' \in 0..Inodes /\ inodes' \in 0..Inodes
        BY <2>2 DEF OpenLock, DeliveryTypeOK
      <3>2. delivery' = [delivery EXCEPT ![d].step = "flock", ![d].inode = lockFile']
        BY <2>2 DEF OpenLock
      <3>3. delivery' \in [Deliveries -> DeliveryRecords]
        BY <2>0, <3>1, <3>2, MovingTo
      <3> QED
        BY <1>0, <1>3, <2>2, <3>1, <3>3 DEF OpenLock, DeliveryTypeOK
    <2>3. CASE Flock(d)
      <3>1. delivery' \in [Deliveries -> DeliveryRecords]
        <4>1. PICK step \in {"freeze", "over"} : delivery' = [delivery EXCEPT ![d].step = step]
          BY <2>3 DEF Flock
        <4> QED
          BY <2>0, <4>1, Moving
      <3>2. owner' \in [1..Inodes -> SUBSET Deliveries]
        BY <2>3 DEF Flock, DeliveryTypeOK
      <3> QED
        BY <1>0, <1>3, <2>3, <3>1, <3>2 DEF Flock, DeliveryTypeOK
    <2>4. CASE Unlock(d) \/ Unlink(d)
      <3>1. delivery' \in [Deliveries -> DeliveryRecords]
        <4>1. PICK step \in {"unlink", "over"} : delivery' = [delivery EXCEPT ![d].step = step]
          BY <2>4 DEF Unlock, Unlink
        <4> QED
          BY <2>0, <4>1, Moving
      <3>2. owner' \in [1..Inodes -> SUBSET Deliveries] /\ lockFile' \in 0..Inodes
        <4>1. CASE Unlock(d)
          <5>1. owner' = [owner EXCEPT ![delivery[d].inode] = owner[delivery[d].inode] \ {d}]
                /\ lockFile' = lockFile
            BY <4>1 DEF Unlock
          <5>2. CASE delivery[d].inode \in 1..Inodes
            BY <5>1, <5>2 DEF DeliveryTypeOK
          <5>3. CASE delivery[d].inode \notin 1..Inodes
            BY <5>1, <5>3 DEF DeliveryTypeOK
          <5> QED
            BY <5>2, <5>3
        <4>2. CASE Unlink(d)
          BY <4>2 DEF Unlink, DeliveryTypeOK
        <4> QED
          BY <2>4, <4>1, <4>2
      <3>3. inodes' = inodes
        BY <2>4 DEF Unlock, Unlink
      <3> QED
        BY <1>0, <1>3, <3>1, <3>2, <3>3 DEF DeliveryTypeOK
    <2>5. CASE KillDelivery(d)
      BY <2>0, <2>5, Moving DEF KillDelivery, DeliveryTypeOK
    <2> QED
      BY <2>1, <2>2, <2>3, <2>4, <2>5 DEF Elsewhere
  <1>6. RunExclusive'
    <2>1. executing \subseteq Deliveries /\ executing' \subseteq executing /\ d \notin executing'
      BY <1>3 DEF DeliveryTypeOK
    <2>2. \A e \in Deliveries : e \in executing' <=> delivery'[e].step = "execute"
      BY <1>1, <1>2, <1>3 DEF RunExclusive
    <2>3. \A e \in executing' : delivery'[e].result = native' /\ native'.state = "in_progress"
      BY <1>0, <1>1, <2>1 DEF RunExclusive
    <2> QED
      BY <2>1, <2>2, <2>3 DEF RunExclusive
  <1>7. OneBeginning'
    BY <1>0, <1>1, <1>2, <1>4 DEF OneBeginning, Deliveries
  <1>8. Counted'
    BY <1>0, <1>1, <1>2 DEF Counted
  <1> QED
    BY <1>5, <1>6, <1>7, <1>8

(* The bundle is created by the first fresh delivery, or read back.        *)
LEMMA FreezeStep ==
  ASSUME DeliveryInv, NEW d \in Deliveries, FreezeBundle(d)
  PROVE  DeliveryInv'
  <1> USE DeliveryAssumption DEF DeliveryInv, InStep, Move, locks
  <1>0. native' = native /\ receiptFile' = receiptFile /\ executed' = executed
        /\ executing' = executing
    BY DEF FreezeBundle
  <1>1. \A e \in Deliveries \ {d} : delivery'[e] = delivery[e]
    BY DEF FreezeBundle, DeliveryTypeOK
  <1>2. delivery[d].step \in {"freeze", "frozen"}
        /\ delivery'[d].step \in {"frozen", "apply", "unlock"}
        /\ delivery'[d].result = delivery[d].result
    BY DEF FreezeBundle, DeliveryTypeOK, DeliveryRecords
  <1>3. bundleFile # "none" => bundleFile' # "none"
    BY DEF FreezeBundle
  <1>4. DeliveryTypeOK'
    <2>1. PICK step \in {"frozen", "apply", "unlock"} : delivery' = [delivery EXCEPT ![d].step = step]
      BY DEF FreezeBundle
    <2>2. delivery' \in [Deliveries -> DeliveryRecords]
      BY <2>1, Moving DEF DeliverySteps
    <2> QED
      BY <1>0, <2>2 DEF FreezeBundle, DeliveryTypeOK
  <1>5. RunExclusive'
    <2>1. d \notin executing /\ executing \subseteq Deliveries
      BY <1>2 DEF RunExclusive, DeliveryTypeOK
    <2> QED
      BY <1>0, <1>1, <1>2, <2>1 DEF RunExclusive
  <1>6. OneBeginning'
    <2>1. CASE bundleFile = "none" /\ d \in Fresh /\ delivery[d].step = "freeze"
      <3>1. \A e \in Fresh : delivery[e].step \notin {"frozen", "apply"}
        BY <2>1 DEF OneBeginning
      <3>2. bundleFile' # "none" /\ native = NoNative
        BY <2>1 DEF FreezeBundle, OneBeginning
      <3> QED
        BY <1>0, <1>1, <1>2, <3>1, <3>2 DEF OneBeginning, Deliveries
    <2>2. CASE d \in Fresh /\ delivery[d].step = "frozen"
      BY <1>0, <1>1, <1>2, <1>3, <2>2 DEF OneBeginning, Deliveries
    <2>3. CASE d \in Resumed
      <3>1. d \notin Fresh /\ (bundleFile' = "none" => bundleFile = "none")
        BY <2>3, <1>3
      <3> QED
        BY <1>0, <1>1, <1>2, <1>3, <2>3, <3>1 DEF OneBeginning, Deliveries
    <2>4. CASE d \in Fresh /\ delivery[d].step = "freeze" /\ bundleFile # "none"
      <3>1. delivery'[d].step = "unlock"
        BY <2>4 DEF FreezeBundle, DeliveryTypeOK, DeliveryRecords
      <3> QED
        BY <1>0, <1>1, <1>3, <2>4, <3>1 DEF OneBeginning, Deliveries
    <2> QED
      BY <1>2, <2>1, <2>2, <2>3, <2>4 DEF Deliveries
  <1>7. Counted'
    BY <1>0, <1>1, <1>2 DEF Counted
  <1> QED
    BY <1>4, <1>5, <1>6, <1>7

(* A run begins: a fresh one finds nothing, a resumed one goes on from     *)
(* what the receipt counts.                                                *)
LEMMA ApplyStep ==
  ASSUME DeliveryInv, NEW d \in Deliveries, NativeApply(d)
  PROVE  DeliveryInv'
  <1> USE DeliveryAssumption DEF DeliveryInv, InStep, Move
  <1> DEFINE Refused == \/ executing # {}
                        \/ d \in Resumed /\ native.state \notin {"in_progress", "failed"}
  <1>0. bundleFile' = bundleFile /\ receiptFile' = receiptFile /\ executed' = executed
        /\ delivery[d].step = "apply"
        /\ lockFile' = lockFile /\ inodes' = inodes /\ owner' = owner
    BY DEF NativeApply
  <1>1. \A e \in Deliveries \ {d} : delivery'[e] = delivery[e]
    BY DEF NativeApply, DeliveryTypeOK
  <1>2. CASE Refused
    <2>1. native' = native /\ executing' = executing /\ delivery'[d].step = "unlock"
          /\ delivery' = [delivery EXCEPT ![d].step = "unlock"]
      BY <1>2 DEF NativeApply, DeliveryTypeOK, DeliveryRecords
    <2>2. DeliveryTypeOK'
      <3>1. delivery' \in [Deliveries -> DeliveryRecords]
        BY <2>1, Moving DEF DeliverySteps
      <3> QED
        BY <1>0, <2>1, <3>1 DEF DeliveryTypeOK
    <2>3. RunExclusive'
      BY <1>0, <1>1, <2>1 DEF RunExclusive, DeliveryTypeOK
    <2>4. OneBeginning'
      BY <1>0, <1>1, <2>1 DEF OneBeginning, Deliveries
    <2>5. Counted'
      BY <1>0, <1>1, <2>1 DEF Counted
    <2> QED
      BY <2>2, <2>3, <2>4, <2>5
  <1>3. CASE ~Refused
    <2>1. executing = {} /\ executing' = {d} /\ native'.state = "in_progress"
          /\ delivery' = [delivery EXCEPT ![d].step = "execute", ![d].result = native']
          /\ native' = [state |-> "in_progress", by |-> {d},
                        done |-> IF d \in Resumed THEN native.done ELSE 0]
      BY <1>3 DEF NativeApply
    <2>2. native'.done = native.done
      <3>1. CASE d \in Resumed
        BY <2>1, <3>1
      <3>2. CASE d \in Fresh
        BY <1>0, <2>1, <3>2 DEF OneBeginning, NoNative
      <3> QED
        BY <3>1, <3>2 DEF Deliveries
    <2>3. (native.state # "complete" /\ native.state # "none") \/ native = NoNative
      BY <1>0, <1>3 DEF OneBeginning, DeliveryTypeOK, Natives, NativeStates, Deliveries
    <2>4. native' \in Natives
      BY <2>1, <2>2 DEF Natives, NativeStates, DeliveryTypeOK
    <2>5. delivery'[d].step = "execute" /\ delivery'[d].result = native'
      BY <2>1 DEF DeliveryTypeOK
    <2>6. DeliveryTypeOK'
      <3>1. delivery' \in [Deliveries -> DeliveryRecords]
        BY <2>1, <2>4, MovingWith DEF DeliverySteps
      <3> QED
        BY <1>0, <2>1, <2>4, <3>1 DEF DeliveryTypeOK
    <2>7. RunExclusive'
      BY <1>1, <2>1, <2>5 DEF RunExclusive
    <2>8. OneBeginning'
      <3>1. bundleFile # "none"
        BY <1>0, <2>1, <1>3 DEF OneBeginning, Deliveries, NoNative
      <3>2. \A e \in Fresh : delivery'[e].step \notin {"frozen", "apply"}
        <4>1. CASE d \in Fresh
          BY <1>0, <1>1, <2>5, <4>1 DEF OneBeginning, Deliveries
        <4>2. CASE d \in Resumed
          BY <1>0, <1>1, <2>5, <4>2 DEF OneBeginning, Deliveries, NoNative
        <4> QED
          BY <4>1, <4>2 DEF Deliveries
      <3> QED
        BY <1>0, <2>1, <3>1, <3>2 DEF OneBeginning
    <2>9. Counted'
      <3>1. receiptFile.state = "none"
        BY <2>3 DEF Counted, NoNative
      <3>2. \A e \in Deliveries : delivery[e].step # "publish"
        BY <2>3 DEF Counted, NoNative
      <3> QED
        BY <1>0, <1>1, <2>1, <2>2, <2>5, <3>1, <3>2 DEF Counted
    <2> QED
      BY <2>6, <2>7, <2>8, <2>9
  <1> QED
    BY <1>2, <1>3

(* The run executes its next operation, or ends.                           *)
LEMMA DeliveryRunStep ==
  ASSUME DeliveryInv, NEW d \in Deliveries, ExecuteOperation(d) \/ EndApply(d)
  PROVE  DeliveryInv'
  <1> USE DeliveryAssumption DEF DeliveryInv, InStep, Move
  <1>0. bundleFile' = bundleFile /\ receiptFile' = receiptFile /\ delivery[d].step = "execute"
        /\ lockFile' = lockFile /\ inodes' = inodes /\ owner' = owner
    BY DEF ExecuteOperation, EndApply, locks
  <1>1. \A e \in Deliveries \ {d} : delivery'[e] = delivery[e] /\ delivery[e].step # "execute"
    BY <1>0 DEF ExecuteOperation, EndApply, Checkpoint, DeliveryTypeOK, RunExclusive
  <1>2. executing = {d} /\ delivery[d].result = native /\ native.state = "in_progress"
        /\ native \in Natives
    BY <1>0 DEF RunExclusive, DeliveryTypeOK
  <1>3. receiptFile.state = "none" /\ bundleFile # "none"
        /\ \A e \in Deliveries : delivery[e].step # "publish"
    BY <1>2 DEF Counted, OneBeginning, NoNative
  <1>4. \A e \in Fresh : delivery[e].step \notin {"frozen", "apply"}
    BY <1>2 DEF OneBeginning, NoNative
  <1>5. CASE ExecuteOperation(d)
    <2>1. native' = [native EXCEPT !.done = native.done + 1] /\ native.done + 1 <= Operations
          /\ delivery' = [delivery EXCEPT ![d].result = native']
          /\ executed' = [executed EXCEPT ![native.done + 1] = @ + 1]
          /\ executing' = executing
      BY <1>2, <1>5 DEF ExecuteOperation, Checkpoint, locks
    <2>2. native.done \in 0..Operations /\ native.done + 1 \in 1..Operations
      BY <1>2, <2>1 DEF Natives
    <2>3. native' \in Natives /\ native'.state = "in_progress" /\ native'.done = native.done + 1
      BY <1>2, <2>1, <2>2 DEF Natives
    <2>4. delivery'[d].step = "execute" /\ delivery'[d].result = native'
      BY <1>0, <2>1 DEF DeliveryTypeOK, DeliveryRecords
    <2>5. DeliveryTypeOK'
      <3>1. delivery' \in [Deliveries -> DeliveryRecords]
        BY <2>1, <2>3, MovingWith DEF DeliverySteps
      <3>2. executed' \in [1..Operations -> Nat]
        BY <2>1, <2>2 DEF DeliveryTypeOK
      <3> QED
        BY <1>0, <2>1, <2>3, <3>1, <3>2 DEF DeliveryTypeOK
    <2>6. RunExclusive'
      BY <1>1, <1>2, <2>1, <2>3, <2>4 DEF RunExclusive
    <2>7. OneBeginning'
      BY <1>0, <1>1, <1>3, <1>4, <2>3, <2>4 DEF OneBeginning, Deliveries
    <2>8. Counted'
      <3>1. \A o \in 1..Operations : executed'[o] = IF o <= native'.done THEN 1 ELSE 0
        BY <2>1, <2>2, <2>3 DEF Counted, DeliveryTypeOK
      <3> QED
        BY <1>0, <1>1, <1>3, <2>3, <2>4, <3>1 DEF Counted
    <2> QED
      BY <2>5, <2>6, <2>7, <2>8
  <1>6. CASE EndApply(d)
    <2>1. PICK ending \in {"failed", "complete"} :
            /\ ending = "complete" => native.done = Operations
            /\ native' = [native EXCEPT !.state = ending]
            /\ delivery' = [delivery EXCEPT ![d].result.state = ending,
                   ![d].step = IF ending = "failed" THEN "unlock" ELSE "readback"]
      BY <1>2, <1>6 DEF EndApply
    <2>2. executing' = {} /\ executed' = executed
      BY <1>2, <1>6 DEF EndApply
    <2>3. native' \in Natives /\ native'.state = ending /\ native'.done = native.done
      BY <1>2, <2>1 DEF Natives, NativeStates
    <2>4. delivery'[d].step = (IF ending = "failed" THEN "unlock" ELSE "readback")
          /\ delivery'[d].result.state = ending
      BY <2>1, <2>3 DEF DeliveryTypeOK, DeliveryRecords, Natives
    <2>5. DeliveryTypeOK'
      <3>1. delivery' \in [Deliveries -> DeliveryRecords]
        <4>1. delivery' = [delivery EXCEPT ![d].step = IF ending = "failed" THEN "unlock" ELSE "readback",
                                           ![d].result = native']
          BY <1>2, <2>1 DEF DeliveryTypeOK, DeliveryRecords
        <4> QED
          BY <2>3, <4>1, MovingWith DEF DeliverySteps
      <3> QED
        BY <1>0, <2>2, <2>3, <3>1 DEF DeliveryTypeOK
    <2>6. RunExclusive'
      BY <1>1, <2>2, <2>4 DEF RunExclusive
    <2>7. OneBeginning'
      BY <1>0, <1>1, <1>3, <1>4, <2>3, <2>4 DEF OneBeginning, Deliveries
    <2>8. Counted'
      <3>1. \A o \in 1..Operations : executed'[o] = IF o <= native'.done THEN 1 ELSE 0
        BY <2>2, <2>3 DEF Counted
      <3>2. native'.state = "complete" => native'.done = Operations
        BY <2>1, <2>3
      <3>3. \A e \in Deliveries :
              /\ delivery'[e].step \in {"readback", "publish", "published"} =>
                   delivery'[e].result.state = "complete"
              /\ delivery'[e].step # "publish"
        <4>1. ASSUME NEW e \in Deliveries \ {d}
              PROVE  /\ delivery'[e].step \in {"readback", "publish", "published"} =>
                          delivery'[e].result.state = "complete"
                     /\ delivery'[e].step # "publish"
          BY <1>1, <1>3, <4>1 DEF Counted
        <4>2. delivery'[d].step \in {"unlock", "readback"}
              /\ (delivery'[d].step = "readback" => delivery'[d].result.state = "complete")
          BY <2>4
        <4> QED
          BY <4>1, <4>2
      <3>4. \A e \in Deliveries : delivery'[e].step # "published"
        <4>1. \A e \in Deliveries : delivery[e].step # "published"
          BY <1>3 DEF Counted
        <4>2. delivery'[d].step # "published"
          BY <2>4
        <4> QED
          BY <1>1, <4>1, <4>2
      <3> QED
        BY <1>0, <1>3, <3>1, <3>2, <3>3, <3>4 DEF Counted
    <2> QED
      BY <2>5, <2>6, <2>7, <2>8
  <1> QED
    BY <1>5, <1>6

(* A complete execution is bound by the one delivery receipt.              *)
LEMMA PublishStep ==
  ASSUME DeliveryInv, NEW d \in Deliveries, ReadNative(d) \/ PublishDelivery(d)
  PROVE  DeliveryInv'
  <1> USE DeliveryAssumption DEF DeliveryInv, InStep, Move, locks, outputs
  <1>0. bundleFile' = bundleFile /\ native' = native /\ executed' = executed /\ executing' = executing
        /\ lockFile' = lockFile /\ inodes' = inodes /\ owner' = owner
    BY DEF ReadNative, PublishDelivery
  <1>1. \A e \in Deliveries \ {d} : delivery'[e] = delivery[e]
    BY DEF ReadNative, PublishDelivery, DeliveryTypeOK
  <1>2. delivery[d].step \in {"readback", "publish", "published"}
        /\ delivery'[d].step \in {"publish", "published", "unlock"}
        /\ delivery'[d].result = delivery[d].result /\ delivery[d].result.state = "complete"
    BY DEF ReadNative, PublishDelivery, DeliveryTypeOK, DeliveryRecords, Counted
  <1>3. DeliveryTypeOK'
    <2>1. PICK step \in {"publish", "published", "unlock"} :
            delivery' = [delivery EXCEPT ![d].step = step]
      BY DEF ReadNative, PublishDelivery
    <2>2. delivery' \in [Deliveries -> DeliveryRecords]
      BY <2>1, Moving DEF DeliverySteps
    <2>3. receiptFile' \in [state : {"none", "part", "whole"}, binds : Natives]
      <3>1. delivery[d].result \in Natives
        BY DEF DeliveryTypeOK, DeliveryRecords
      <3>2. \/ receiptFile' = receiptFile
            \/ receiptFile' = [state |-> "part", binds |-> delivery[d].result]
            \/ receiptFile' = [receiptFile EXCEPT !.state = "whole"]
        BY DEF ReadNative, PublishDelivery
      <3> QED
        BY <3>1, <3>2 DEF DeliveryTypeOK
    <2> QED
      BY <1>0, <2>2, <2>3 DEF DeliveryTypeOK
  <1>4. RunExclusive'
    <2>1. d \notin executing /\ executing \subseteq Deliveries
      BY <1>2 DEF RunExclusive, DeliveryTypeOK
    <2> QED
      BY <1>0, <1>1, <1>2, <2>1 DEF RunExclusive
  <1>5. OneBeginning'
    BY <1>0, <1>1, <1>2 DEF OneBeginning, Deliveries
  <1>6. Counted'
    <2>1. CASE ReadNative(d)
      <3>1. delivery'[d].step = "publish" => native = delivery[d].result
        BY <2>1 DEF ReadNative, DeliveryTypeOK, DeliveryRecords
      <3>2. receiptFile' = receiptFile /\ delivery'[d].step # "published"
        BY <2>1 DEF ReadNative, DeliveryTypeOK, DeliveryRecords
      <3> QED
        BY <1>0, <1>1, <1>2, <3>1, <3>2 DEF Counted
    <2>2. CASE PublishDelivery(d)
      <3>1. delivery'[d].step \in {"published", "unlock"}
        BY <2>2 DEF PublishDelivery, DeliveryTypeOK, DeliveryRecords
      <3>2. receiptFile'.state # "none" /\ native = receiptFile'.binds /\ native.state = "complete"
        BY <1>2, <2>2 DEF PublishDelivery, DeliveryTypeOK, Counted
      <3> QED
        BY <1>0, <1>1, <1>2, <3>1, <3>2 DEF Counted
    <2> QED
      BY <2>1, <2>2
  <1> QED
    BY <1>3, <1>4, <1>5, <1>6

(* The invariant holds always, for any number of deliveries, operations    *)
(* and lock files.                                                         *)
THEOREM DeliveryInvariance == DeliverySpec => []DeliveryInv
  <1>1. ASSUME DeliveryInv, [DeliveryNext]_deliveryVars
        PROVE  DeliveryInv'
    <2>1. CASE DeliveryNext
      BY <1>1, <2>1, ElsewhereStep, FreezeStep, ApplyStep, DeliveryRunStep, PublishStep
         DEF DeliveryNext, Elsewhere
    <2>2. CASE UNCHANGED deliveryVars
      BY <1>1, <2>2 DEF deliveryVars, DeliveryInv, DeliveryTypeOK, RunExclusive, OneBeginning,
                        Counted, InStep
    <2> QED
      BY <1>1, <2>1, <2>2
  <1> QED
    BY DeliveryInitInv, <1>1, PTL DEF DeliverySpec

(* However deliveries are killed and resumed, and although two of them can *)
(* own the output directory, no operation of the bundle is executed twice, *)
(* and the receipt that is published binds the one complete execution.     *)
THEOREM BundlesAreDeliveredOnce == DeliverySpec => []DeliveredOnce
  <1>1. DeliveryInv => DeliveredOnce
    BY DeliveryAssumption DEF DeliveryInv, Counted, DeliveredOnce
  <1> QED
    BY DeliveryInvariance, <1>1, PTL

-----------------------------------------------------------------------------
(* Snapshots.  A record that has left the board never comes back: its      *)
(* identity is not used again, and its version only grows.                 *)

SnapRecords == [id : Nat \ {0}, version : Nat]
Reads == [items : Seq(SnapRecords), comments : Seq(SnapRecords), itemPages : Nat,
          commentPages : Nat]
ReaderSteps == {"items", "comments", "failed", "verified"}
Readers == [step : ReaderSteps, first : Reads, now : Reads, second : BOOLEAN, cursor : Nat,
            cursors : SUBSET Nat, pages : SUBSET Seq(SnapRecords)]

(* Identities are given once; the lists are in the order of creation.      *)
NextId == SnapItems + SnapComments + 1 + revised
Rising(s) == \A i, j \in 1..Len(s) : i < j => s[i].id < s[j].id
Falling(s) == \A i, j \in 1..Len(s) : i < j => s[j].id < s[i].id
Disjoint(s, t) == Ids(Range(s)) \cap Ids(Range(t)) = {}

BoardOK ==
  /\ pinned \in Seq(SnapRecords) /\ remarks \in Seq(SnapRecords) /\ revised \in Nat
  /\ Rising(pinned) /\ Falling(remarks) /\ Disjoint(pinned, remarks)
  /\ \A r \in Shown(pinned, remarks) : r.id < NextId
  /\ kept \subseteq Shown(pinned, remarks)

(* The record was on the board once; it was, and is not any more.          *)
Past(r) ==
  /\ r.id < NextId
  /\ \A x \in Shown(pinned, remarks) : x.id = r.id => x.version >= r.version
Gone(r) ==
  /\ r.id < NextId
  /\ \A x \in Shown(pinned, remarks) : x.id = r.id => x.version > r.version

ReadIn(read) == Range(read.items) \cup Range(read.comments)

(* What has been read was there, items as items and comments as comments.  *)
ReadTrue ==
  /\ \A r \in ReadIn(reader.now) : Past(r)
  /\ \A r \in Range(reader.now.comments) : r.id \notin Ids(Range(pinned))

(* Up to each cursor all items that stay have been read.                   *)
ItemsRead ==
  /\ reader.now.comments = <<>>
  /\ \A c \in reader.cursors \cup {NoCursor} : \A r \in kept \cap Range(pinned) :
       r.id <= c => r \in Range(reader.now.items)

(* A comment that stays has been read, or is still to come, unless the     *)
(* pages have a comment that has been erased, or have one twice.           *)
CommentsRead ==
  /\ kept \cap Range(pinned) \subseteq Range(reader.now.items)
  /\ \/ ~Distinct(reader.now.comments)
     \/ \E x \in Range(reader.now.comments) : x.id \notin Ids(Range(remarks))
     \/ \A r \in kept \cap Range(remarks) :
          \/ r \in Range(reader.now.comments)
          \/ \A x \in Range(reader.now.comments) : x.id > r.id

(* What the second read has in common with the first was there in between; *)
(* the first has all that stays, unless something it has is gone.          *)
SecondRead ==
  /\ \A r \in ReadIn(reader.first) : r \in midway \/ Gone(r)
  /\ \A r \in ReadIn(reader.now) : r \in ReadIn(reader.first) => r \in midway
  /\ kept \subseteq ReadIn(reader.first) \/ \E x \in ReadIn(reader.first) : x \notin midway

SnapInv ==
  /\ BoardOK
  /\ reader \in Readers /\ reader.cursor \in reader.cursors \cup {NoCursor}
  /\ ReadTrue
  /\ reader.step = "items" /\ ~reader.second => ItemsRead
  /\ reader.step = "comments" /\ ~reader.second => CommentsRead
  /\ reader.second => SecondRead
  /\ reader.step = "verified" =>
       reader.second /\ VerifySnapshotPair(reader.first, reader.now)

(* The numbers up to n.                                                    *)
LEMMA CountUpTo ==
  ASSUME NEW n \in Nat
  PROVE  IsFiniteSet(1..n) /\ Cardinality(1..n) = n
  <1>1. 1 \in Int /\ n \in Int
    OBVIOUS
  <1>2. IsFiniteSet(1..n) /\ Cardinality(1..n) = IF 1 > n THEN 0 ELSE n - 1 + 1
    BY <1>1, FS_Interval
  <1> QED
    BY <1>2

(* The records of a list.                                                  *)
LEMMA ListRange ==
  ASSUME NEW s \in Seq(SnapRecords)
  PROVE  /\ Len(s) \in Nat
         /\ Range(s) \subseteq SnapRecords
         /\ \A i \in 1..Len(s) : s[i] \in Range(s) /\ s[i] \in SnapRecords
         /\ \A x \in Range(s) : \E i \in 1..Len(s) : x = s[i]
         /\ \A x : x \in Ids(Range(s)) <=> \E r \in Range(s) : x = r.id
  <1>1. Range(s) = {s[i] : i \in 1..Len(s)}
    BY RangeEquality
  <1>2. Len(s) \in Nat /\ \A i \in 1..Len(s) : s[i] \in SnapRecords
    BY LenProperties, ElementOfSeq
  <1> QED
    BY <1>1, <1>2 DEF Ids

(* There is nothing in an empty list.                                      *)
LEMMA RangeOfNone == Range(<<>>) = {}
  <1>1. <<>> \in Seq(SnapRecords) /\ Len(<<>>) = 0
    OBVIOUS
  <1>2. \A x \in Range(<<>>) : \E i \in 1..Len(<<>>) : x = (<<>>)[i]
    BY <1>1, ListRange
  <1> QED
    BY <1>1, <1>2

(* One list behind the other.                                              *)
LEMMA ListJoin ==
  ASSUME NEW s \in Seq(SnapRecords), NEW t \in Seq(SnapRecords)
  PROVE  /\ s \o t \in Seq(SnapRecords) /\ Len(s \o t) = Len(s) + Len(t)
         /\ Range(s \o t) = Range(s) \cup Range(t)
         /\ \A i \in 1..Len(s) : (s \o t)[i] = s[i]
         /\ \A i \in 1..Len(t) : (s \o t)[Len(s) + i] = t[i]
  BY ConcatProperties, RangeConcatenation, LenProperties

(* A page has what follows its offset, all of it or as much as it takes.   *)
PageOf(s, n, page) ==
  /\ page \in Seq(SnapRecords)
  /\ \A j \in 1..Len(page) : n + j \in 1..Len(s) /\ page[j] = s[n + j]
  /\ \A i \in 1..Len(s) : i > n /\ (i <= n + PageLimit \/ i <= n + Len(page))
                            => page[i - n] = s[i] /\ i - n \in 1..Len(page)
  /\ n + PageLimit < Len(s) => Len(page) = PageLimit
  /\ Len(s) > n => Len(page) >= 1
  /\ Range(page) \subseteq Range(s)

(* That is what PageFrom gives.                                            *)
LEMMA PageIs ==
  ASSUME NEW s \in Seq(SnapRecords), NEW n \in Nat
  PROVE  PageOf(s, n, PageFrom(s, n))
  <1> DEFINE page == PageFrom(s, n)
  <1>1. Len(s) \in Nat /\ \A i \in 1..Len(s) : s[i] \in SnapRecords
    BY ListRange
  <1>2. PageLimit \in Nat /\ PageLimit >= 1
    BY SnapAssumption
  <1>3. PICK end \in Nat : end = IF n + PageLimit < Len(s) THEN n + PageLimit ELSE Len(s)
    BY <1>1, <1>2
  <1>4. end <= Len(s) /\ page = SubSeq(s, n + 1, end)
    BY <1>1, <1>2, <1>3 DEF PageFrom
  <1> HIDE DEF page
  <1>5. \A i \in n + 1 .. end : s[i] \in SnapRecords
    BY <1>1, <1>4
  <1>6. /\ page \in Seq(SnapRecords)
        /\ Len(page) = IF n + 1 <= end THEN end - (n + 1) + 1 ELSE 0
        /\ \A j \in 1 .. end - (n + 1) + 1 : page[j] = s[(n + 1) + j - 1]
    BY <1>4, <1>5, SubSeqProperties
  <1>7. Len(page) = IF n < end THEN end - n ELSE 0
    BY <1>6
  <1>8. \A j \in 1..Len(page) : n + j \in 1..Len(s) /\ page[j] = s[n + j]
    BY <1>1, <1>4, <1>6, <1>7
  <1>9. \A i \in 1..Len(s) : i > n /\ (i <= n + PageLimit \/ i <= n + Len(page))
                               => page[i - n] = s[i] /\ i - n \in 1..Len(page)
    <2> TAKE i \in 1..Len(s)
    <2> HAVE i > n /\ (i <= n + PageLimit \/ i <= n + Len(page))
    <2>1. i <= end
      BY <1>1, <1>2, <1>3, <1>4, <1>7
    <2>2. i - n \in 1..Len(page)
      BY <1>1, <1>7, <2>1
    <2> QED
      BY <1>1, <1>8, <2>2
  <1>10. n + PageLimit < Len(s) => Len(page) = PageLimit
    BY <1>1, <1>2, <1>3, <1>7
  <1>11. Len(s) > n => Len(page) >= 1
    BY <1>1, <1>2, <1>3, <1>7
  <1>12. Range(page) \subseteq Range(s)
    <2> SUFFICES ASSUME NEW x \in Range(page) PROVE x \in Range(s)
      OBVIOUS
    <2>1. PICK j \in 1..Len(page) : x = page[j]
      BY <1>6, ListRange
    <2> QED
      BY <1>8, <2>1, ListRange
  <1> QED
    BY <1>6, <1>8, <1>9, <1>10, <1>11, <1>12 DEF PageOf, page

(* A record on the board is known by its identity.                         *)
LEMMA OnBoard ==
  ASSUME BoardOK, NEW r \in Shown(pinned, remarks)
  PROVE  /\ \A x \in Shown(pinned, remarks) : x.id = r.id => x = r
         /\ r.id \in Nat /\ r.id > 0 /\ r.version \in Nat
         /\ Past(r) /\ ~Gone(r)
         /\ r \in Range(remarks) => r.id \notin Ids(Range(pinned))
  <1>1. r \in SnapRecords /\ r.id < NextId
    BY ListRange DEF BoardOK, Shown
  <1>2. ASSUME NEW x \in Shown(pinned, remarks), x.id = r.id PROVE x = r
    <2>1. CASE x \in Range(pinned) /\ r \in Range(pinned)
      <3>1. PICK i \in 1..Len(pinned) : x = pinned[i]
        BY <2>1, ListRange DEF BoardOK
      <3>2. PICK j \in 1..Len(pinned) : r = pinned[j]
        BY <2>1, ListRange DEF BoardOK
      <3>3. Len(pinned) \in Nat /\ r.id \in Nat
        BY <1>1, ListRange DEF BoardOK, SnapRecords
      <3>4. ~(i < j) /\ ~(j < i)
        BY <1>2, <3>1, <3>2, <3>3 DEF BoardOK, Rising
      <3> QED
        BY <3>1, <3>2, <3>3, <3>4
    <2>2. CASE x \in Range(remarks) /\ r \in Range(remarks)
      <3>1. PICK i \in 1..Len(remarks) : x = remarks[i]
        BY <2>2, ListRange DEF BoardOK
      <3>2. PICK j \in 1..Len(remarks) : r = remarks[j]
        BY <2>2, ListRange DEF BoardOK
      <3>3. Len(remarks) \in Nat /\ r.id \in Nat
        BY <1>1, ListRange DEF BoardOK, SnapRecords
      <3>4. ~(i < j) /\ ~(j < i)
        BY <1>2, <3>1, <3>2, <3>3 DEF BoardOK, Falling
      <3> QED
        BY <3>1, <3>2, <3>3, <3>4
    <2>3. ~(x \in Range(pinned) /\ r \in Range(remarks)) /\ ~(x \in Range(remarks) /\ r \in Range(pinned))
      BY <1>2 DEF BoardOK, Disjoint, Ids
    <2> QED
      BY <2>1, <2>2, <2>3 DEF Shown
  <1>3. r.id \in Nat /\ r.id > 0 /\ r.version \in Nat
    BY <1>1 DEF SnapRecords
  <1>4. Past(r)
    BY <1>1, <1>2, <1>3 DEF Past
  <1>5. ~Gone(r)
    BY <1>3 DEF Gone
  <1>6. r \in Range(remarks) => r.id \notin Ids(Range(pinned))
    BY DEF BoardOK, Disjoint, Ids
  <1> QED
    BY <1>2, <1>3, <1>4, <1>5, <1>6

(* The page of items behind a cursor.                                      *)
LEMMA ItemPageIs ==
  ASSUME BoardOK, NEW c \in Nat, NEW page, page = ItemPage(c)
  PROVE  /\ page \in Seq(SnapRecords) /\ Range(page) \subseteq Range(pinned)
         /\ \A r \in Range(pinned) :
              r.id > c /\ (~MoreItems(page) \/ r.id <= Last(page).id) => r \in Range(page)
         /\ MoreItems(page) => Last(page).id \in Nat
  <1> DEFINE P == {i \in DOMAIN pinned : pinned[i].id <= c}
             k == Cardinality(P)
  <1>1. /\ pinned \in Seq(SnapRecords) /\ Len(pinned) \in Nat /\ DOMAIN pinned = 1..Len(pinned)
        /\ \A i \in 1..Len(pinned) : pinned[i] \in SnapRecords /\ pinned[i].id \in Nat
    BY ListRange DEF BoardOK, SnapRecords
  <1>2. P \subseteq 1..Len(pinned) /\ IsFiniteSet(1..Len(pinned))
          /\ Cardinality(1..Len(pinned)) = Len(pinned)
    BY <1>1, CountUpTo
  <1>3. IsFiniteSet(P) /\ k \in Nat /\ k <= Len(pinned)
    BY <1>1, <1>2, FS_Subset, FS_CardinalityType
  <1>4. \A i \in 1..Len(pinned) : i \in P <=> i <= k
    <2> TAKE i \in 1..Len(pinned)
    <2>1. CASE i \in P
      <3>1. 1..i \subseteq P
        BY <1>1, <2>1 DEF BoardOK, Rising
      <3>2. Cardinality(1..i) = i /\ Cardinality(1..i) <= k
        <4>1. i \in Nat
          OBVIOUS
        <4>2. Cardinality(1..i) = i
          BY <4>1, CountUpTo
        <4> QED
          BY <1>3, <3>1, <4>2, FS_Subset
      <3> QED
        BY <2>1, <3>2
    <2>2. CASE i \notin P
      <3>1. P \subseteq 1..(i - 1)
        BY <1>1, <2>2 DEF BoardOK, Rising
      <3>2. IsFiniteSet(1..(i - 1)) /\ Cardinality(1..(i - 1)) = i - 1
        <4>1. i - 1 \in Nat
          OBVIOUS
        <4> QED
          BY <4>1, CountUpTo
      <3>3. k <= i - 1
        BY <3>1, <3>2, FS_Subset
      <3> QED
        BY <1>1, <1>3, <2>2, <3>3
    <2> QED
      BY <2>1, <2>2
  <1>5. page = PageFrom(pinned, k)
    BY DEF ItemPage
  <1>6. \A i \in 1..Len(pinned) : pinned[i].id <= c <=> i <= k
    BY <1>1, <1>4
  <1> HIDE DEF k, P
  <1>7. /\ page \in Seq(SnapRecords) /\ Range(page) \subseteq Range(pinned)
        /\ \A j \in 1..Len(page) : k + j \in 1..Len(pinned) /\ page[j] = pinned[k + j]
        /\ \A i \in 1..Len(pinned) : i > k /\ (i <= k + PageLimit \/ i <= k + Len(page))
                                       => page[i - k] = pinned[i] /\ i - k \in 1..Len(page)
        /\ Len(pinned) > k => Len(page) >= 1
    <2>1. PageOf(pinned, k, page)
      BY <1>1, <1>3, <1>5, PageIs
    <2> QED
      BY <2>1 DEF PageOf
  <1>8. Len(page) \in Nat /\ \A j \in 1..Len(page) : page[j] \in Range(page)
    BY <1>7, ListRange
  <1>9. ASSUME NEW r \in Range(pinned), r.id > c, ~MoreItems(page) \/ r.id <= Last(page).id
        PROVE  r \in Range(page)
    <2>1. PICK i \in 1..Len(pinned) : r = pinned[i]
      BY <1>1, ListRange
    <2>2. i > k
      BY <1>1, <1>3, <1>6, <1>9, <2>1
    <2>3. Len(page) >= 1 /\ page # <<>>
      BY <1>1, <1>3, <1>7, <2>2
    <2>4. r.id <= Last(page).id
      <3>1. CASE ~MoreItems(page)
        <4>1. page[Len(page)] \in SnapRecords
          BY <1>7, <2>3, ListRange
        <4>2. Last(page).id \in Nat
          BY <4>1 DEF Last, SnapRecords
        <4> QED
          BY <1>1, <2>1, <2>3, <3>1, <4>2 DEF MoreItems
      <3> QED
        BY <1>9, <3>1
    <2>5. Last(page) = pinned[k + Len(page)] /\ k + Len(page) \in 1..Len(pinned)
      BY <1>7, <1>8, <2>3 DEF Last
    <2>6. i <= k + Len(page)
      <3> SUFFICES ASSUME k + Len(page) < i PROVE FALSE
        BY <1>1, <1>3, <1>8
      <3>1. pinned[k + Len(page)].id < pinned[i].id
        BY <2>5 DEF BoardOK, Rising
      <3> QED
        BY <1>1, <2>1, <2>4, <2>5, <3>1
    <2>7. page[i - k] = r /\ i - k \in 1..Len(page)
      BY <1>7, <2>1, <2>2, <2>6
    <2> QED
      BY <1>8, <2>7
  <1>10. ASSUME MoreItems(page) PROVE Last(page).id \in Nat
    <2>1. page # <<>>
      BY <1>10 DEF MoreItems
    <2>2. Len(page) >= 1
      BY <1>7, <1>8, <2>1
    <2>3. page[Len(page)] \in SnapRecords
      BY <1>7, <1>8, <2>2, ListRange
    <2> QED
      BY <2>3 DEF Last, SnapRecords
  <1> QED
    BY <1>7, <1>9, <1>10

(* What an edit leaves of a list: records of n, or older ones no older.    *)
Kin(s, t, n) ==
  /\ t \in Seq(SnapRecords)
  /\ \A x \in Range(t) :
       x.id = n \/ \E y \in Range(s) : y.id = x.id /\ y.version <= x.version

(* A list is akin to itself.                                               *)
LEMMA KinSelf ==
  ASSUME NEW s \in Seq(SnapRecords), NEW n
  PROVE  Kin(s, s, n)
  BY ListRange DEF Kin, SnapRecords

(* A new item goes to the end.                                             *)
LEMMA NewItem ==
  ASSUME NEW s \in Seq(SnapRecords), NEW n \in Nat \ {0}, \A r \in Range(s) : r.id < n
  PROVE  /\ Kin(s, Append(s, Record(n, 1)), n)
         /\ Rising(s) => Rising(Append(s, Record(n, 1)))
  <1> DEFINE new == Record(n, 1)
             t == Append(s, new)
  <1>1. new \in SnapRecords /\ new.id = n
    BY DEF Record, SnapRecords
  <1> HIDE DEF new
  <1>2. /\ t \in Seq(SnapRecords) /\ Len(t) = Len(s) + 1
        /\ \A i \in 1..Len(s) : t[i] = s[i]
        /\ t[Len(s) + 1] = new /\ Range(t) = Range(s) \cup {new}
    BY <1>1, AppendProperties, RangeConcatenation, RangeEquality DEF Range
  <1> HIDE DEF t
  <1>3. \A i \in 1..Len(s) : s[i].id < n
    BY ListRange
  <1>4. Kin(s, t, n)
    BY <1>1, <1>2, ListRange DEF Kin, SnapRecords
  <1>5. Rising(s) => Rising(t)
    <2> SUFFICES ASSUME Rising(s), NEW i \in 1..Len(t), NEW j \in 1..Len(t), i < j
                 PROVE  t[i].id < t[j].id
      BY DEF Rising
    <2>1. Len(s) \in Nat /\ i \in 1..Len(s) /\ (j \in 1..Len(s) \/ j = Len(s) + 1)
      BY <1>2, ListRange
    <2> QED
      BY <1>1, <1>2, <1>3, <2>1 DEF Rising
  <1> QED
    BY <1>4, <1>5 DEF t, new

(* A new comment comes first.                                              *)
LEMMA NewComment ==
  ASSUME NEW s \in Seq(SnapRecords), NEW n \in Nat \ {0}, \A r \in Range(s) : r.id < n
  PROVE  /\ Kin(s, <<Record(n, 1)>> \o s, n)
         /\ Falling(s) => Falling(<<Record(n, 1)>> \o s)
  <1> DEFINE new == Record(n, 1)
             one == <<new>>
             t == one \o s
  <1>1. new \in SnapRecords /\ new.id = n
    BY DEF Record, SnapRecords
  <1> HIDE DEF new
  <1>2. one \in Seq(SnapRecords) /\ Len(one) = 1 /\ one[1] = new
    BY <1>1
  <1>3. Range(one) = {new}
    <2>1. \A x \in Range(one) : \E i \in 1..Len(one) : x = one[i]
      BY <1>2, ListRange
    <2>2. one[1] \in Range(one)
      <3>1. 1 \in 1..Len(one)
        BY <1>2
      <3> QED
        BY <1>2, <3>1, ListRange
    <2> QED
      BY <1>2, <2>1, <2>2
  <1> HIDE DEF one
  <1>4. /\ t \in Seq(SnapRecords) /\ Len(t) = 1 + Len(s)
        /\ t[1] = new /\ \A i \in 1..Len(s) : t[1 + i] = s[i]
        /\ Range(t) = Range(s) \cup {new}
    BY <1>2, <1>3, ListJoin
  <1> HIDE DEF t
  <1>5. \A i \in 1..Len(s) : s[i].id < n
    BY ListRange
  <1>6. Kin(s, t, n)
    BY <1>1, <1>4, ListRange DEF Kin, SnapRecords
  <1>7. Falling(s) => Falling(t)
    <2> SUFFICES ASSUME Falling(s), NEW i \in 1..Len(t), NEW j \in 1..Len(t), i < j
                 PROVE  t[j].id < t[i].id
      BY DEF Falling
    <2>1. Len(s) \in Nat /\ j - 1 \in 1..Len(s) /\ (i = 1 \/ i - 1 \in 1..Len(s))
      BY <1>4, ListRange
    <2>2. t[j] = s[j - 1]
      BY <1>4, <2>1
    <2>3. CASE i = 1
      BY <1>1, <1>4, <1>5, <2>1, <2>2, <2>3
    <2>4. CASE i - 1 \in 1..Len(s)
      <3>1. t[i] = s[i - 1]
        BY <1>4, <2>4
      <3> QED
        BY <2>1, <2>2, <2>4, <3>1 DEF Falling
    <2> QED
      BY <2>1, <2>3, <2>4
  <1> QED
    BY <1>6, <1>7 DEF t, one, new

(* A record that changes stays where it is.                                *)
LEMMA OneChanged ==
  ASSUME NEW s \in Seq(SnapRecords), NEW k \in DOMAIN s, NEW n,
         NEW t, t = [s EXCEPT ![k].version = @ + 1]
  PROVE  /\ Kin(s, t, n)
         /\ Rising(s) => Rising(t)
         /\ Falling(s) => Falling(t)
  <1>1. Len(s) \in Nat /\ DOMAIN s = 1..Len(s) /\ \A i \in 1..Len(s) : s[i] \in SnapRecords
    BY ListRange
  <1> DEFINE rec == [s[k] EXCEPT !.version = @ + 1]
  <1>2. rec \in SnapRecords /\ rec.id = s[k].id /\ s[k].version <= rec.version
    <2>1. PICK r \in SnapRecords : r = s[k]
      BY <1>1
    <2>2. [r EXCEPT !.version = @ + 1] \in SnapRecords
      <3>1. r.version + 1 \in Nat
        BY DEF SnapRecords
      <3>2. \A e \in Nat : [r EXCEPT !.version = e] \in SnapRecords
        BY DEF SnapRecords
      <3> QED
        BY <3>1, <3>2
    <2>3. [r EXCEPT !.version = @ + 1].version = r.version + 1
      BY DEF SnapRecords
    <2>4. [r EXCEPT !.version = @ + 1].id = r.id /\ r.version <= r.version + 1
      BY DEF SnapRecords
    <2> QED
      BY <2>1, <2>2, <2>3, <2>4
  <1>3. t = [s EXCEPT ![k] = rec]
    OBVIOUS
  <1> HIDE DEF rec
  <1>4. t \in Seq(SnapRecords) /\ Len(t) = Len(s)
    BY <1>1, <1>2, <1>3, ExceptSeq
  <1>5. \A i \in 1..Len(s) : t[i] = IF i = k THEN rec ELSE s[i]
    BY <1>1, <1>3
  <1>6. \A i \in 1..Len(s) : t[i].id = s[i].id /\ s[i].version <= t[i].version
    BY <1>1, <1>2, <1>5 DEF SnapRecords
  <1>7. Kin(s, t, n)
    <2> SUFFICES ASSUME NEW x \in Range(t)
                 PROVE  \E y \in Range(s) : y.id = x.id /\ y.version <= x.version
      BY <1>4 DEF Kin
    <2> PICK u \in Seq(SnapRecords) : u = t
      BY <1>4
    <2>1. PICK i \in 1..Len(u) : x = u[i]
      BY ListRange
    <2>2. i \in 1..Len(s)
      BY <1>4
    <2> QED
      BY <1>6, <2>1, <2>2, ListRange
  <1> QED
    BY <1>4, <1>6, <1>7 DEF Rising, Falling

(* A record that goes leaves the others in their order.                    *)
LEMMA OneErased ==
  ASSUME NEW s \in Seq(SnapRecords), NEW k \in DOMAIN s, NEW n
  PROVE  /\ Kin(s, RemoveAt(s, k), n)
         /\ Rising(s) => Rising(RemoveAt(s, k))
         /\ Falling(s) => Falling(RemoveAt(s, k))
  <1> DEFINE u == SubSeq(s, 1, k - 1)
             v == SubSeq(s, k + 1, Len(s))
             t == u \o v
             from(i) == IF i < k THEN i ELSE i + 1
  <1>1. Len(s) \in Nat /\ k \in 1..Len(s) /\ \A i \in 1..Len(s) : s[i] \in SnapRecords
    BY ListRange
  <1>2. /\ u \in Seq(SnapRecords) /\ Len(u) = k - 1
        /\ \A i \in 1..k - 1 : u[i] = s[i]
    <2>1. \A i \in 1..k - 1 : s[i] \in SnapRecords
      BY <1>1
    <2>2. /\ u \in Seq(SnapRecords)
          /\ Len(u) = IF 1 <= k - 1 THEN k - 1 - 1 + 1 ELSE 0
          /\ \A i \in 1..k - 1 - 1 + 1 : u[i] = s[1 + i - 1]
      BY <1>1, <2>1, SubSeqProperties
    <2> QED
      BY <1>1, <2>2
  <1>3. /\ v \in Seq(SnapRecords) /\ Len(v) = Len(s) - k
        /\ \A i \in 1..Len(s) - k : v[i] = s[k + i]
    <2>1. \A i \in k + 1..Len(s) : s[i] \in SnapRecords
      BY <1>1
    <2>2. /\ v \in Seq(SnapRecords)
          /\ Len(v) = IF k + 1 <= Len(s) THEN Len(s) - (k + 1) + 1 ELSE 0
          /\ \A i \in 1..Len(s) - (k + 1) + 1 : v[i] = s[(k + 1) + i - 1]
      BY <1>1, <2>1, SubSeqProperties
    <2> QED
      BY <1>1, <2>2
  <1> HIDE DEF u, v
  <1>4. /\ t \in Seq(SnapRecords) /\ Len(t) = Len(s) - 1
        /\ \A i \in 1..Len(u) : t[i] = u[i]
        /\ \A i \in 1..Len(v) : t[Len(u) + i] = v[i]
    <2>1. u \in Seq(SnapRecords) /\ v \in Seq(SnapRecords)
      BY <1>2, <1>3
    <2>2. /\ t \in Seq(SnapRecords) /\ Len(t) = Len(u) + Len(v)
          /\ \A i \in 1..Len(u) : t[i] = u[i]
          /\ \A i \in 1..Len(v) : t[Len(u) + i] = v[i]
      BY <2>1, ListJoin
    <2> HIDE DEF t, from
    <2>3. Len(u) + Len(v) = Len(s) - 1
      BY <1>1, <1>2, <1>3
    <2> QED
      BY <2>2, <2>3
  <1> HIDE DEF t
  <1>5. \A i \in 1..Len(t) : t[i] = s[from(i)] /\ from(i) \in 1..Len(s)
    <2> TAKE i \in 1..Len(t)
    <2>1. CASE i < k
      BY <1>1, <1>2, <1>4, <2>1
    <2>2. CASE i >= k
      <3>1. i - (k - 1) \in 1..Len(v)
        BY <1>1, <1>3, <1>4, <2>2
      <3>2. t[(k - 1) + (i - (k - 1))] = v[i - (k - 1)]
        BY <1>2, <1>4, <3>1
      <3>3. v[i - (k - 1)] = s[k + (i - (k - 1))]
        BY <1>3, <3>1
      <3> QED
        BY <1>1, <1>4, <2>2, <3>2, <3>3
    <2> QED
      BY <1>1, <2>1, <2>2
  <1>6. \A i, j \in 1..Len(t) : i < j => from(i) < from(j)
    BY <1>1, <1>4
  <1> HIDE DEF from
  <1>7. Kin(s, t, n)
    <2> SUFFICES ASSUME NEW x \in Range(t)
                 PROVE  \E y \in Range(s) : y.id = x.id /\ y.version <= x.version
      BY <1>4 DEF Kin
    <2>1. PICK i \in 1..Len(t) : x = t[i]
      BY <1>4, ListRange
    <2>2. x \in Range(s) /\ x \in SnapRecords
      BY <1>5, <2>1, ListRange
    <2>3. x.version <= x.version
      BY <2>2 DEF SnapRecords
    <2> QED
      BY <2>2, <2>3
  <1>8. Rising(s) => Rising(t)
    BY <1>5, <1>6 DEF Rising
  <1>9. Falling(s) => Falling(t)
    BY <1>5, <1>6 DEF Falling
  <1>10. t = RemoveAt(s, k)
    BY DEF t, u, v, RemoveAt
  <1> QED
    BY <1>7, <1>8, <1>9, <1>10

(* What an edit may do to the board.                                       *)
Moved ==
  /\ NextId \in Nat /\ NextId' \in Nat /\ NextId < NextId'
  /\ kept' \subseteq kept
  /\ kept' \cap Range(pinned') \subseteq Range(pinned)
  /\ kept' \cap Range(remarks') \subseteq Range(remarks)
  /\ \A i : i < NextId /\ i \in Ids(Range(pinned')) => i \in Ids(Range(pinned))
  /\ \A i : i < NextId /\ i \in Ids(Range(remarks')) => i \in Ids(Range(remarks))
  /\ \A x \in Shown(pinned', remarks') :
       /\ x \in SnapRecords
       /\ x.id = NextId \/ \E y \in Shown(pinned, remarks) :
                             y \in SnapRecords /\ y.id = x.id /\ y.version <= x.version

(* The identities of akin lists.                                           *)
LEMMA KinIds ==
  ASSUME NEW s, NEW t, NEW n, Kin(s, t, n)
  PROVE  \A i : i \in Ids(Range(t)) => i = n \/ i \in Ids(Range(s))
  BY DEF Kin, Ids

(* One list is as it was, the other akin to what it was.                   *)
LEMMA EditIs ==
  ASSUME BoardOK, NEW items, NEW comments, Edited(items, comments),
         Kin(pinned, items, NextId), Kin(remarks, comments, NextId),
         Rising(items), Falling(comments), items = pinned \/ comments = remarks
  PROVE  BoardOK' /\ Moved /\ UNCHANGED <<reader, midway>>
  <1>1. /\ pinned' = items /\ remarks' = comments /\ UNCHANGED <<reader, midway>>
        /\ kept' = kept \cap Shown(items, comments) /\ revised' = revised + 1
    BY DEF Edited
  <1>2. /\ pinned \in Seq(SnapRecords) /\ remarks \in Seq(SnapRecords)
        /\ items \in Seq(SnapRecords) /\ comments \in Seq(SnapRecords)
        /\ revised \in Nat /\ revised' \in Nat
        /\ SnapItems \in Nat /\ SnapComments \in Nat
    BY <1>1, SnapAssumption DEF BoardOK, Kin
  <1>3. NextId \in Nat /\ NextId' = NextId + 1
    BY <1>1, <1>2 DEF NextId
  <1>4. /\ \A r \in Shown(pinned, remarks) : r \in SnapRecords /\ r.id \in Nat /\ r.id < NextId
        /\ \A r \in Shown(items, comments) : r \in SnapRecords /\ r.id \in Nat
    BY <1>2, ListRange DEF BoardOK, Shown, SnapRecords
  <1>5. /\ \A i \in Ids(Range(items)) : i = NextId \/ i \in Ids(Range(pinned))
        /\ \A i \in Ids(Range(comments)) : i = NextId \/ i \in Ids(Range(remarks))
    BY KinIds
  <1>6. /\ \A i \in Ids(Range(pinned)) : i \in Nat /\ i < NextId
        /\ \A i \in Ids(Range(remarks)) : i \in Nat /\ i < NextId
        /\ Ids(Range(pinned)) \cap Ids(Range(remarks)) = {}
    BY <1>4 DEF Ids, Shown, BoardOK, Disjoint
  <1>7. \A x \in Shown(items, comments) :
          x.id = NextId \/ \E y \in Shown(pinned, remarks) : y.id = x.id /\ y.version <= x.version
    BY DEF Kin, Shown
  <1>8. \A x \in Shown(items, comments) : x.id < NextId + 1
    BY <1>3, <1>4, <1>7
  <1>9. Disjoint(items, comments)
    <2>1. ASSUME NEW i, i \in Ids(Range(items)), i \in Ids(Range(comments)) PROVE FALSE
      BY <1>3, <1>5, <1>6, <2>1
    <2> QED
      BY <2>1 DEF Disjoint
  <1>10. kept \cap Range(items) \subseteq Range(pinned)
    <2> SUFFICES ASSUME NEW r \in kept, r \in Range(items) PROVE r \in Range(pinned)
      OBVIOUS
    <2>1. r \in Shown(pinned, remarks) /\ r.id \in Ids(Range(items))
      BY DEF BoardOK, Ids
    <2>2. r.id \in Ids(Range(pinned))
      BY <1>3, <1>4, <1>5, <2>1
    <2> QED
      BY <1>6, <2>1, <2>2 DEF Shown, Ids
  <1>11. kept \cap Range(comments) \subseteq Range(remarks)
    <2> SUFFICES ASSUME NEW r \in kept, r \in Range(comments) PROVE r \in Range(remarks)
      OBVIOUS
    <2>1. r \in Shown(pinned, remarks) /\ r.id \in Ids(Range(comments))
      BY DEF BoardOK, Ids
    <2>2. r.id \in Ids(Range(remarks))
      BY <1>3, <1>4, <1>5, <2>1
    <2> QED
      BY <1>6, <2>1, <2>2 DEF Shown, Ids
  <1>12. BoardOK'
    BY <1>1, <1>2, <1>3, <1>8, <1>9 DEF BoardOK
  <1>13. Moved
    <2>1. \A i : i < NextId /\ i \in Ids(Range(pinned')) => i \in Ids(Range(pinned))
      BY <1>1, <1>3, <1>5
    <2>2. \A i : i < NextId /\ i \in Ids(Range(remarks')) => i \in Ids(Range(remarks))
      BY <1>1, <1>3, <1>5
    <2>3. \A x \in Shown(pinned', remarks') :
            /\ x \in SnapRecords
            /\ x.id = NextId \/ \E y \in Shown(pinned, remarks) :
                                  y \in SnapRecords /\ y.id = x.id /\ y.version <= x.version
      BY <1>1, <1>4, <1>7
    <2>4. kept' \subseteq kept /\ NextId' \in Nat /\ NextId < NextId'
      BY <1>1, <1>3
    <2> QED
      BY <1>1, <1>3, <1>10, <1>11, <2>1, <2>2, <2>3, <2>4 DEF Moved
  <1> QED
    BY <1>1, <1>12, <1>13

(* So what was read stays true, and what has been erased stays away.       *)
LEMMA ReadStays ==
  ASSUME Moved, NEW r, r.id \in Nat, r.version \in Nat
  PROVE  /\ Past(r) => Past(r)'
         /\ Gone(r) => Gone(r)'
  <1>1. ASSUME NEW x \in Shown(pinned', remarks'), x.id = r.id, r.id < NextId
        PROVE  /\ x.version \in Nat
               /\ \E y \in Shown(pinned, remarks) :
                    y.version \in Nat /\ y.id = r.id /\ y.version <= x.version
    BY <1>1 DEF Moved, SnapRecords
  <1>2. r.id < NextId => r.id < NextId'
    BY DEF Moved
  <1>3. ASSUME Past(r) PROVE Past(r)'
    <2> SUFFICES ASSUME NEW x \in Shown(pinned', remarks'), x.id = r.id
                 PROVE  x.version >= r.version
      BY <1>2, <1>3 DEF Past
    <2>1. PICK y \in Shown(pinned, remarks) :
            y.version \in Nat /\ y.id = r.id /\ y.version <= x.version
      BY <1>1, <1>3 DEF Past
    <2>2. y.version >= r.version /\ x.version \in Nat
      BY <1>1, <1>3, <2>1 DEF Past
    <2> QED
      BY <2>1, <2>2
  <1>4. ASSUME Gone(r) PROVE Gone(r)'
    <2> SUFFICES ASSUME NEW x \in Shown(pinned', remarks'), x.id = r.id
                 PROVE  x.version > r.version
      BY <1>2, <1>4 DEF Gone
    <2>1. PICK y \in Shown(pinned, remarks) :
            y.version \in Nat /\ y.id = r.id /\ y.version <= x.version
      BY <1>1, <1>4 DEF Gone
    <2>2. y.version > r.version /\ x.version \in Nat
      BY <1>1, <1>4, <2>1 DEF Gone
    <2> QED
      BY <2>1, <2>2
  <1> QED
    BY <1>3, <1>4

(* A record that has been read.                                            *)
LEMMA ReadTyped ==
  ASSUME NEW read \in Reads
  PROVE  /\ read.items \in Seq(SnapRecords) /\ read.comments \in Seq(SnapRecords)
         /\ \A r \in ReadIn(read) : r \in SnapRecords /\ r.id \in Nat /\ r.version \in Nat
         /\ Range(read.items) \subseteq ReadIn(read) /\ Range(read.comments) \subseteq ReadIn(read)
  <1>1. read.items \in Seq(SnapRecords) /\ read.comments \in Seq(SnapRecords)
    BY DEF Reads
  <1>2. Range(read.items) \subseteq SnapRecords /\ Range(read.comments) \subseteq SnapRecords
    BY <1>1, ListRange
  <1> QED
    BY <1>1, <1>2 DEF ReadIn, SnapRecords

(* The reader's invariant stays true when people edit the board.           *)
LEMMA EditKeeps ==
  ASSUME SnapInv, BoardOK', Moved, UNCHANGED <<reader, midway>>
  PROVE  SnapInv'
  <1>1. reader' = reader /\ midway' = midway /\ reader \in Readers
    BY DEF SnapInv
  <1>2. reader.now \in Reads /\ reader.first \in Reads
    BY <1>1 DEF Readers
  <1>3. /\ kept' \subseteq kept
        /\ kept' \cap Range(pinned') \subseteq kept \cap Range(pinned)
        /\ kept' \cap Range(remarks') \subseteq kept \cap Range(remarks)
    BY DEF Moved
  <1>4. \A r \in ReadIn(reader.now) : Past(r) /\ Past(r)' /\ r.id < NextId
    <2> TAKE r \in ReadIn(reader.now)
    <2>1. r.id \in Nat /\ r.version \in Nat /\ Past(r)
      BY <1>2, ReadTyped DEF SnapInv, ReadTrue
    <2> QED
      BY <2>1, ReadStays DEF Past
  <1>5. ReadTrue'
    <2>1. ASSUME NEW r \in Range(reader.now.comments) PROVE r.id \notin Ids(Range(pinned'))
      <3>1. r.id \notin Ids(Range(pinned)) /\ r \in ReadIn(reader.now)
        BY <1>2, <2>1, ReadTyped DEF SnapInv, ReadTrue
      <3> QED
        BY <1>4, <3>1 DEF Moved
    <2> QED
      BY <1>1, <1>4, <2>1 DEF ReadTrue
  <1>6. ItemsRead => ItemsRead'
    BY <1>1, <1>3 DEF ItemsRead
  <1>7. ASSUME CommentsRead PROVE CommentsRead'
    <2>1. ASSUME NEW x \in Range(reader.now.comments), x.id \notin Ids(Range(remarks))
          PROVE  x.id \notin Ids(Range(remarks'))
      <3>1. x \in ReadIn(reader.now)
        BY <1>2, <2>1, ReadTyped
      <3> QED
        BY <1>4, <2>1, <3>1 DEF Moved
    <2> QED
      BY <1>1, <1>3, <1>7, <2>1 DEF CommentsRead
  <1>8. ASSUME SecondRead PROVE SecondRead'
    <2>1. ASSUME NEW r \in ReadIn(reader.first), Gone(r) PROVE Gone(r)'
      <3>1. r.id \in Nat /\ r.version \in Nat
        BY <1>2, <2>1, ReadTyped
      <3> QED
        BY <2>1, <3>1, ReadStays
    <2> QED
      BY <1>1, <1>3, <1>8, <2>1 DEF SecondRead
  <1> QED
    BY <1>1, <1>5, <1>6, <1>7, <1>8 DEF SnapInv

(* People edit the board.                                                  *)
LEMMA EditStep ==
  ASSUME SnapInv, Add \/ Change \/ Erase
  PROVE  SnapInv'
  <1>1. /\ BoardOK /\ pinned \in Seq(SnapRecords) /\ remarks \in Seq(SnapRecords)
        /\ Rising(pinned) /\ Falling(remarks)
        /\ \A r \in Range(pinned) : r.id < NextId
        /\ \A r \in Range(remarks) : r.id < NextId
    BY DEF SnapInv, BoardOK, Shown
  <1>2. NextId \in Nat \ {0} /\ NextId = SnapItems + SnapComments + 1 + revised
    BY SnapAssumption DEF SnapInv, BoardOK, NextId
  <1>3. Kin(pinned, pinned, NextId) /\ Kin(remarks, remarks, NextId)
    BY <1>1, KinSelf
  <1>4. \E items, comments :
          /\ Edited(items, comments)
          /\ Kin(pinned, items, NextId) /\ Kin(remarks, comments, NextId)
          /\ Rising(items) /\ Falling(comments)
          /\ items = pinned \/ comments = remarks
    <2>1. CASE Add
      <3> DEFINE new == Record(NextId, 1)
      <3>1. Edited(Append(pinned, new), remarks) \/ Edited(pinned, <<new>> \o remarks)
        BY <1>2, <2>1 DEF Add
      <3>2. Kin(pinned, Append(pinned, new), NextId) /\ Rising(Append(pinned, new))
        BY <1>1, <1>2, NewItem
      <3>3. Kin(remarks, <<new>> \o remarks, NextId) /\ Falling(<<new>> \o remarks)
        BY <1>1, <1>2, NewComment
      <3> HIDE DEF new
      <3> QED
        BY <1>1, <1>3, <3>1, <3>2, <3>3
    <2>2. CASE Change
      <3>1. CASE \E i \in DOMAIN pinned :
                   Edited([pinned EXCEPT ![i].version = @ + 1], remarks)
        <4>1. PICK i \in DOMAIN pinned : Edited([pinned EXCEPT ![i].version = @ + 1], remarks)
          BY <3>1
        <4>2. PICK t : t = [pinned EXCEPT ![i].version = @ + 1]
          OBVIOUS
        <4>3. Kin(pinned, t, NextId) /\ Rising(t)
          BY <1>1, <4>2, OneChanged
        <4> QED
          BY <1>1, <1>3, <4>1, <4>2, <4>3
      <3>2. CASE \E i \in DOMAIN remarks :
                   Edited(pinned, [remarks EXCEPT ![i].version = @ + 1])
        <4>1. PICK i \in DOMAIN remarks : Edited(pinned, [remarks EXCEPT ![i].version = @ + 1])
          BY <3>2
        <4>2. PICK t : t = [remarks EXCEPT ![i].version = @ + 1]
          OBVIOUS
        <4>3. Kin(remarks, t, NextId) /\ Falling(t)
          BY <1>1, <4>2, OneChanged
        <4> QED
          BY <1>1, <1>3, <4>1, <4>2, <4>3
      <3> QED
        BY <2>2, <3>1, <3>2 DEF Change
    <2>3. CASE Erase
      <3>1. CASE \E i \in DOMAIN pinned : Edited(RemoveAt(pinned, i), remarks)
        <4>1. PICK i \in DOMAIN pinned : Edited(RemoveAt(pinned, i), remarks)
          BY <3>1
        <4>2. Kin(pinned, RemoveAt(pinned, i), NextId) /\ Rising(RemoveAt(pinned, i))
          BY <1>1, OneErased
        <4> QED
          BY <1>1, <1>3, <4>1, <4>2
      <3>2. CASE \E i \in DOMAIN remarks : Edited(pinned, RemoveAt(remarks, i))
        <4>1. PICK i \in DOMAIN remarks : Edited(pinned, RemoveAt(remarks, i))
          BY <3>2
        <4>2. Kin(remarks, RemoveAt(remarks, i), NextId) /\ Falling(RemoveAt(remarks, i))
          BY <1>1, OneErased
        <4> QED
          BY <1>1, <1>3, <4>1, <4>2
      <3> QED
        BY <2>3, <3>1, <3>2 DEF Erase
    <2> QED
      BY <2>1, <2>2, <2>3
  <1>5. BoardOK' /\ Moved /\ UNCHANGED <<reader, midway>>
    BY <1>1, <1>4, EditIs
  <1> QED
    BY <1>5, EditKeeps

(* What a list adds to the identities of another.                          *)
LEMMA IdsJoin ==
  ASSUME NEW s \in Seq(SnapRecords), NEW t \in Seq(SnapRecords)
  PROVE  Distinct(s \o t) => Distinct(s)
  <1>1. \A u \in Seq(SnapRecords) :
          IsFiniteSet(Ids(Range(u))) /\ Cardinality(Ids(Range(u))) \in Nat
            /\ Cardinality(Ids(Range(u))) <= Len(u)
    <2> TAKE u \in Seq(SnapRecords)
    <2>1. Len(u) \in Nat /\ IsFiniteSet(1..Len(u)) /\ Cardinality(1..Len(u)) = Len(u)
      BY ListRange, CountUpTo
    <2> DEFINE f == [i \in 1..Len(u) |-> u[i].id]
    <2>2. \A x \in Ids(Range(u)) : \E i \in 1..Len(u) : x = u[i].id
      BY ListRange
    <2>3. \A i \in 1..Len(u) : u[i].id \in Ids(Range(u))
      BY ListRange
    <2>4. f \in Surjection(1..Len(u), Ids(Range(u)))
      BY <2>2, <2>3 DEF Surjection
    <2> HIDE DEF f
    <2>5. IsFiniteSet(Ids(Range(u))) /\ Cardinality(Ids(Range(u))) <= Cardinality(1..Len(u))
      BY <2>1, <2>4, FS_Surjection
    <2> QED
      BY <2>1, <2>5, FS_CardinalityType
  <1>2. s \o t \in Seq(SnapRecords) /\ Len(s \o t) = Len(s) + Len(t)
          /\ Range(s \o t) = Range(s) \cup Range(t)
    BY ListJoin
  <1>3. Ids(Range(s \o t)) = Ids(Range(s)) \cup Ids(Range(t))
    BY <1>2 DEF Ids
  <1> DEFINE a == Cardinality(Ids(Range(s)))
             b == Cardinality(Ids(Range(t)))
             c == Cardinality(Ids(Range(s)) \cup Ids(Range(t)))
  <1>4. a \in Nat /\ b \in Nat /\ a <= Len(s) /\ b <= Len(t)
    BY <1>1
  <1>5. c \in Nat /\ c <= a + b
    <2>1. IsFiniteSet(Ids(Range(s))) /\ IsFiniteSet(Ids(Range(t)))
      BY <1>1
    <2>2. IsFiniteSet(Ids(Range(s)) \cap Ids(Range(t)))
            /\ c = a + b - Cardinality(Ids(Range(s)) \cap Ids(Range(t)))
      BY <2>1, FS_Union, FS_Intersection
    <2>3. Cardinality(Ids(Range(s)) \cap Ids(Range(t))) \in Nat
      BY <2>2, FS_CardinalityType
    <2>4. c \in Nat
      BY <1>1, <1>2, <1>3
    <2> QED
      BY <1>4, <2>2, <2>3, <2>4
  <1>6. Distinct(s \o t) <=> c = Len(s) + Len(t)
    BY <1>2, <1>3 DEF Distinct
  <1>7. Distinct(s) <=> a = Len(s)
    BY DEF Distinct
  <1> HIDE DEF a, b, c
  <1>8. Len(s) \in Nat /\ Len(t) \in Nat
    BY ListRange
  <1> QED
    BY <1>4, <1>5, <1>6, <1>7, <1>8

(* All comments read so far are newer than one on the board, and still     *)
(* there: the next page has it, or is newer too and not the latest.          *)
LEMMA CommentPageIs ==
  ASSUME BoardOK, NEW s \in Seq(SnapRecords), Distinct(s),
         \A x \in Range(s) : x.id \in Ids(Range(remarks)),
         NEW r \in Range(remarks), \A x \in Range(s) : x.id > r.id,
         NEW page, page = CommentPage(Len(s))
  PROVE  \/ r \in Range(page)
         \/ MoreComments(Len(s)) /\ \A x \in Range(page) : x.id > r.id
  <1> DEFINE n == Len(s)
  <1>1. /\ n \in Nat /\ Len(remarks) \in Nat /\ PageLimit \in Nat
        /\ \A i \in 1..Len(remarks) : remarks[i] \in SnapRecords /\ remarks[i].id \in Nat
    BY ListRange, SnapAssumption DEF BoardOK, SnapRecords
  <1>2. PageOf(remarks, n, page)
    BY <1>1, PageIs DEF CommentPage, BoardOK
  <1>3. PICK p \in 1..Len(remarks) : r = remarks[p]
    BY ListRange DEF BoardOK
  <1>4. n <= p - 1
    <2>1. IsFiniteSet(1..p - 1) /\ Cardinality(1..p - 1) = p - 1
      <3>1. p - 1 \in Nat
        BY <1>3
      <3> QED
        BY <3>1, CountUpTo
    <2> DEFINE L == {remarks[i].id : i \in 1..p - 1}
               f == [i \in 1..p - 1 |-> remarks[i].id]
    <2>2. f \in Surjection(1..p - 1, L)
      BY DEF Surjection
    <2>3. IsFiniteSet(L) /\ Cardinality(L) <= p - 1
      <3> HIDE DEF f, L
      <3> QED
        BY <2>1, <2>2, FS_Surjection
    <2>4. Ids(Range(s)) \subseteq L
      <3> SUFFICES ASSUME NEW x \in Range(s) PROVE x.id \in L
        BY DEF Ids
      <3>1. PICK y \in Range(remarks) : y.id = x.id
        BY DEF Ids
      <3>2. PICK i \in 1..Len(remarks) : y = remarks[i]
        BY ListRange DEF BoardOK
      <3>3. remarks[i].id > remarks[p].id
        BY <1>3, <3>1, <3>2
      <3>4. i < p
        <4> SUFFICES ASSUME p <= i PROVE FALSE
          BY <1>1
        <4>1. CASE p = i
          BY <1>1, <3>3, <4>1
        <4>2. CASE p < i
          BY <1>1, <3>3, <4>2 DEF BoardOK, Falling
        <4> QED
          BY <1>1, <4>1, <4>2
      <3> QED
        BY <1>1, <3>1, <3>2, <3>4
    <2> HIDE DEF L
    <2>5. Cardinality(Ids(Range(s))) <= Cardinality(L) /\ Cardinality(L) \in Nat
      BY <2>3, <2>4, FS_Subset, FS_CardinalityType
    <2>6. Cardinality(Ids(Range(s))) = n
      BY DEF Distinct
    <2> QED
      BY <1>1, <2>3, <2>5, <2>6
  <1> HIDE DEF n
  <1>5. Len(page) \in Nat /\ page \in Seq(SnapRecords)
    BY <1>2, ListRange DEF PageOf
  <1>6. CASE p <= n + PageLimit \/ p <= n + Len(page)
    <2>1. page[p - n] = remarks[p] /\ p - n \in 1..Len(page)
      BY <1>1, <1>2, <1>4, <1>6 DEF PageOf
    <2> QED
      BY <1>3, <1>5, <2>1, ListRange
  <1>7. CASE p > n + PageLimit /\ p > n + Len(page)
    <2>1. MoreComments(Len(s))
      BY <1>1, <1>7 DEF MoreComments, n
    <2>2. ASSUME NEW x \in Range(page) PROVE x.id > r.id
      <3>1. PICK j \in 1..Len(page) : x = page[j]
        BY <1>5, ListRange
      <3>2. n + j \in 1..Len(remarks) /\ x = remarks[n + j]
        BY <1>2, <3>1 DEF PageOf
      <3>3. n + j < p
        BY <1>1, <1>5, <1>7, <3>1
      <3> QED
        BY <1>1, <1>3, <3>2, <3>3 DEF BoardOK, Falling
    <2> QED
      BY <2>1, <2>2
  <1> QED
    BY <1>1, <1>5, <1>6, <1>7

(* What a longer read has.                                                 *)
LEMMA MoreItemsRead ==
  ASSUME NEW g \in Reads, NEW page \in Seq(SnapRecords),
         NEW read, read = [g EXCEPT !.items = @ \o page, !.itemPages = @ + 1]
  PROVE  /\ read \in Reads /\ read.comments = g.comments
         /\ Range(read.items) = Range(g.items) \cup Range(page)
         /\ ReadIn(read) = ReadIn(g) \cup Range(page)
  <1>1. g.items \in Seq(SnapRecords)
    BY DEF Reads
  <1>2. g.items \o page \in Seq(SnapRecords) /\ Range(g.items \o page) = Range(g.items) \cup Range(page)
    BY <1>1, ListJoin
  <1>3. PICK t \in Seq(SnapRecords) : t = g.items \o page
    BY <1>2
  <1>4. PICK m \in Nat : m = g.itemPages + 1
    BY DEF Reads
  <1>5. read = [g EXCEPT !.items = t, !.itemPages = m]
    BY <1>3, <1>4
  <1>6. read \in Reads /\ read.items = t /\ read.comments = g.comments
    <2>1. DOMAIN g = {"items", "comments", "itemPages", "commentPages"}
      BY DEF Reads
    <2>2. read.items = t /\ read.comments = g.comments
      BY <1>5, <2>1
    <2>3. read \in Reads
      BY <1>5 DEF Reads
    <2> QED
      BY <2>2, <2>3
  <1> QED
    BY <1>2, <1>3, <1>6 DEF ReadIn

(* The same for comments.                                                  *)
LEMMA MoreCommentsRead ==
  ASSUME NEW g \in Reads, NEW page \in Seq(SnapRecords),
         NEW read, read = [g EXCEPT !.comments = @ \o page, !.commentPages = @ + 1]
  PROVE  /\ read \in Reads /\ read.items = g.items /\ read.comments = g.comments \o page
         /\ Range(read.comments) = Range(g.comments) \cup Range(page)
         /\ ReadIn(read) = ReadIn(g) \cup Range(page)
  <1>1. g.comments \in Seq(SnapRecords)
    BY DEF Reads
  <1>2. /\ g.comments \o page \in Seq(SnapRecords)
        /\ Range(g.comments \o page) = Range(g.comments) \cup Range(page)
    BY <1>1, ListJoin
  <1>3. PICK t \in Seq(SnapRecords) : t = g.comments \o page
    BY <1>2
  <1>4. PICK m \in Nat : m = g.commentPages + 1
    BY DEF Reads
  <1>5. read = [g EXCEPT !.comments = t, !.commentPages = m]
    BY <1>3, <1>4
  <1>6. read \in Reads /\ read.comments = t /\ read.items = g.items
    <2>1. DOMAIN g = {"items", "comments", "itemPages", "commentPages"}
      BY DEF Reads
    <2>2. read.comments = t /\ read.items = g.items
      BY <1>5, <2>1
    <2>3. read \in Reads
      BY <1>5 DEF Reads
    <2> QED
      BY <2>2, <2>3
  <1> QED
    BY <1>2, <1>3, <1>6 DEF ReadIn

(* A run that ends without a snapshot.                                     *)
LEMMA FailKeeps ==
  ASSUME SnapInv, Fail, UNCHANGED <<onBoard, midway>>
  PROVE  SnapInv'
  <1>1. reader \in Readers /\ UNCHANGED <<pinned, remarks, kept, revised, midway>>
    BY DEF SnapInv, onBoard
  <1>2. /\ reader' \in Readers /\ reader'.step = "failed"
        /\ reader'.now = reader.now /\ reader'.first = reader.first
        /\ reader'.second = reader.second /\ reader'.cursor = reader.cursor
        /\ reader'.cursors = reader.cursors
    BY <1>1 DEF Fail, Readers, ReaderSteps
  <1>3. BoardOK'
    BY <1>1 DEF SnapInv, BoardOK, NextId
  <1>4. ReadTrue'
    BY <1>1, <1>2 DEF SnapInv, ReadTrue, Past, NextId
  <1>5. reader.second => SecondRead'
    BY <1>1, <1>2 DEF SnapInv, SecondRead, Gone, NextId
  <1> QED
    BY <1>2, <1>3, <1>4, <1>5 DEF SnapInv

(* A page of records that are on the board changes nothing else.           *)
PageRead(read, page) ==
  /\ read \in Reads
  /\ ReadIn(read) = ReadIn(reader.now) \cup Range(page)
  /\ Range(page) \subseteq Shown(pinned, remarks)

(* What the read knows then, if the board stays as it is.                  *)
LEMMA PageKeeps ==
  ASSUME SnapInv, NEW read, NEW page, PageRead(read, page),
         UNCHANGED <<onBoard, midway>>,
         reader'.now = read, reader'.first = reader.first,
         \A r \in Range(read.comments) : r.id \notin Ids(Range(pinned))
  PROVE  BoardOK' /\ ReadTrue' /\ (reader.second => SecondRead')
  <1>1. UNCHANGED <<pinned, remarks, kept, revised, midway>>
    BY DEF onBoard
  <1>2. BoardOK /\ BoardOK'
    BY <1>1 DEF SnapInv, BoardOK, NextId
  <1>3. \A r \in Range(page) : Past(r) /\ ~Gone(r)
    BY <1>2, OnBoard DEF PageRead
  <1>4. \A r \in ReadIn(read) : Past(r)
    BY <1>3 DEF SnapInv, ReadTrue, PageRead
  <1>5. ReadTrue'
    BY <1>1, <1>4 DEF ReadTrue, Past, NextId
  <1>6. ASSUME reader.second PROVE SecondRead'
    <2>1. SecondRead
      BY <1>6 DEF SnapInv
    <2>2. \A r \in ReadIn(read) : r \in ReadIn(reader.first) => r \in midway
      BY <1>3, <2>1 DEF SecondRead, PageRead
    <2> QED
      BY <1>1, <2>1, <2>2 DEF SecondRead, Gone, NextId
  <1> QED
    BY <1>2, <1>5, <1>6

(* One call for items.                                                     *)
LEMMA ItemsStep ==
  ASSUME SnapInv, ReadItems
  PROVE  SnapInv'
  <1>0. /\ reader.step = "items" /\ UNCHANGED <<onBoard, midway>> /\ reader \in Readers
        /\ reader.now \in Reads /\ reader.cursors \in SUBSET Nat /\ reader.cursor \in Nat
        /\ reader.second \in BOOLEAN /\ reader.pages \in SUBSET Seq(SnapRecords)
        /\ BoardOK /\ reader.cursor \in reader.cursors \cup {NoCursor}
    BY DEF SnapInv, ReadItems, Readers
  <1>1. UNCHANGED <<pinned, remarks, kept, revised, midway>>
    BY <1>0 DEF onBoard
  <1>2. PICK answered \in {reader.cursor} \cup (reader.cursors \cup {NoCursor}) :
          LET page == ItemPage(answered)
              more == MoreItems(page)
              read == [reader.now EXCEPT !.items = @ \o page, !.itemPages = @ + 1]
          IN  IF page \in reader.pages THEN Fail
              ELSE IF ~more THEN EndItems(read)
              ELSE IF Last(page).id \in reader.cursors \/ read.itemPages = MaxPages THEN Fail
              ELSE reader' = [reader EXCEPT !.now = read, !.cursor = Last(page).id,
                                            !.cursors = @ \cup {Last(page).id},
                                            !.pages = @ \cup {page}]
    BY DEF ReadItems
  <1>3. answered \in reader.cursors \cup {NoCursor} /\ answered \in Nat
    BY <1>0 DEF NoCursor
  <1>4. PICK page : page = ItemPage(answered)
    OBVIOUS
  <1>5. PICK read : read = [reader.now EXCEPT !.items = @ \o page, !.itemPages = @ + 1]
    OBVIOUS
  <1>6. \/ Fail
        \/ ~MoreItems(page) /\ EndItems(read)
        \/ /\ MoreItems(page)
           /\ reader' = [reader EXCEPT !.now = read, !.cursor = Last(page).id,
                                       !.cursors = @ \cup {Last(page).id},
                                       !.pages = @ \cup {page}]
    BY <1>2, <1>4, <1>5
  <1>7. /\ page \in Seq(SnapRecords) /\ Range(page) \subseteq Range(pinned)
        /\ \A r \in Range(pinned) :
             r.id > answered /\ (~MoreItems(page) \/ r.id <= Last(page).id) => r \in Range(page)
        /\ MoreItems(page) => Last(page).id \in Nat
    BY <1>0, <1>3, <1>4, ItemPageIs
  <1>8. /\ read \in Reads /\ read.comments = reader.now.comments
        /\ Range(read.items) = Range(reader.now.items) \cup Range(page)
        /\ ReadIn(read) = ReadIn(reader.now) \cup Range(page)
    BY <1>0, <1>5, <1>7, MoreItemsRead
  <1>9. PageRead(read, page)
    BY <1>7, <1>8 DEF PageRead, Shown
  <1>10. \A r \in Range(read.comments) : r.id \notin Ids(Range(pinned))
    BY <1>8 DEF SnapInv, ReadTrue
  <1>11. \A r \in Range(pinned) : r.id \in Nat
    BY <1>0, OnBoard DEF Shown
  <1>12. CASE Fail
    BY <1>0, <1>12, FailKeeps
  <1>13. CASE ~MoreItems(page) /\ EndItems(read) /\ ~Fail
    <2>1. reader' = [reader EXCEPT !.now = read, !.step = "comments",
                                   !.cursor = NoCursor, !.cursors = {}, !.pages = {}]
      BY <1>13 DEF EndItems
    <2>2. /\ reader'.step = "comments" /\ reader'.now = read /\ reader'.first = reader.first
          /\ reader'.second = reader.second /\ reader'.cursor = NoCursor
      BY <1>0, <2>1 DEF Readers
    <2>3. reader' \in Readers
      BY <1>0, <1>8, <2>1 DEF Readers, ReaderSteps, NoCursor
    <2>4. BoardOK' /\ ReadTrue' /\ (reader.second => SecondRead')
      BY <1>0, <1>9, <1>10, <2>2, PageKeeps
    <2>5. ASSUME ~reader.second PROVE CommentsRead'
      <3>1. ItemsRead
        BY <1>0, <2>5 DEF SnapInv
      <3>2. kept \cap Range(pinned) \subseteq Range(read.items)
        BY <1>3, <1>7, <1>8, <1>11, <1>13, <3>1 DEF ItemsRead
      <3>3. Range(read.comments) = {}
        BY <1>8, <3>1, RangeOfNone DEF ItemsRead
      <3> QED
        BY <1>1, <2>2, <3>2, <3>3 DEF CommentsRead
    <2> QED
      BY <2>2, <2>3, <2>4, <2>5 DEF SnapInv
  <1>14. CASE /\ MoreItems(page)
              /\ reader' = [reader EXCEPT !.now = read, !.cursor = Last(page).id,
                                          !.cursors = @ \cup {Last(page).id},
                                          !.pages = @ \cup {page}]
    <2>1. PICK latest \in Nat : latest = Last(page).id
      BY <1>7, <1>14
    <2>2. reader' = [reader EXCEPT !.now = read, !.cursor = latest, !.cursors = @ \cup {latest},
                                   !.pages = @ \cup {page}]
      BY <1>14, <2>1
    <2>3. /\ reader'.step = "items" /\ reader'.now = read /\ reader'.first = reader.first
          /\ reader'.second = reader.second /\ reader'.cursor = latest
          /\ reader'.cursors = reader.cursors \cup {latest}
      BY <1>0, <2>2 DEF Readers
    <2>4. reader' \in Readers
      BY <1>0, <1>7, <1>8, <2>1, <2>2 DEF Readers
    <2>5. BoardOK' /\ ReadTrue' /\ (reader.second => SecondRead')
      BY <1>0, <1>9, <1>10, <2>3, PageKeeps
    <2>6. ASSUME ~reader.second PROVE ItemsRead'
      <3>1. ItemsRead
        BY <1>0, <2>6 DEF SnapInv
      <3>2. ASSUME NEW r \in kept \cap Range(pinned), r.id <= latest
            PROVE  r \in Range(read.items)
        <4>1. CASE r.id <= answered
          BY <1>3, <1>8, <3>1, <4>1 DEF ItemsRead
        <4>2. CASE r.id > answered
          BY <1>7, <1>8, <2>1, <3>2, <4>2
        <4> QED
          BY <1>3, <1>11, <4>1, <4>2
      <3>3. \A c \in reader.cursors \cup {latest, NoCursor} : \A r \in kept \cap Range(pinned) :
              r.id <= c => r \in Range(read.items)
        BY <1>8, <3>1, <3>2 DEF ItemsRead
      <3> QED
        BY <1>1, <1>8, <2>3, <3>1, <3>3 DEF ItemsRead
    <2> QED
      BY <2>3, <2>4, <2>5, <2>6 DEF SnapInv
  <1> QED
    BY <1>6, <1>12, <1>13, <1>14

(* Comments that have all been read, without an error: all that stays has  *)
(* been read then, or something that was read is gone.                     *)
LEMMA AllCommentsRead ==
  ASSUME BoardOK, reader.now \in Reads, CommentsRead,
         \A x \in Range(reader.now.comments) : x.id \notin Ids(Range(pinned)),
         NEW page, page = CommentPage(Len(reader.now.comments)),
         ~MoreComments(Len(reader.now.comments)),
         Distinct(reader.now.comments)
  PROVE  \/ kept \subseteq ReadIn(reader.now) \cup Range(page)
         \/ \E x \in ReadIn(reader.now) : x \notin Shown(pinned, remarks)
  <1>1. reader.now.comments \in Seq(SnapRecords)
    BY ReadTyped
  <1>2. CASE \E x \in Range(reader.now.comments) : x.id \notin Ids(Range(remarks))
    BY <1>2 DEF Ids, Shown, ReadIn
  <1>3. CASE \A x \in Range(reader.now.comments) : x.id \in Ids(Range(remarks))
    <2>1. \A r \in kept \cap Range(remarks) :
            \/ r \in Range(reader.now.comments)
            \/ \A x \in Range(reader.now.comments) : x.id > r.id
      BY <1>3 DEF CommentsRead
    <2>2. ASSUME NEW r \in kept PROVE r \in ReadIn(reader.now) \cup Range(page)
      <3>1. CASE r \in Range(pinned)
        BY <3>1 DEF CommentsRead, ReadIn
      <3>2. CASE r \in Range(remarks) /\ r \notin Range(reader.now.comments)
        <4>1. \A x \in Range(reader.now.comments) : x.id > r.id
          BY <2>1, <2>2, <3>2
        <4>2. r \in Range(page)
          BY <1>1, <1>3, <3>2, <4>1, CommentPageIs
        <4> QED
          BY <4>2
      <3> QED
        BY <2>2, <3>1, <3>2 DEF BoardOK, Shown, ReadIn
    <2> QED
      BY <2>2
  <1> QED
    BY <1>2, <1>3

(* A record that was there once is on the board as it was, or gone.        *)
LEMMA PastOrGone ==
  ASSUME BoardOK, NEW r \in SnapRecords, Past(r), r \notin Shown(pinned, remarks)
  PROVE  Gone(r)
  <1>1. SUFFICES ASSUME NEW x \in Shown(pinned, remarks), x.id = r.id
                 PROVE  x.version > r.version
    BY DEF Past, Gone
  <1>2. x \in SnapRecords /\ x # r /\ x.version >= r.version
    BY <1>1, ListRange DEF BoardOK, Shown, Past
  <1>3. x.version # r.version
    BY <1>1, <1>2 DEF SnapRecords
  <1> QED
    BY <1>2, <1>3 DEF SnapRecords

(* One call for comments.                                                  *)
LEMMA CommentsStep ==
  ASSUME SnapInv, ReadComments
  PROVE  SnapInv'
  <1>0. /\ reader.step = "comments" /\ UNCHANGED onBoard /\ reader \in Readers
        /\ reader.now \in Reads /\ reader.first \in Reads /\ reader.second \in BOOLEAN
        /\ BoardOK /\ reader.cursor \in reader.cursors \cup {NoCursor}
        /\ remarks \in Seq(SnapRecords)
        /\ \A x \in Range(reader.now.comments) : x.id \notin Ids(Range(pinned))
    BY DEF SnapInv, ReadComments, Readers, BoardOK, ReadTrue
  <1>1. UNCHANGED <<pinned, remarks, kept, revised>>
    BY <1>0 DEF onBoard
  <1>2. reader.now.comments \in Seq(SnapRecords)
    BY <1>0, ReadTyped
  <1>3. PICK offset : offset = Len(reader.now.comments)
    OBVIOUS
  <1>4. PICK page : page = CommentPage(offset)
    OBVIOUS
  <1>5. PICK read : read = [reader.now EXCEPT !.comments = @ \o page, !.commentPages = @ + 1]
    OBVIOUS
  <1>6. \/ ~MoreComments(offset) /\ EndComments(read)
        \/ Fail /\ UNCHANGED midway
        \/ MoreComments(offset) /\ reader' = [reader EXCEPT !.now = read] /\ UNCHANGED midway
    BY <1>3, <1>4, <1>5 DEF ReadComments
  <1>7. page \in Seq(SnapRecords) /\ Range(page) \subseteq Range(remarks)
    <2>1. offset \in Nat
      BY <1>2, <1>3, ListRange
    <2>2. PageOf(remarks, offset, page)
      BY <1>0, <1>4, <2>1, PageIs DEF CommentPage
    <2> QED
      BY <2>2 DEF PageOf
  <1>8. /\ read \in Reads /\ read.items = reader.now.items
        /\ read.comments = reader.now.comments \o page
        /\ Range(read.comments) = Range(reader.now.comments) \cup Range(page)
        /\ ReadIn(read) = ReadIn(reader.now) \cup Range(page)
    BY <1>0, <1>5, <1>7, MoreCommentsRead
  <1>9. PageRead(read, page)
    BY <1>7, <1>8 DEF PageRead, Shown
  <1>10. \A r \in Range(read.comments) : r.id \notin Ids(Range(pinned))
    BY <1>0, <1>7, <1>8, OnBoard DEF Shown
  <1>11. Distinct(read.comments) => Distinct(reader.now.comments)
    BY <1>2, <1>7, <1>8, IdsJoin
  <1>12. CASE Fail /\ UNCHANGED midway
    BY <1>0, <1>12, FailKeeps
  <1>13. CASE /\ MoreComments(offset)
              /\ reader' = [reader EXCEPT !.now = read] /\ UNCHANGED midway
    <2>1. /\ reader'.step = "comments" /\ reader'.now = read /\ reader'.first = reader.first
          /\ reader'.second = reader.second /\ reader'.cursor = reader.cursor
          /\ reader'.cursors = reader.cursors /\ reader' \in Readers
      BY <1>0, <1>8, <1>13 DEF Readers
    <2>2. BoardOK' /\ ReadTrue' /\ (reader.second => SecondRead')
      BY <1>0, <1>9, <1>10, <1>13, <2>1, PageKeeps
    <2>3. ASSUME ~reader.second PROVE CommentsRead'
      <3>1. CommentsRead
        BY <1>0, <2>3 DEF SnapInv
      <3>2. kept \cap Range(pinned) \subseteq Range(read.items)
        BY <1>8, <3>1 DEF CommentsRead
      <3>3. CASE ~Distinct(reader.now.comments)
        BY <1>1, <1>11, <2>1, <3>2, <3>3 DEF CommentsRead
      <3>4. CASE \E x \in Range(reader.now.comments) : x.id \notin Ids(Range(remarks))
        BY <1>1, <1>8, <2>1, <3>2, <3>4 DEF CommentsRead
      <3>5. CASE /\ Distinct(reader.now.comments)
                 /\ \A x \in Range(reader.now.comments) : x.id \in Ids(Range(remarks))
        <4>1. ASSUME NEW r \in kept \cap Range(remarks)
              PROVE  r \in Range(read.comments) \/ \A x \in Range(read.comments) : x.id > r.id
          <5>1. CASE r \in Range(reader.now.comments)
            BY <1>8, <5>1
          <5>2. CASE \A x \in Range(reader.now.comments) : x.id > r.id
            <6>1. r \in Range(page) \/ \A x \in Range(page) : x.id > r.id
              BY <1>0, <1>2, <1>3, <1>4, <3>5, <4>1, <5>2, CommentPageIs
            <6> QED
              BY <1>8, <5>2, <6>1
          <5> QED
            BY <3>1, <3>5, <4>1, <5>1, <5>2 DEF CommentsRead
        <4> QED
          BY <1>1, <2>1, <3>2, <4>1 DEF CommentsRead
      <3> QED
        BY <3>3, <3>4, <3>5
    <2> QED
      BY <2>1, <2>2, <2>3 DEF SnapInv
  <1>14. CASE ~MoreComments(offset) /\ EndComments(read)
    <2>1. CASE ~Distinct(read.comments)
      <3>1. Fail /\ UNCHANGED midway
        BY <1>14, <2>1 DEF EndComments
      <3> QED
        BY <1>12, <3>1
    <2>2. CASE Distinct(read.comments) /\ ~reader.second
      <3>1. /\ reader' = [reader EXCEPT !.first = read, !.now = FreshRead, !.second = TRUE,
                                        !.step = "items"]
            /\ midway' = Shown(pinned, remarks)
        BY <1>14, <2>2 DEF EndComments
      <3>2. PICK fresh : fresh = FreshRead
        OBVIOUS
      <3>3. fresh \in Reads /\ fresh.items = <<>> /\ fresh.comments = <<>>
        BY <3>2 DEF FreshRead, Reads
      <3>4. ReadIn(fresh) = {} /\ Range(fresh.comments) = {}
        BY <3>3, RangeOfNone DEF ReadIn
      <3>5. reader' = [reader EXCEPT !.first = read, !.now = fresh, !.second = TRUE,
                                     !.step = "items"]
        BY <3>1, <3>2
      <3>6. /\ reader'.step = "items" /\ reader'.now = fresh /\ reader'.first = read
            /\ reader'.second = TRUE /\ reader'.cursor = reader.cursor
            /\ reader'.cursors = reader.cursors
        BY <1>0, <3>5 DEF Readers
      <3>7. reader' \in Readers
        BY <1>0, <1>8, <3>3, <3>5 DEF Readers, ReaderSteps
      <3>8. BoardOK'
        BY <1>0, <1>1 DEF BoardOK, NextId
      <3>9. ReadTrue'
        BY <3>4, <3>6 DEF ReadTrue
      <3>10. ASSUME NEW r \in ReadIn(read), r \notin Shown(pinned, remarks) PROVE Gone(r)
        <4>1. r \in ReadIn(reader.now)
          BY <1>8, <1>7, <3>10 DEF Shown
        <4>2. Past(r) /\ r \in SnapRecords
          BY <1>0, <4>1, ReadTyped DEF SnapInv, ReadTrue
        <4> QED
          BY <1>0, <3>10, <4>2, PastOrGone
      <3>11. \/ kept \subseteq ReadIn(read)
             \/ \E x \in ReadIn(read) : x \notin Shown(pinned, remarks)
        <4>1. CommentsRead
          BY <1>0, <2>2 DEF SnapInv
        <4> QED
          BY <1>0, <1>3, <1>4, <1>8, <1>11, <1>14, <2>2, <4>1, AllCommentsRead
      <3>12. SecondRead'
        BY <1>1, <3>1, <3>4, <3>6, <3>10, <3>11 DEF SecondRead, Gone, NextId
      <3> QED
        BY <1>0, <3>6, <3>7, <3>8, <3>9, <3>12 DEF SnapInv
    <2>3. CASE Distinct(read.comments) /\ reader.second
      <3>1. UNCHANGED midway /\ (Fail \/ /\ VerifySnapshotPair(reader.first, read)
                                         /\ reader' = [reader EXCEPT !.now = read,
                                                                     !.step = "verified"])
        BY <1>14, <2>3 DEF EndComments
      <3>2. CASE Fail
        BY <1>12, <3>1, <3>2
      <3>3. CASE /\ VerifySnapshotPair(reader.first, read)
                 /\ reader' = [reader EXCEPT !.now = read, !.step = "verified"]
        <4>1. /\ reader'.step = "verified" /\ reader'.now = read /\ reader'.first = reader.first
              /\ reader'.second = reader.second /\ reader'.cursor = reader.cursor
              /\ reader'.cursors = reader.cursors
          BY <1>0, <3>3 DEF Readers
        <4>2. reader' \in Readers
          BY <1>0, <1>8, <3>3 DEF Readers, ReaderSteps
        <4>3. BoardOK' /\ ReadTrue' /\ SecondRead'
          BY <1>0, <1>9, <1>10, <2>3, <3>1, <4>1, PageKeeps
        <4> QED
          BY <1>0, <2>3, <3>3, <4>1, <4>2, <4>3 DEF SnapInv
      <3> QED
        BY <3>1, <3>2, <3>3
    <2> QED
      BY <1>0, <2>1, <2>2, <2>3
  <1> QED
    BY <1>6, <1>12, <1>13, <1>14

(* A snapshot begins with what is on the board.                            *)
LEMMA SnapInitial == SnapInit => SnapInv
  <1> SUFFICES ASSUME SnapInit PROVE SnapInv
    OBVIOUS
  <1>1. SnapItems \in Nat /\ SnapComments \in Nat
    BY SnapAssumption
  <1>2. /\ pinned = [i \in 1..SnapItems |-> Record(i, 1)]
        /\ remarks = [i \in 1..SnapComments |-> Record(SnapItems + SnapComments + 1 - i, 1)]
        /\ kept = Shown(pinned, remarks) /\ revised = 0
    BY DEF SnapInit
  <1>3. \A i \in 1..SnapItems : Record(i, 1) \in SnapRecords
    BY <1>1 DEF Record, SnapRecords
  <1>4. \A i \in 1..SnapComments : Record(SnapItems + SnapComments + 1 - i, 1) \in SnapRecords
    BY <1>1 DEF Record, SnapRecords
  <1>5. /\ pinned \in Seq(SnapRecords) /\ Len(pinned) = SnapItems
        /\ \A i \in 1..Len(pinned) : pinned[i].id = i
    BY <1>1, <1>2, <1>3 DEF Record
  <1>6. /\ remarks \in Seq(SnapRecords) /\ Len(remarks) = SnapComments
        /\ \A i \in 1..Len(remarks) : remarks[i].id = SnapItems + SnapComments + 1 - i
    <2> DEFINE f(i) == Record(SnapItems + SnapComments + 1 - i, 1)
    <2>1. \A i \in 1..SnapComments :
            f(i) \in SnapRecords /\ f(i).id = SnapItems + SnapComments + 1 - i
      BY <1>4 DEF Record
    <2>2. remarks = [i \in 1..SnapComments |-> f(i)]
      BY <1>2
    <2> HIDE DEF f
    <2>3. remarks \in Seq(SnapRecords) /\ Len(remarks) = SnapComments
      BY <1>1, <2>1, <2>2
    <2> QED
      BY <2>1, <2>2, <2>3
  <1>7. \A r \in Range(pinned) : r.id \in 1..SnapItems
    BY <1>5, ListRange
  <1>8. \A r \in Range(remarks) : r.id \in SnapItems + 1 .. SnapItems + SnapComments
    <2> TAKE r \in Range(remarks)
    <2>1. PICK i \in 1..Len(remarks) : r = remarks[i]
      BY <1>6, ListRange
    <2> QED
      BY <1>1, <1>6, <2>1
  <1>9. BoardOK
    <2>1. Rising(pinned)
      BY <1>1, <1>5 DEF Rising
    <2>2. Falling(remarks)
      BY <1>1, <1>6 DEF Falling
    <2>3. Disjoint(pinned, remarks)
      <3> SUFFICES ASSUME NEW r \in Range(pinned), NEW q \in Range(remarks), r.id = q.id
                   PROVE  FALSE
        BY DEF Disjoint, Ids
      <3> QED
        BY <1>1, <1>7, <1>8
    <2>4. \A r \in Shown(pinned, remarks) : r.id < NextId
      <3>1. NextId = SnapItems + SnapComments + 1
        BY <1>1, <1>2 DEF NextId
      <3> QED
        BY <1>1, <1>7, <1>8, <3>1 DEF Shown
    <2> QED
      BY <1>2, <1>5, <1>6, <2>1, <2>2, <2>3, <2>4 DEF BoardOK
  <1>10. PICK fresh : fresh = FreshRead
    OBVIOUS
  <1>11. fresh \in Reads /\ fresh.items = <<>> /\ fresh.comments = <<>>
    BY <1>10 DEF FreshRead, Reads
  <1>12. ReadIn(fresh) = {} /\ Range(fresh.comments) = {} /\ Range(fresh.items) = {}
    BY <1>11, RangeOfNone DEF ReadIn
  <1>13. reader = [step |-> "items", first |-> fresh, now |-> fresh, second |-> FALSE,
                   cursor |-> NoCursor, cursors |-> {}, pages |-> {}]
    BY <1>10 DEF SnapInit
  <1>14. reader \in Readers
    BY <1>11, <1>13 DEF Readers, ReaderSteps, NoCursor
  <1>15. ReadTrue
    BY <1>12, <1>13 DEF ReadTrue
  <1>16. ItemsRead
    <2>1. \A r \in Range(pinned) : ~(r.id <= NoCursor)
      BY <1>7 DEF NoCursor
    <2> QED
      BY <1>11, <1>13, <2>1 DEF ItemsRead
  <1> QED
    BY <1>9, <1>13, <1>14, <1>15, <1>16 DEF SnapInv

(* Every step keeps the invariant.                                         *)
LEMMA SnapStep == SnapInv /\ [SnapNext]_snapVars => SnapInv'
  <1> SUFFICES ASSUME SnapInv, [SnapNext]_snapVars PROVE SnapInv'
    OBVIOUS
  <1>1. CASE Add \/ Change \/ Erase
    BY <1>1, EditStep
  <1>2. CASE ReadItems
    BY <1>2, ItemsStep
  <1>3. CASE ReadComments
    BY <1>3, CommentsStep
  <1>4. CASE CallFails
    BY <1>4, FailKeeps DEF CallFails
  <1>5. CASE UNCHANGED snapVars
    <2>1. UNCHANGED <<pinned, remarks, reader, midway, kept, revised>>
      BY <1>5 DEF snapVars
    <2>2. BoardOK'
      BY <2>1 DEF SnapInv, BoardOK, NextId
    <2>3. ReadTrue'
      BY <2>1 DEF SnapInv, ReadTrue, Past, NextId
    <2>4. ItemsRead => ItemsRead'
      BY <2>1 DEF ItemsRead
    <2>5. CommentsRead => CommentsRead'
      BY <2>1 DEF CommentsRead
    <2>6. SecondRead => SecondRead'
      BY <2>1 DEF SecondRead, Gone, NextId
    <2> QED
      BY <2>1, <2>2, <2>3, <2>4, <2>5, <2>6 DEF SnapInv
  <1> QED
    BY <1>1, <1>2, <1>3, <1>4, <1>5 DEF SnapNext

(* What a verified snapshot shows was on the board together between the    *)
(* two reads, and what stayed as it was all along is in it, however people *)
(* edited and whichever pages Miro gave twice (verify_snapshot_pair).      *)
THEOREM SnapshotsAreExact == SnapSpec => []SnapshotExact
  <1>1. SnapInv => SnapshotExact
    <2> SUFFICES ASSUME SnapInv, reader.step = "verified"
                 PROVE  /\ kept \subseteq ReadIn(reader.now)
                        /\ ReadIn(reader.now) \subseteq midway
      BY DEF SnapshotExact, Shown, ReadIn
    <2>1. SecondRead /\ VerifySnapshotPair(reader.first, reader.now)
      BY DEF SnapInv
    <2>2. ReadIn(reader.first) = ReadIn(reader.now)
      BY <2>1 DEF VerifySnapshotPair, ReadIn
    <2> QED
      BY <2>1, <2>2 DEF SecondRead
  <1> QED
    BY <1>1, SnapInitial, SnapStep, PTL DEF SnapSpec
=============================================================================

---------------------------- MODULE DispatchProofs ----------------------------
(***************************************************************************)
(* Proofs about Engagement, for every number of passes and clients, every  *)
(* cadence and every value of the bounds: its types, and what the claims   *)
(* and leases of the dispatcher promise, which is exclusive work on an     *)
(* action, one message per cadence step, and settled actions that stay     *)
(* settled.                                                                *)
(***************************************************************************)
EXTENDS Engagement, TLAPS

(***************************************************************************)
(* What the label of a pass says of its other fields: a claiming pass has  *)
(* a candidate left, and the id of a working one is of the kind of action  *)
(* its label belongs to.                                                   *)
(***************************************************************************)
PassShape ==
  \A p \in Passes :
    /\ pass[p].pc = "claim" => pass[p].todo # <<>>
    /\ pass[p].pc \in Working => pass[p].id \in ActionIds
    /\ pass[p].pc \in {"load", "done", "send", "record"} => pass[p].id \in Msgs
    /\ pass[p].pc \in {"decide", "mint", "commit"} => pass[p].id \in Keys
    /\ pass[p].pc = "commit" => pass[p].m \in Msgs

TypeInv == TypeOK /\ PassShape

-----------------------------------------------------------------------------
(* Lemmas on the operators of the model *)

\* Times are cut off at the horizon.
LEMMA AtMostType ==
  ASSUME NEW t
  PROVE  AtMost(t) \in Time
BY TablesAssumption DEF AtMost, Time

\* A new scheduled action is a row.
LEMMA NewActionType ==
  ASSUME NEW t
  PROVE  NewAction(t) \in ActRow
BY AtMostType, TablesAssumption DEF NewAction, ActRow, ActStatuses, Time

\* A pass between two candidates, or at its end.
LEMMA BatchType ==
  ASSUME NEW now \in Time, NEW todo \in Seq(Candidate)
  PROVE  /\ Batch(now, todo) \in PassState
         /\ Batch(now, todo).pc \in {"idle", "claim"}
         /\ Batch(now, todo).pc = "claim" => Batch(now, todo).todo # <<>>
BY TablesAssumption DEF Batch, PassState, Working, Time, RegStatuses

\* The state of a pass that is not under way.
LEMMA IdleType == Idle \in PassState /\ Idle.pc = "idle"
<1>1. 0 \in Time
  BY TablesAssumption DEF Time
<1>2. <<>> \in Seq(Candidate)
  OBVIOUS
<1> QED
  BY <1>1, <1>2, BatchType DEF Idle, Batch

\* A row stays a row when it is settled or cancelled.
LEMMA RowType ==
  ASSUME NEW row \in ActRow, NEW status \in ActStatuses, NEW due \in Time
  PROVE  /\ [row EXCEPT !.st = status, !.due = due, !.lease = 0] \in ActRow
         /\ [row EXCEPT !.st = status, !.due = due] \in ActRow
<1>1. 0 \in Time
  BY TablesAssumption DEF Time
<1> QED
  BY <1>1 DEF ActRow

\* stopCadence keeps the types of the cadence's rows.
LEMMA StopType ==
  ASSUME TablesTypeOK, stopCadence
  PROVE  /\ act' \in [ActionIds -> ActRow]
         /\ enrollment' \in {"none", "ACTIVE", "CANCELLED"}
<1>1. ASSUME NEW a \in ActionIds
      PROVE  Stopped[a] \in ActRow
  <2>1. act[a] \in ActRow /\ 0 \in Time /\ "CANCELLED" \in ActStatuses
    BY TablesAssumption DEF TablesTypeOK, Time, ActStatuses
  <2> QED
    BY <2>1, RowType DEF Stopped
<1>2. Stopped \in [ActionIds -> ActRow]
  BY <1>1 DEF Stopped
<1> QED
  BY <1>2 DEF stopCadence, TablesTypeOK

\* So does schedulePostEvent.
LEMMA PostEventType ==
  ASSUME TablesTypeOK, NEW status, schedulePostEvent(status)
  PROVE  /\ act' \in [ActionIds -> ActRow]
         /\ enrollment' \in {"none", "ACTIVE", "CANCELLED"}
<1>1. ASSUME NEW a \in ActionIds
      PROVE  act'[a] \in ActRow
  <2>1. act[a] \in ActRow /\ 0 \in Time /\ "CANCELLED" \in ActStatuses
    BY TablesAssumption DEF TablesTypeOK, Time, ActStatuses
  <2> QED
    BY <2>1, RowType, NewActionType DEF schedulePostEvent
<1> QED
  BY <1>1 DEF schedulePostEvent

\* Withdrawn consent and a suppression, of any purpose.
LEMMA SuppressType ==
  ASSUME TablesTypeOK, NEW purpose \in Purposes, suppressLead(purpose)
  PROVE  /\ consent' \in [Purposes -> BOOLEAN]
         /\ suppressed' \in SUBSET Purposes
BY DEF suppressLead, TablesTypeOK

\* The two ways a pass writes the row of the action it works on.
LEMMA SettleType ==
  ASSUME TablesTypeOK, NEW p \in Passes, pass[p].id \in ActionIds,
         NEW status \in ActStatuses, NEW due
  PROVE  /\ Settle(p, status) \in [ActionIds -> ActRow]
         /\ Reschedule(p, due) \in [ActionIds -> ActRow]
<1>1. 0 \in Time /\ AtMost(due) \in Time
  BY AtMostType, TablesAssumption DEF Time
<1>2. act[pass[p].id] \in ActRow
  BY DEF TablesTypeOK
<1>3. /\ [act[pass[p].id] EXCEPT !.st = status, !.due = 0, !.lease = 0]
              \in ActRow
      /\ [act[pass[p].id] EXCEPT !.st = "PENDING", !.due = AtMost(due),
                                 !.lease = 0] \in ActRow
  BY <1>1, <1>2, RowType DEF ActStatuses
<1> QED
  BY <1>3 DEF Settle, Reschedule, TablesTypeOK

\* A message keeps one of the two purposes.
LEMMA PurposeType ==
  ASSUME NEW a
  PROVE  PurposeOf(a) \in Purposes
BY DEF PurposeOf, KeyPurpose, Purposes

\* What a batch query returns can be worked off.
LEMMA BatchesType ==
  ASSUME TablesTypeOK, NEW s \in Batches(clock)
  PROVE  [i \in DOMAIN s |-> [id |-> s[i], attempts |-> act[s[i]].attempts]]
           \in Seq(Candidate)
<1>1. PICK n \in 1..BatchSize : s \in [1..n -> Due(clock)]
  BY DEF Batches
<1>2. n \in Nat
  BY DispatcherAssumption
<1>3. ASSUME NEW i \in 1..n
      PROVE  [id |-> s[i], attempts |-> act[s[i]].attempts] \in Candidate
  <2>1. s[i] \in ActionIds
    BY <1>1 DEF Due
  <2>2. act[s[i]].attempts \in 0..MaxAttempts
    BY <2>1 DEF TablesTypeOK, ActRow
  <2> QED
    BY <2>1, <2>2 DEF Candidate
<1> QED
  BY <1>1, <1>2, <1>3

-----------------------------------------------------------------------------
(* Type correctness *)

\* The initial rows, requests and passes have their types.
LEMMA TypeInit == Init => TypeInv
<1> SUFFICES ASSUME Init PROVE TypeInv
  OBVIOUS
<1>1. TablesTypeOK
  <2>1. reg \in RegStatuses /\ consent \in [Purposes -> BOOLEAN]
    BY TablesAssumption DEF Init, TablesInit, RegStatuses
  <2>2. NoAct \in ActRow /\ NoMsg \in MsgRow
    BY TablesAssumption DEF NoAct, ActRow, ActStatuses, Time, NoMsg, MsgRow,
                            MsgStatuses
  <2>3. NoTokens \in [Msgs \X TokenActions -> TokenStates]
    BY DEF NoTokens, TokenStates
  <2>4. /\ act \in [ActionIds -> ActRow]
        /\ msg \in [Msgs -> MsgRow]
        /\ tokens \in [Msgs \X TokenActions -> TokenStates]
        /\ origin \in [Msgs -> Keys \cup {NoKey}]
    BY <2>2, <2>3 DEF Init, TablesInit
  <2>5. clock \in Time
    BY TablesAssumption DEF Init, TablesInit, Time
  <2>6. /\ suppressed \in SUBSET Purposes /\ mailed \in SUBSET Msgs
        /\ anonymized \in BOOLEAN /\ meeting \in BOOLEAN
        /\ enrollment \in {"none", "ACTIVE", "CANCELLED"}
        /\ conv \in ConvStatuses
    BY DEF Init, TablesInit, ConvStatuses
  <2> QED
    BY <2>1, <2>4, <2>5, <2>6 DEF TablesTypeOK
<1>2. ApiTypeOK
  BY DEF Init, ApiInit, ApiTypeOK
<1>3. DispatcherTypeOK
  BY IdleType, DispatcherAssumption DEF Init, DispatcherInit, DispatcherTypeOK
<1>4. PassShape
  BY IdleType DEF Init, DispatcherInit, PassShape, Working
<1> QED
  BY <1>1, <1>2, <1>3, <1>4 DEF TypeInv, TypeOK

\* A read of a client leaves the tables alone and notes a request.
LEMMA BeginType ==
  ASSUME TablesTypeOK, ApiTypeOK, NEW c \in Clients, NEW request,
         Begin(c, request),
         request \in StatusRequest \cup InboundRequest \cup PublicRequest
                       \cup WebhookRequest
  PROVE  TablesTypeOK' /\ ApiTypeOK'
<1>1. TablesTypeOK'
  BY DEF Begin, tableVars, leadVars, cadenceVars, mailVars, TablesTypeOK
<1>2. ApiTypeOK'
  BY DEF Begin, ApiTypeOK
<1> QED
  BY <1>1, <1>2

\* Every operation of the API keeps the types.
LEMMA ApiTypeStep ==
  ASSUME TablesTypeOK, ApiTypeOK, ApiStep
  PROVE  TablesTypeOK' /\ ApiTypeOK'
<1> USE DEF leadVars, cadenceVars, mailVars, tableVars, apiVars
<1>1. ASSUME NEW c \in Clients, updateRegistrationStatusRead(c)
      PROVE  TablesTypeOK' /\ ApiTypeOK'
  <2>1. PICK target \in transitions[reg] :
          Begin(c, [op |-> "status", target |-> target])
    BY <1>1 DEF updateRegistrationStatusRead
  <2>2. target \in RegStatuses
    BY DEF transitions, TablesTypeOK, RegStatuses
  <2> QED
    BY <2>1, <2>2, BeginType DEF StatusRequest
<1>2. ASSUME NEW c \in Clients, updateRegistrationStatus(c)
      PROVE  TablesTypeOK' /\ ApiTypeOK'
  <2>1. client[c] \in StatusRequest
    BY <1>2 DEF updateRegistrationStatus, ApiTypeOK, StatusRequest,
       InboundRequest, PublicRequest, WebhookRequest, NoRequest
  <2>2. reg' \in RegStatuses
    BY <1>2, <2>1 DEF updateRegistrationStatus, StatusRequest
  <2>3. /\ act' \in [ActionIds -> ActRow]
        /\ enrollment' \in {"none", "ACTIVE", "CANCELLED"}
    BY <1>2, StopType, PostEventType DEF updateRegistrationStatus, TablesTypeOK
  <2>4. TablesTypeOK'
    BY <1>2, <2>2, <2>3 DEF updateRegistrationStatus, TablesTypeOK
  <2> QED
    BY <1>2, <2>4 DEF updateRegistrationStatus, End, ApiTypeOK
<1>3. ASSUME NEW c \in Clients, recordInboundRead(c)
      PROVE  TablesTypeOK' /\ ApiTypeOK'
  BY <1>3, BeginType DEF recordInboundRead, InboundRequest, TablesTypeOK
<1>4. ASSUME NEW c \in Clients, recordInbound(c)
      PROVE  TablesTypeOK' /\ ApiTypeOK'
  <2>1. reg' \in RegStatuses
    BY <1>4 DEF recordInbound, StatusAfter, TablesTypeOK, RegStatuses
  <2>2. conv' \in ConvStatuses
    BY <1>4 DEF recordInbound, ConversationAfter, ConvStatuses
  <2>3. /\ consent' \in [Purposes -> BOOLEAN]
        /\ suppressed' \in SUBSET Purposes
    BY <1>4, SuppressType DEF recordInbound, TablesTypeOK, Purposes
  <2>4. /\ act' \in [ActionIds -> ActRow]
        /\ enrollment' \in {"none", "ACTIVE", "CANCELLED"}
    BY <1>4, StopType DEF recordInbound, TablesTypeOK
  <2>5. TablesTypeOK'
    BY <1>4, <2>1, <2>2, <2>3, <2>4 DEF recordInbound, TablesTypeOK
  <2> QED
    BY <1>4, <2>5 DEF recordInbound, End, ApiTypeOK
<1>5. ASSUME NEW c \in Clients, consumePublicActionRead(c)
      PROVE  TablesTypeOK' /\ ApiTypeOK'
  BY <1>5, BeginType DEF consumePublicActionRead, PublicRequest, TablesTypeOK
<1>6. ASSUME NEW c \in Clients, consumePublicAction(c)
      PROVE  TablesTypeOK' /\ ApiTypeOK'
  <2>1. client[c] \in PublicRequest
    BY <1>6 DEF consumePublicAction, ApiTypeOK, StatusRequest,
       InboundRequest, PublicRequest, WebhookRequest, NoRequest
  <2>2. reg' \in RegStatuses
    BY <1>6 DEF consumePublicAction, TablesTypeOK, RegStatuses
  <2>3. /\ consent' \in [Purposes -> BOOLEAN]
        /\ suppressed' \in SUBSET Purposes
    BY <1>6, SuppressType, PurposeType DEF consumePublicAction, TablesTypeOK
  <2>4. /\ act' \in [ActionIds -> ActRow]
        /\ enrollment' \in {"none", "ACTIVE", "CANCELLED"}
    BY <1>6, StopType DEF consumePublicAction, TablesTypeOK
  <2>5. tokens' \in [Msgs \X TokenActions -> TokenStates]
    BY <1>6, <2>1 DEF consumePublicAction, TablesTypeOK, TokenStates,
                      PublicRequest
  <2>6. TablesTypeOK'
    BY <1>6, <2>2, <2>3, <2>4, <2>5 DEF consumePublicAction, TablesTypeOK
  <2> QED
    BY <1>6, <2>6 DEF consumePublicAction, End, ApiTypeOK
<1>7. ASSUME NEW c \in Clients, processEmailWebhookRead(c)
      PROVE  TablesTypeOK' /\ ApiTypeOK'
  <2>1. PICK m \in mailed, type \in WebhookTypes :
          Begin(c, [op |-> "webhook", m |-> m, type |-> type,
                    seen |-> msg[m].st])
    BY <1>7 DEF processEmailWebhookRead
  <2>2. m \in Msgs /\ msg[m].st \in MsgStatuses
    BY DEF TablesTypeOK, MsgRow
  <2> QED
    BY <2>1, <2>2, BeginType DEF WebhookRequest
<1>8. ASSUME NEW c \in Clients, processEmailWebhook(c)
      PROVE  TablesTypeOK' /\ ApiTypeOK'
  <2>1. client[c] \in WebhookRequest
    BY <1>8 DEF processEmailWebhook, ApiTypeOK, StatusRequest,
       InboundRequest, PublicRequest, WebhookRequest, NoRequest
  <2>2. msg' \in [Msgs -> MsgRow]
    BY <1>8, <2>1 DEF processEmailWebhook, TablesTypeOK, MsgRow, MsgStatuses,
                      WebhookRequest, WebhookTypes
  <2>3. suppressed' \in SUBSET Purposes
    BY <1>8, PurposeType DEF processEmailWebhook, TablesTypeOK
  <2>4. processed' \in SUBSET (Msgs \X WebhookTypes)
    BY <1>8, <2>1 DEF processEmailWebhook, ApiTypeOK, WebhookRequest
  <2>5. TablesTypeOK'
    BY <1>8, <2>2, <2>3 DEF processEmailWebhook, TablesTypeOK
  <2> QED
    BY <1>8, <2>4, <2>5 DEF processEmailWebhook, End, ApiTypeOK
<1>9. CASE bookMeeting
  <2>1. /\ act' \in [ActionIds -> ActRow]
        /\ enrollment' \in {"none", "ACTIVE", "CANCELLED"}
    BY <1>9, StopType DEF bookMeeting
  <2> QED
    BY <1>9, <2>1 DEF bookMeeting, TablesTypeOK, ApiTypeOK
<1>10. CASE withdrawConsent
  <2>1. /\ act' \in [ActionIds -> ActRow]
        /\ enrollment' \in {"none", "ACTIVE", "CANCELLED"}
    BY <1>10, StopType DEF withdrawConsent
  <2>2. /\ consent' \in [Purposes -> BOOLEAN]
        /\ suppressed' \in SUBSET Purposes
    BY <1>10, SuppressType DEF withdrawConsent
  <2> QED
    BY <1>10, <2>1, <2>2 DEF withdrawConsent, TablesTypeOK, ApiTypeOK
<1>11. CASE deleteLeadData
  <2>1. /\ msg' \in [Msgs -> MsgRow]
        /\ tokens' \in [Msgs \X TokenActions -> TokenStates]
        /\ consent' \in [Purposes -> BOOLEAN]
    BY <1>11 DEF deleteLeadData, NoMsg, MsgRow, MsgStatuses, NoTokens,
                 TokenStates
  <2> QED
    BY <1>11, <2>1 DEF deleteLeadData, TablesTypeOK, ApiTypeOK, ConvStatuses
<1> QED
  BY <1>1, <1>2, <1>3, <1>4, <1>5, <1>6, <1>7, <1>8, <1>9, <1>10, <1>11
     DEF ApiStep, ClientStep

\* A step that only moves the label of one pass, or that goes on to the next
\* candidate, keeps the types of the passes.
LEMMA PassMoves ==
  ASSUME DispatcherTypeOK, PassShape, NEW p \in Passes
  PROVE  /\ Proceed(p) => /\ pass' \in [Passes -> PassState]
                          /\ PassShape'
         /\ \A label \in {"fail", "defer", "reject"} :
              pass[p].pc \in Working /\ GoTo(p, label) =>
                pass' \in [Passes -> PassState] /\ PassShape'
         /\ \A label \in {"done", "send", "record"} :
              pass[p].pc \in Working /\ pass[p].id \in Msgs /\ GoTo(p, label) =>
                pass' \in [Passes -> PassState] /\ PassShape'
         /\ pass[p].pc \in Working /\ pass[p].id \in Keys /\ GoTo(p, "mint") =>
              pass' \in [Passes -> PassState] /\ PassShape'
<1>1. pass[p] \in PassState
  BY DEF DispatcherTypeOK
<1>2. ASSUME Proceed(p)
      PROVE  pass' \in [Passes -> PassState] /\ PassShape'
  <2>1. pass[p].now \in Time /\ pass[p].todo \in Seq(Candidate)
    BY <1>1 DEF PassState
  <2>2. pass' = [pass EXCEPT ![p] = Batch(pass[p].now, pass[p].todo)]
    BY <1>2 DEF Proceed
  <2> QED
    BY <2>1, <2>2, BatchType DEF DispatcherTypeOK, PassShape, Working
<1>3. ASSUME NEW label \in {"fail", "defer", "reject", "done", "send", "record",
                            "mint"},
             GoTo(p, label)
      PROVE  pass' \in [Passes -> PassState]
  BY <1>1, <1>3 DEF GoTo, DispatcherTypeOK, PassState, Working
<1>4. ASSUME NEW label \in {"fail", "defer", "reject"},
             pass[p].pc \in Working, GoTo(p, label)
      PROVE  PassShape'
  BY <1>1, <1>4 DEF GoTo, PassShape, Working, DispatcherTypeOK, PassState
<1>5. ASSUME NEW label \in {"done", "send", "record"},
             pass[p].pc \in Working, pass[p].id \in Msgs, GoTo(p, label)
      PROVE  PassShape'
  BY <1>1, <1>5 DEF GoTo, PassShape, Working, DispatcherTypeOK, PassState
<1>6. ASSUME pass[p].pc \in Working, pass[p].id \in Keys, GoTo(p, "mint")
      PROVE  PassShape'
  BY <1>1, <1>6 DEF GoTo, PassShape, Working, DispatcherTypeOK, PassState
<1> QED
  BY <1>2, <1>3, <1>4, <1>5, <1>6

\* Every step of a pass keeps the types of the rows and of the passes.
LEMMA DispatcherTypeStep ==
  ASSUME TablesTypeOK, DispatcherTypeOK, PassShape,
         NEW p \in Passes, PassStep(p)
  PROVE  TablesTypeOK' /\ DispatcherTypeOK' /\ PassShape'
<1> USE DEF leadVars, cadenceVars, mailVars, tableVars
<1>a. pass[p] \in PassState
  BY DEF DispatcherTypeOK
<1>b. pass[p].now \in Time /\ pass[p].todo \in Seq(Candidate)
  BY <1>a DEF PassState
<1>1. CASE fetchCandidates(p)
  <2>1. PICK s \in Batches(clock) :
          pass' = [pass EXCEPT ![p] = Batch(clock,
                     [i \in DOMAIN s |->
                        [id |-> s[i], attempts |-> act[s[i]].attempts]])]
    BY <1>1 DEF fetchCandidates
  <2>2. [i \in DOMAIN s |-> [id |-> s[i], attempts |-> act[s[i]].attempts]]
          \in Seq(Candidate)
    BY BatchesType
  <2>3. clock \in Time
    BY DEF TablesTypeOK
  <2>4. pass' \in [Passes -> PassState] /\ PassShape'
    BY <2>1, <2>2, <2>3, BatchType DEF DispatcherTypeOK, PassShape, Working
  <2> QED
    BY <1>1, <2>4 DEF fetchCandidates, TablesTypeOK, DispatcherTypeOK
<1>2. CASE claim(p)
  <2> DEFINE a == Head(pass[p].todo).id
  <2>1. /\ Head(pass[p].todo) \in Candidate
        /\ Tail(pass[p].todo) \in Seq(Candidate)
    BY <1>2, <1>b DEF claim, PassShape
  <2>2. a \in ActionIds /\ Head(pass[p].todo).attempts \in 0..MaxAttempts
    BY <2>1 DEF Candidate
  <2>3. Leased(act[a], pass[p].now) \in ActRow
    <3>1. LeaseEnd(pass[p].now) \in Time
      BY AtMostType DEF LeaseEnd
    <3>2. act[a] \in ActRow
      BY <2>2 DEF TablesTypeOK
    <3>3. (IF act[a].attempts < MaxAttempts
           THEN act[a].attempts + 1 ELSE act[a].attempts) \in 0..MaxAttempts
      BY <3>2, TablesAssumption DEF ActRow
    <3> QED
      BY <3>1, <3>2, <3>3 DEF Leased, ActRow, ActStatuses
  <2>4. act' \in [ActionIds -> ActRow]
    BY <1>2, <2>2, <2>3 DEF claim, TablesTypeOK
  <2>5. Taken(pass[p]) \in PassState
    BY <1>a, <2>1, <2>2 DEF Taken, PassState, Working
  <2>6. pass' \in [Passes -> PassState]
    BY <1>2, <2>5 DEF claim, DispatcherTypeOK
  <2>7. PassShape'
    <3>1. a \notin Msgs => a \in Keys
      BY <2>2 DEF ActionIds
    <3>2. /\ Taken(pass[p]).id = a
          /\ Taken(pass[p]).pc = IF a \in Msgs THEN "load" ELSE "decide"
      BY <1>a DEF Taken, PassState
    <3>3. pass' = [pass EXCEPT ![p] = Taken(pass[p])]
      BY <1>2 DEF claim
    <3> QED
      BY <2>2, <3>1, <3>2, <3>3 DEF PassShape, Working, DispatcherTypeOK
  <2>8. overrun' \in SUBSET ActionIds
    BY <1>2, <2>2 DEF claim, DispatcherTypeOK
  <2> QED
    BY <1>2, <2>4, <2>6, <2>7, <2>8 DEF claim, TablesTypeOK, DispatcherTypeOK
<1>3. CASE claimLost(p)
  <2>1. Tail(pass[p].todo) \in Seq(Candidate)
    BY <1>3, <1>b DEF claimLost, PassShape
  <2>2. pass' = [pass EXCEPT ![p] = Batch(pass[p].now, Tail(pass[p].todo))]
    BY <1>3 DEF claimLost
  <2>3. pass' \in [Passes -> PassState] /\ PassShape'
    BY <1>b, <2>1, <2>2, BatchType DEF DispatcherTypeOK, PassShape, Working
  <2> QED
    BY <1>3, <2>3 DEF claimLost, TablesTypeOK, DispatcherTypeOK
<1>4. CASE fail(p)
  <2>1. pass[p].id \in ActionIds
    BY <1>4 DEF fail, PassShape, Working
  <2>2. act' \in [ActionIds -> ActRow]
    BY <1>4, <2>1, SettleType DEF fail, ActStatuses
  <2>3. pass' \in [Passes -> PassState] /\ PassShape'
    BY <1>4, PassMoves DEF fail
  <2> QED
    BY <1>4, <2>2, <2>3 DEF fail, TablesTypeOK, DispatcherTypeOK
<1>5. CASE readEnrollment(p)
  <2>1. pass' = [pass EXCEPT ![p] = [@ EXCEPT !.pc = "check", !.reg = reg,
                                              !.sup = anonymized]]
    BY <1>5 DEF readEnrollment
  <2>2. [pass[p] EXCEPT !.pc = "check", !.reg = reg, !.sup = anonymized]
          \in PassState
    BY <1>a DEF PassState, Working, TablesTypeOK
  <2>3. pass' \in [Passes -> PassState]
    BY <2>1, <2>2 DEF DispatcherTypeOK
  <2>4. PassShape'
    BY <1>5, <1>a, <2>1 DEF readEnrollment, PassShape, Working, PassState,
                            DispatcherTypeOK
  <2> QED
    BY <1>5, <2>3, <2>4 DEF readEnrollment, TablesTypeOK, DispatcherTypeOK
<1>6. CASE readMessage(p)
  <2>1. pass[p].id \in Msgs /\ pass[p].pc \in Working
    BY <1>6 DEF readMessage, PassShape, Working
  <2>2. CASE pass' = [pass EXCEPT ![p] = [@ EXCEPT !.pc = "check", !.reg = reg,
                                              !.sup = anonymized]]
    <3>1. [pass[p] EXCEPT !.pc = "check", !.reg = reg, !.sup = anonymized]
            \in PassState
      BY <1>a DEF PassState, Working, TablesTypeOK
    <3>2. pass' \in [Passes -> PassState]
      BY <2>2, <3>1 DEF DispatcherTypeOK
    <3>3. PassShape'
      BY <2>1, <2>2, <1>a DEF PassShape, Working, PassState, DispatcherTypeOK
    <3> QED
      BY <1>6, <3>2, <3>3 DEF readMessage, TablesTypeOK, DispatcherTypeOK
  <2>3. CASE GoTo(p, "fail") \/ GoTo(p, "done")
    <3>1. pass' \in [Passes -> PassState] /\ PassShape'
      BY <2>1, <2>3, PassMoves
    <3> QED
      BY <1>6, <3>1 DEF readMessage, TablesTypeOK, DispatcherTypeOK
  <2> QED
    BY <1>6, <2>2, <2>3 DEF readMessage
<1>7. CASE checkPolicy(p)
  <2>1. pass[p].pc \in Working /\ pass[p].id \in ActionIds
    BY <1>7 DEF checkPolicy, PassShape, Working
  <2>2. pass[p].id \notin Msgs => pass[p].id \in Keys
    BY <2>1 DEF ActionIds
  <2>3. pass' \in [Passes -> PassState] /\ PassShape'
    BY <1>7, <2>1, <2>2, PassMoves DEF checkPolicy
  <2> QED
    BY <1>7, <2>3 DEF checkPolicy, TablesTypeOK, DispatcherTypeOK
<1>8. CASE defer(p)
  <2>1. pass[p].id \in ActionIds
    BY <1>8 DEF defer, PassShape, Working
  <2>2. act' \in [ActionIds -> ActRow]
    BY <1>8, <2>1, SettleType DEF defer, ActStatuses
  <2>3. pass' \in [Passes -> PassState] /\ PassShape'
    BY <1>8, PassMoves DEF defer
  <2> QED
    BY <1>8, <2>2, <2>3 DEF defer, TablesTypeOK, DispatcherTypeOK
<1>9. CASE rejectDecision(p)
  <2>1. pass[p].id \in ActionIds
    BY <1>9 DEF rejectDecision, PassShape, Working
  <2>2. act' \in [ActionIds -> ActRow]
    BY <1>9, <2>1, SettleType DEF rejectDecision, ActStatuses
  <2>3. pass' \in [Passes -> PassState] /\ PassShape'
    BY <1>9, PassMoves DEF rejectDecision
  <2> QED
    BY <1>9, <2>2, <2>3 DEF rejectDecision, TablesTypeOK, DispatcherTypeOK
<1>10. CASE rejectSend(p)
  <2>1. pass[p].id \in ActionIds /\ pass[p].pc \in Working
    BY <1>10 DEF rejectSend, PassShape, Working
  <2>2. act' \in [ActionIds -> ActRow]
    BY <1>10, <2>1, SettleType DEF rejectSend, ActStatuses, TablesTypeOK
  <2>3. pass' \in [Passes -> PassState] /\ PassShape'
    BY <1>10, <2>1, PassMoves DEF rejectSend
  <2>4. msg' \in [Msgs -> MsgRow]
    BY <1>10 DEF rejectSend, TablesTypeOK, MsgRow, MsgStatuses
  <2> QED
    BY <1>10, <2>2, <2>3, <2>4 DEF rejectSend, TablesTypeOK, DispatcherTypeOK
<1>11. CASE createPublicActionTokens(p)
  <2>1. PICK m \in Msgs :
          /\ tokens' = [t \in DOMAIN tokens |->
                          IF t[1] = m THEN "unused" ELSE tokens[t]]
          /\ pass' = [pass EXCEPT ![p] = [@ EXCEPT !.pc = "commit", !.m = m]]
    BY <1>11 DEF createPublicActionTokens
  <2>2. tokens' \in [Msgs \X TokenActions -> TokenStates]
    BY <2>1 DEF TablesTypeOK, TokenStates
  <2>3. [pass[p] EXCEPT !.pc = "commit", !.m = m] \in PassState
    BY <1>a DEF PassState, Working
  <2>4. pass' \in [Passes -> PassState]
    BY <2>1, <2>3 DEF DispatcherTypeOK
  <2>5. PassShape'
    BY <1>11, <1>a, <2>1 DEF createPublicActionTokens, PassShape, Working,
                             PassState, DispatcherTypeOK
  <2> QED
    BY <1>11, <2>2, <2>4, <2>5 DEF createPublicActionTokens, TablesTypeOK,
                                   DispatcherTypeOK
<1>12. CASE attemptFails(p)
  <2>1. pass' = [pass EXCEPT ![p] = [@ EXCEPT !.pc = "fail", !.m = NoKey]]
    BY <1>12 DEF attemptFails
  <2>2. [pass[p] EXCEPT !.pc = "fail", !.m = NoKey] \in PassState
    BY <1>a DEF PassState, Working
  <2>3. pass' \in [Passes -> PassState]
    BY <2>1, <2>2 DEF DispatcherTypeOK
  <2>4. PassShape'
    BY <1>12, <1>a, <2>1 DEF attemptFails, PassShape, Working, PassState,
                             DispatcherTypeOK
  <2> QED
    BY <1>12, <2>3, <2>4 DEF attemptFails, TablesTypeOK, DispatcherTypeOK
<1>13. CASE commitDecision(p)
  <2>1. pass[p].id \in ActionIds /\ pass[p].id \in Keys /\ pass[p].m \in Msgs
    BY <1>13 DEF commitDecision, PassShape, Working
  <2>2. act' \in [ActionIds -> ActRow]
    <3>1. Settle(p, "COMPLETED") \in [ActionIds -> ActRow]
      BY <2>1, SettleType DEF ActStatuses
    <3> QED
      BY <1>13, <3>1, NewActionType DEF commitDecision
  <2>3. msg' \in [Msgs -> MsgRow] /\ conv' \in ConvStatuses
    BY <1>13 DEF commitDecision, TablesTypeOK, MsgRow, MsgStatuses, ConvStatuses
  <2>4. origin' \in [Msgs -> Keys \cup {NoKey}]
    BY <1>13, <2>1 DEF commitDecision, TablesTypeOK
  <2>5. pass' \in [Passes -> PassState] /\ PassShape'
    BY <1>13, PassMoves DEF commitDecision
  <2> QED
    BY <1>13, <2>2, <2>3, <2>4, <2>5
       DEF commitDecision, TablesTypeOK, DispatcherTypeOK
<1>14. CASE completeSent(p)
  <2>1. pass[p].id \in ActionIds
    BY <1>14 DEF completeSent, PassShape, Working
  <2>2. act' \in [ActionIds -> ActRow]
    BY <1>14, <2>1, SettleType DEF completeSent, ActStatuses
  <2>3. pass' \in [Passes -> PassState] /\ PassShape'
    BY <1>14, PassMoves DEF completeSent
  <2> QED
    BY <1>14, <2>2, <2>3 DEF completeSent, TablesTypeOK, DispatcherTypeOK
<1>15. CASE send(p) \/ sendFails(p)
  <2>1. pass[p].id \in Msgs /\ pass[p].pc \in Working
    BY <1>15 DEF send, sendFails, PassShape, Working
  <2>2. pass' \in [Passes -> PassState] /\ PassShape'
    BY <1>15, <2>1, PassMoves DEF send, sendFails
  <2>3. mailed' \in SUBSET Msgs
    BY <1>15, <2>1 DEF send, sendFails, TablesTypeOK
  <2> QED
    BY <1>15, <2>2, <2>3 DEF send, sendFails, TablesTypeOK, DispatcherTypeOK
<1>16. CASE recordDelivery(p)
  <2>1. /\ pass[p].id \in ActionIds /\ pass[p].id \in Msgs
        /\ pass[p].pc \in Working
    BY <1>16 DEF recordDelivery, PassShape, Working
  <2>2. act' \in [ActionIds -> ActRow]
    BY <1>16, <2>1, SettleType DEF recordDelivery, ActStatuses, TablesTypeOK
  <2>3. pass' \in [Passes -> PassState] /\ PassShape'
    BY <1>16, <2>1, PassMoves DEF recordDelivery
  <2>4. msg' \in [Msgs -> MsgRow]
    <3>1. [st |-> AcceptedStatus, pid |-> TRUE] \in MsgRow
      BY DEF AcceptedStatus, MsgRow, MsgStatuses
    <3> QED
      BY <1>16, <3>1 DEF recordDelivery, TablesTypeOK
  <2> QED
    BY <1>16, <2>2, <2>3, <2>4
       DEF recordDelivery, TablesTypeOK, DispatcherTypeOK
<1> QED
  BY <1>1, <1>2, <1>3, <1>4, <1>5, <1>6, <1>7, <1>8, <1>9, <1>10, <1>11, <1>12,
     <1>13, <1>14, <1>15, <1>16 DEF PassStep

\* Every step of the system keeps the types.
LEMMA TypeStep == TypeInv /\ [Next]_vars => TypeInv'
<1> SUFFICES ASSUME TypeInv, [Next]_vars PROVE TypeInv'
  OBVIOUS
<1> USE DEF leadVars, cadenceVars, mailVars, tableVars, apiVars, dispatcherVars,
            TypeInv, TypeOK
<1>1. CASE processLeadEnrichment
  <2>1. act' \in [ActionIds -> ActRow]
    BY <1>1, NewActionType DEF processLeadEnrichment, TablesTypeOK
  <2>2. TablesTypeOK'
    BY <1>1, <2>1 DEF processLeadEnrichment, TablesTypeOK, ConvStatuses
  <2> QED
    BY <1>1, <2>2 DEF processLeadEnrichment, ApiTypeOK, DispatcherTypeOK,
                      PassShape
<1>2. CASE ApiStep /\ UNCHANGED dispatcherVars
  <2>1. TablesTypeOK' /\ ApiTypeOK'
    BY <1>2, ApiTypeStep
  <2> QED
    BY <1>2, <2>1 DEF DispatcherTypeOK, PassShape
<1>3. ASSUME NEW p \in Passes, DispatcherStep(p)
      PROVE  TypeInv'
  <2>1. TablesTypeOK' /\ DispatcherTypeOK' /\ PassShape'
    BY <1>3, DispatcherTypeStep DEF DispatcherStep
  <2> QED
    BY <1>3, <2>1 DEF DispatcherStep, ApiTypeOK
<1>4. ASSUME NEW p \in Passes, crash(p), UNCHANGED apiVars
      PROVE  TypeInv'
  <2>1. pass' \in [Passes -> PassState] /\ PassShape'
    BY <1>4, IdleType DEF crash, DispatcherTypeOK, PassShape, Working
  <2>2. crashes' \in 0..MaxCrashes
    BY <1>4, DispatcherAssumption DEF crash, DispatcherTypeOK
  <2> QED
    BY <1>4, <2>1, <2>2 DEF crash, TablesTypeOK, ApiTypeOK, DispatcherTypeOK
<1>5. CASE Tick /\ UNCHANGED apiVars
  <2>1. clock' \in Time
    BY <1>5, TablesAssumption DEF Tick, TablesTypeOK, Time
  <2>2. overrun' \in SUBSET ActionIds
    BY <1>5 DEF Tick, DispatcherTypeOK, PassShape
  <2> QED
    BY <1>5, <2>1, <2>2 DEF Tick, TablesTypeOK, ApiTypeOK, DispatcherTypeOK,
                            PassShape
<1>6. CASE UNCHANGED vars
  BY <1>6 DEF vars, TablesTypeOK, ApiTypeOK, DispatcherTypeOK, PassShape
<1> QED
  BY <1>1, <1>2, <1>3, <1>4, <1>5, <1>6 DEF Next

\* TypeInv is an invariant of the specification.
LEMMA TypeInvariant == Spec => []TypeInv
BY TypeInit, TypeStep, PTL DEF Spec

\* Type correctness: rows, requests and passes have their types in every
\* reachable state, so no operation of the API or of a pass is ever applied
\* to a row, a batch or a label it does not expect.
THEOREM TypeCorrect == Spec => []TypeOK
<1>1. TypeInv => TypeOK
  BY DEF TypeInv
<1> QED
  BY <1>1, TypeInvariant, PTL


-----------------------------------------------------------------------------
(* The shape of the steps, as far as these proofs need it *)

\* The pass p moves from a label to another one with the same action in hand.
Moved(p) ==
  /\ pass[p].pc \in Working
  /\ pass'[p].id = pass[p].id
  /\ pass'[p].now = pass[p].now
  /\ pass'[p].pc # "commit"
  /\ pass'[p].m = NoKey \/ (pass[p].pc # "commit" /\ pass'[p].m = pass[p].m)

\* The pass p has nothing in hand after the step.
Released(p) ==
  /\ pass'[p].pc \notin Working
  /\ pass'[p].m = NoKey
  /\ pass'[p].now \in {0, clock, pass[p].now}

\* A pass between two candidates holds neither an action nor a message id.
LEMMA BatchFields ==
  ASSUME NEW now, NEW todo
  PROVE  /\ Batch(now, todo).pc \notin Working
         /\ Batch(now, todo).m = NoKey
         /\ Batch(now, todo).now \in {0, now}
BY DEF Batch, Working

\* A step of a pass changes no other pass, and is a claim, a draft that
\* starts or commits, a step that writes at most the row of the action it has
\* in hand and lets go of it, or one that writes no row at all.
LEMMA PassStepShape ==
  ASSUME TypeInv, NEW p \in Passes, PassStep(p)
  PROVE  /\ \A q \in Passes \ {p} : pass'[q] = pass[q]
         /\ clock' = clock
         /\ \/ claim(p)
            \/ createPublicActionTokens(p)
            \/ commitDecision(p)
            \/ /\ UNCHANGED <<act, origin, overrun>>
               /\ Moved(p) \/ Released(p)
            \/ /\ UNCHANGED <<origin, overrun>>
               /\ pass[p].pc \in Working
               /\ Released(p)
               /\ \A a \in ActionIds \ {pass[p].id} : act'[a] = act[a]
<1> USE DEF tableVars, leadVars, cadenceVars, mailVars
<1>a. pass \in [Passes -> PassState] /\ pass[p] \in PassState
  BY DEF TypeInv, TypeOK, DispatcherTypeOK
<1>b. Proceed(p) => Released(p) /\ \A q \in Passes \ {p} : pass'[q] = pass[q]
  BY <1>a, BatchFields DEF Proceed, Released
<1>c. ASSUME NEW label \in Working, label # "commit", GoTo(p, label),
             pass[p].pc \in Working, pass[p].pc # "commit"
      PROVE  Moved(p) /\ \A q \in Passes \ {p} : pass'[q] = pass[q]
  BY <1>a, <1>c DEF GoTo, Moved, PassState
<1>d. ASSUME NEW a \in ActionIds \ {pass[p].id}, NEW status, NEW due
      PROVE  Settle(p, status)[a] = act[a] /\ Reschedule(p, due)[a] = act[a]
  BY DEF Settle, Reschedule, TypeInv, TypeOK, TablesTypeOK
<1>1. CASE fetchCandidates(p)
  <2>1. PICK todo : pass' = [pass EXCEPT ![p] = Batch(clock, todo)]
    BY <1>1 DEF fetchCandidates
  <2>2. Released(p) /\ \A q \in Passes \ {p} : pass'[q] = pass[q]
    BY <1>a, <2>1, BatchFields DEF Released
  <2> QED
    BY <1>1, <2>2 DEF fetchCandidates
<1>2. CASE claim(p)
  BY <1>2, <1>a DEF claim
<1>3. CASE claimLost(p)
  <2>1. Released(p) /\ \A q \in Passes \ {p} : pass'[q] = pass[q]
    BY <1>3, <1>a, BatchFields DEF Released, claimLost
  <2> QED
    BY <1>3, <2>1 DEF claimLost
<1>4. CASE fail(p)
  BY <1>4, <1>b, <1>d DEF fail, Working
<1>5. CASE readEnrollment(p)
  <2>1. Moved(p) /\ \A q \in Passes \ {p} : pass'[q] = pass[q]
    BY <1>5, <1>a DEF readEnrollment, Moved, PassState, Working
  <2> QED
    BY <1>5, <2>1 DEF readEnrollment
<1>6. CASE readMessage(p)
  <2>1. Moved(p) /\ \A q \in Passes \ {p} : pass'[q] = pass[q]
    <3>1. CASE GoTo(p, "fail") \/ GoTo(p, "done")
      BY <1>6, <1>c, <3>1 DEF readMessage, Working
    <3>2. CASE pass' = [pass EXCEPT ![p] =
                 [@ EXCEPT !.pc = "check", !.reg = reg, !.sup = anonymized]]
      BY <1>6, <1>a, <3>2 DEF readMessage, Moved, PassState, Working
    <3> QED
      BY <1>6, <3>1, <3>2 DEF readMessage
  <2> QED
    BY <1>6, <2>1 DEF readMessage
<1>7. CASE checkPolicy(p)
  <2>1. Moved(p) /\ \A q \in Passes \ {p} : pass'[q] = pass[q]
    BY <1>7, <1>c DEF checkPolicy, Working
  <2> QED
    BY <1>7, <2>1 DEF checkPolicy
<1>8. CASE defer(p)
  BY <1>8, <1>b, <1>d DEF defer, Working
<1>9. CASE rejectDecision(p)
  BY <1>9, <1>b, <1>d DEF rejectDecision, Working
<1>10. CASE rejectSend(p)
  <2>1. CASE Proceed(p) /\ act' = Settle(p, "CANCELLED")
    BY <1>10, <1>b, <1>d, <2>1 DEF rejectSend, Working
  <2>2. CASE GoTo(p, "fail") /\ act' = act
    <3>1. Moved(p) /\ \A q \in Passes \ {p} : pass'[q] = pass[q]
      BY <1>10, <1>c, <2>2 DEF rejectSend, Working
    <3> QED
      BY <1>10, <2>2, <3>1 DEF rejectSend
  <2> QED
    BY <1>10, <2>1, <2>2 DEF rejectSend
<1>11. CASE createPublicActionTokens(p)
  BY <1>11, <1>a DEF createPublicActionTokens
<1>12. CASE attemptFails(p)
  <2>1. Moved(p) /\ \A q \in Passes \ {p} : pass'[q] = pass[q]
    BY <1>12, <1>a DEF attemptFails, Moved, PassState, Working
  <2> QED
    BY <1>12, <2>1 DEF attemptFails
<1>13. CASE commitDecision(p)
  BY <1>13, <1>b DEF commitDecision
<1>14. CASE completeSent(p)
  BY <1>14, <1>b, <1>d DEF completeSent, Working
<1>15. CASE send(p) \/ sendFails(p)
  <2>1. Moved(p) /\ \A q \in Passes \ {p} : pass'[q] = pass[q]
    BY <1>15, <1>c DEF send, sendFails, Working
  <2> QED
    BY <1>15, <2>1 DEF send, sendFails
<1>16. CASE recordDelivery(p)
  <2>1. CASE Proceed(p) /\ act' = Settle(p, "COMPLETED")
    BY <1>16, <1>b, <1>d, <2>1 DEF recordDelivery, Working
  <2>2. CASE GoTo(p, "fail") /\ act' = act
    <3>1. Moved(p) /\ \A q \in Passes \ {p} : pass'[q] = pass[q]
      BY <1>16, <1>c, <2>2 DEF recordDelivery, Working
    <3> QED
      BY <1>16, <2>2, <3>1 DEF recordDelivery
  <2> QED
    BY <1>16, <2>1, <2>2 DEF recordDelivery
<1> QED
  BY <1>1, <1>2, <1>3, <1>4, <1>5, <1>6, <1>7, <1>8, <1>9, <1>10, <1>11, <1>12,
     <1>13, <1>14, <1>15, <1>16 DEF PassStep

\* What anything but a pass may do to the row of an action: create it as a
\* step of the cadence, or cancel it before it is settled.
RowKept(a) ==
  \/ act'[a] = act[a]
  \/ a \in Keys /\ act[a].st = "none" /\ act'[a].st = "PENDING"
  \/ act[a].st \in {"PENDING", "DISPATCHING"} /\ act'[a].st = "CANCELLED"

\* stopCadence and schedulePostEvent touch rows in no other way.
LEMMA CadenceRows ==
  ASSUME TypeInv, NEW a \in ActionIds
  PROVE  /\ stopCadence => RowKept(a)
         /\ \A status \in PostStatuses :
              schedulePostEvent(status) => RowKept(a)
<1>1. act[a] \in ActRow
  BY DEF TypeInv, TypeOK, TablesTypeOK
<1>2. ASSUME stopCadence PROVE RowKept(a)
  BY <1>1, <1>2 DEF stopCadence, Stopped, RowKept, ActRow
<1>3. ASSUME NEW status \in PostStatuses, schedulePostEvent(status)
      PROVE  RowKept(a)
  <2>1. PostKeys[status] \subseteq Keys
    BY TablesAssumption
  <2> QED
    BY <1>1, <1>3, <2>1 DEF schedulePostEvent, RowKept, NewAction, ActRow
<1> QED
  BY <1>2, <1>3

\* No operation of the API touches them in any other way either.
LEMMA ApiRows ==
  ASSUME TypeInv, ApiStep, NEW a \in ActionIds
  PROVE  RowKept(a) /\ UNCHANGED <<origin, clock, mailed>>
<1> USE DEF tableVars, leadVars, cadenceVars, mailVars
<1>0. UNCHANGED act => RowKept(a)
  BY DEF RowKept
<1>1. ASSUME NEW c \in Clients, NEW request, Begin(c, request)
      PROVE  UNCHANGED <<act, origin, clock, mailed>>
  BY <1>1 DEF Begin
<1>2. ASSUME NEW c \in Clients,
             \/ updateRegistrationStatusRead(c) \/ recordInboundRead(c)
             \/ consumePublicActionRead(c) \/ processEmailWebhookRead(c)
      PROVE  RowKept(a) /\ UNCHANGED <<origin, clock, mailed>>
  BY <1>0, <1>1, <1>2 DEF updateRegistrationStatusRead, recordInboundRead,
                     consumePublicActionRead, processEmailWebhookRead
<1>3. ASSUME NEW c \in Clients, updateRegistrationStatus(c)
      PROVE  RowKept(a) /\ UNCHANGED <<origin, clock, mailed>>
  BY <1>0, <1>3, CadenceRows DEF updateRegistrationStatus
<1>4. ASSUME NEW c \in Clients, recordInbound(c)
      PROVE  RowKept(a) /\ UNCHANGED <<origin, clock, mailed>>
  BY <1>0, <1>4, CadenceRows DEF recordInbound
<1>5. ASSUME NEW c \in Clients, consumePublicAction(c)
      PROVE  RowKept(a) /\ UNCHANGED <<origin, clock, mailed>>
  BY <1>0, <1>5, CadenceRows DEF consumePublicAction
<1>6. ASSUME NEW c \in Clients, processEmailWebhook(c)
      PROVE  RowKept(a) /\ UNCHANGED <<origin, clock, mailed>>
  BY <1>0, <1>6 DEF processEmailWebhook
<1>7. CASE bookMeeting \/ withdrawConsent \/ deleteLeadData
  BY <1>0, <1>7, CadenceRows DEF bookMeeting, withdrawConsent, deleteLeadData
<1> QED
  BY <1>2, <1>3, <1>4, <1>5, <1>6, <1>7 DEF ApiStep, ClientStep

\* The steps that are no step of a pass.
EnvStep ==
  /\ origin' = origin
  /\ \A p \in Passes : pass'[p] = pass[p] \/ pass'[p] = Idle
  /\ \A a \in ActionIds : RowKept(a)
  /\ \/ UNCHANGED <<clock, overrun>>
     \/ Tick

\* Every step of the system is a step of a pass or one of those.
LEMMA StepShape ==
  ASSUME TypeInv, [Next]_vars
  PROVE  (\E p \in Passes : PassStep(p)) \/ EnvStep
<1> USE DEF tableVars, leadVars, cadenceVars, mailVars, apiVars, dispatcherVars
<1>0. UNCHANGED act => \A a \in ActionIds : RowKept(a)
  BY DEF RowKept
<1>a. pass \in [Passes -> PassState]
  BY DEF TypeInv, TypeOK, DispatcherTypeOK
<1>1. CASE processLeadEnrichment
  <2>1. ASSUME NEW a \in ActionIds PROVE RowKept(a)
    BY <1>1 DEF processLeadEnrichment, RowKept, NewAction, Keys
  <2> QED
    BY <1>1, <2>1 DEF processLeadEnrichment, EnvStep
<1>2. CASE ApiStep /\ UNCHANGED dispatcherVars
  <2>1. ASSUME NEW a \in ActionIds PROVE RowKept(a)
    BY <1>2, ApiRows
  <2>2. WelcomeKey \in ActionIds
    BY TablesAssumption DEF Keys, ActionIds
  <2>3. UNCHANGED <<origin, clock>>
    BY <1>2, <2>2, ApiRows
  <2> QED
    BY <1>2, <2>1, <2>3 DEF EnvStep
<1>3. ASSUME NEW p \in Passes, crash(p) PROVE EnvStep
  BY <1>0, <1>3, <1>a DEF crash, EnvStep
<1>4. CASE Tick
  BY <1>0, <1>4 DEF Tick, EnvStep
<1>5. CASE UNCHANGED vars
  BY <1>0, <1>5 DEF vars, EnvStep
<1> QED
  BY <1>1, <1>2, <1>3, <1>4, <1>5 DEF Next, DispatcherStep

-----------------------------------------------------------------------------
(* The inductive invariant *)

\* A pass's now lies in the past.
NowPast == \A p \in Passes : pass[p].now <= clock

\* A message id that no committed draft uses has no row in any table and no
\* pass works on it; a pass that drafts has such an id, and has it alone.
FreshIds ==
  /\ \A m \in Msgs : origin[m] = NoKey =>
       /\ act[m].st = "none"
       /\ \A p \in Passes : ~ Holds(p, m)
  /\ \A p \in Passes : pass[p].m # NoKey => /\ pass[p].pc = "commit"
                                            /\ origin[pass[p].m] = NoKey
  /\ \A p, q \in Passes : pass[p].m = pass[q].m /\ pass[p].m # NoKey => p = q

\* An action that no pass outlived: whoever works on it is alone, its lease
\* has not run out, and the row still shows the claim unless the action was
\* cancelled under it.
OneHolder ==
  \A a \in ActionIds \ overrun : \A p \in Passes : Holds(p, a) =>
    /\ clock < LeaseEnd(pass[p].now)
    /\ \/ act[a].st = "CANCELLED"
       \/ act[a].st = "DISPATCHING" /\ act[a].lease = LeaseEnd(pass[p].now)
    /\ \A q \in Passes : Holds(q, a) => q = p

\* A step that has drafted its message is completed and in no pass's hands.
DraftedOnce ==
  \A m \in Msgs : origin[m] # NoKey /\ origin[m] \notin overrun =>
    /\ act[origin[m]].st = "COMPLETED"
    /\ \A p \in Passes : ~ Holds(p, origin[m])
    /\ \A n \in Msgs : origin[n] = origin[m] => n = m

DispatchInv == TypeInv /\ NowPast /\ FreshIds /\ OneHolder /\ DraftedOnce

\* Initially no pass is under way and no message drafted.
LEMMA DispatchInit == Init => DispatchInv
<1> SUFFICES ASSUME Init PROVE DispatchInv
  OBVIOUS
<1>1. TypeInv
  BY TypeInit
<1>2. /\ \A p \in Passes : pass[p] = Idle
      /\ \A m \in Msgs : origin[m] = NoKey
      /\ \A a \in ActionIds : act[a] = NoAct
      /\ clock = 0
  BY DEF Init, TablesInit, DispatcherInit
<1>3. Idle.pc \notin Working /\ Idle.m = NoKey /\ Idle.now = 0
  BY BatchFields DEF Idle
<1> QED
  BY <1>1, <1>2, <1>3
     DEF DispatchInv, NowPast, FreshIds, OneHolder, DraftedOnce, Holds, NoAct,
         ActionIds

\* The environment's steps keep the invariant.
LEMMA DispatchEnv ==
  ASSUME DispatchInv, TypeInv', EnvStep
  PROVE  DispatchInv'
<1> USE DEF DispatchInv
<1>a. Idle.pc \notin Working /\ Idle.m = NoKey /\ Idle.now = 0
  BY BatchFields DEF Idle
<1>b. ASSUME NEW p \in Passes, NEW a, Holds(p, a)'
      PROVE  pass'[p] = pass[p] /\ Holds(p, a)
  BY <1>a, <1>b DEF EnvStep, Holds
<1>c. clock \in Nat /\ clock' \in Nat /\ clock <= clock' /\ overrun \subseteq overrun'
  BY TablesAssumption DEF EnvStep, Tick, TypeInv, TypeOK, TablesTypeOK, Time
<1>d. \A p \in Passes : pass[p].now \in Nat /\ pass'[p].now \in Nat
  BY TablesAssumption DEF TypeInv, TypeOK, DispatcherTypeOK, PassState, Time
<1>1. NowPast'
  BY <1>a, <1>c, <1>d DEF NowPast, EnvStep
<1>2. FreshIds'
  <2>1. ASSUME NEW m \in Msgs, origin'[m] = NoKey
        PROVE  act'[m].st = "none" /\ \A p \in Passes : ~ Holds(p, m)'
    <3>1. m \in ActionIds /\ m \notin Keys
      BY TablesAssumption DEF ActionIds
    <3>2. act'[m].st = "none"
      BY <2>1, <3>1 DEF EnvStep, RowKept, FreshIds
    <3> QED
      BY <1>b, <2>1, <3>2 DEF FreshIds, EnvStep
  <2>2. ASSUME NEW p \in Passes, pass'[p].m # NoKey
        PROVE  pass'[p] = pass[p]
    BY <1>a, <2>2 DEF EnvStep
  <2> QED
    BY <2>1, <2>2 DEF FreshIds, EnvStep
<1>3. OneHolder'
  <2> SUFFICES ASSUME NEW a \in ActionIds \ overrun', NEW p \in Passes,
                      Holds(p, a)'
               PROVE  /\ clock' < LeaseEnd(pass'[p].now)
                      /\ \/ act'[a].st = "CANCELLED"
                         \/ /\ act'[a].st = "DISPATCHING"
                            /\ act'[a].lease = LeaseEnd(pass'[p].now)
                      /\ \A q \in Passes : Holds(q, a)' => q = p
    BY DEF OneHolder, LeaseEnd, AtMost, Time
  <2>1. pass'[p] = pass[p] /\ Holds(p, a) /\ a \notin overrun
    BY <1>b, <1>c
  <2>2. clock' < LeaseEnd(pass'[p].now)
    <3>1. CASE clock' = clock
      BY <2>1, <3>1 DEF OneHolder
    <3>2. CASE Tick
      <4>1. ~ (LeaseEnd(pass[p].now) <= clock')
        BY <2>1, <3>2 DEF Tick, Holds
      <4>2. LeaseEnd(pass[p].now) \in Nat
        BY AtMostType, TablesAssumption DEF LeaseEnd, Time
      <4> QED
        BY <1>c, <2>1, <4>1, <4>2
    <3> QED
      BY <3>1, <3>2 DEF EnvStep
  <2>3. \/ act'[a].st = "CANCELLED"
        \/ act'[a].st = "DISPATCHING" /\ act'[a].lease = LeaseEnd(pass'[p].now)
    BY <2>1 DEF OneHolder, EnvStep, RowKept
  <2>4. \A q \in Passes : Holds(q, a)' => q = p
    BY <1>b, <2>1 DEF OneHolder
  <2> QED
    BY <2>2, <2>3, <2>4
<1>4. DraftedOnce'
  <2> SUFFICES ASSUME NEW m \in Msgs, NEW k \in ActionIds, k = origin'[m],
                      k # NoKey, k \notin overrun'
               PROVE  /\ act'[k].st = "COMPLETED"
                      /\ \A p \in Passes : ~ Holds(p, k)'
                      /\ \A n \in Msgs : origin'[n] = k => n = m
    BY DEF DraftedOnce, Holds, TypeInv, TypeOK, TablesTypeOK, ActionIds
  <2>1. k = origin[m] /\ k \notin overrun
    BY <1>c DEF EnvStep
  <2>2. act'[k].st = "COMPLETED"
    BY <2>1 DEF DraftedOnce, EnvStep, RowKept
  <2>3. \A p \in Passes : ~ Holds(p, k)'
    BY <1>b, <2>1 DEF DraftedOnce
  <2> QED
    BY <2>1, <2>2, <2>3 DEF DraftedOnce, EnvStep
<1> QED
  BY <1>1, <1>2, <1>3, <1>4

\* A claim keeps the invariant: the row was free, or its lease had run out
\* before the now of the claiming pass, so no pass that keeps to its lease
\* works on it.
LEMMA DispatchClaim ==
  ASSUME DispatchInv, TypeInv', NEW p \in Passes, claim(p),
         \A q \in Passes \ {p} : pass'[q] = pass[q]
  PROVE  DispatchInv'
<1> USE DEF DispatchInv
<1> DEFINE a == Head(pass[p].todo).id
<1>a. pass[p] \in PassState /\ pass \in [Passes -> PassState]
  BY DEF TypeInv, TypeOK, DispatcherTypeOK
<1>b. a \in ActionIds
  <2>1. pass[p].todo \in Seq(Candidate) /\ pass[p].todo # <<>>
    BY <1>a DEF claim, TypeInv, PassShape, PassState
  <2>2. Head(pass[p].todo) \in Candidate
    BY <2>1
  <2> QED
    BY <2>2 DEF Candidate
<1>c. /\ pass'[p] = Taken(pass[p])
      /\ pass'[p].id = a /\ pass'[p].now = pass[p].now
      /\ pass'[p].m = pass[p].m /\ pass'[p].pc # "commit"
  BY <1>a DEF claim, Taken, PassState
<1>d. pass[p].m = NoKey
  BY DEF claim, FreshIds
<1>e. /\ act'[a] = Leased(act[a], pass[p].now)
      /\ \A b \in ActionIds \ {a} : act'[b] = act[b]
  BY <1>b DEF claim, TypeInv, TypeOK, TablesTypeOK
<1>f. act[a].st \in {"PENDING", "DISPATCHING"}
  BY DEF claim, Claimable
<1>g. act'[a].st = "DISPATCHING" /\ act'[a].lease = LeaseEnd(pass[p].now)
  BY <1>b, <1>e DEF Leased, TypeInv, TypeOK, TablesTypeOK, ActRow
<1>h. origin' = origin /\ clock' = clock /\ overrun \subseteq overrun'
  BY DEF claim, mailVars
<1>i. ASSUME NEW b, NEW q \in Passes, Holds(q, b)'
      PROVE  (q = p /\ b = a) \/ (q # p /\ Holds(q, b) /\ pass'[q] = pass[q])
  BY <1>c, <1>i DEF Holds
<1>j. /\ clock \in Nat /\ LeaseEnd(pass[p].now) \in Nat /\ pass[p].now \in Nat
      /\ \A q \in Passes : LeaseEnd(pass[q].now) \in Nat
  BY <1>a, AtMostType, TablesAssumption
     DEF LeaseEnd, Time, PassState, TypeInv, TypeOK, TablesTypeOK
<1> HIDE DEF a
<1>1. NowPast'
  BY <1>c, <1>h DEF NowPast
<1>2. FreshIds'
  <2>1. ASSUME NEW m \in Msgs, origin'[m] = NoKey
        PROVE  act'[m].st = "none" /\ \A q \in Passes : ~ Holds(q, m)'
    <3>1. m \in ActionIds /\ m # a
      BY <1>f, <1>h, <2>1 DEF FreshIds, ActionIds
    <3> QED
      BY <1>e, <1>h, <1>i, <2>1, <3>1 DEF FreshIds
  <2> QED
    BY <1>c, <1>d, <1>h, <2>1 DEF FreshIds
<1>3. OneHolder'
  <2> SUFFICES ASSUME NEW b \in ActionIds \ overrun', NEW q \in Passes,
                      Holds(q, b)'
               PROVE  /\ clock' < LeaseEnd(pass'[q].now)
                      /\ \/ act'[b].st = "CANCELLED"
                         \/ /\ act'[b].st = "DISPATCHING"
                            /\ act'[b].lease = LeaseEnd(pass'[q].now)
                      /\ \A r \in Passes : Holds(r, b)' => r = q
    BY DEF OneHolder, LeaseEnd, AtMost, Time
  <2>1. b \notin overrun
    BY <1>h
  <2>2. CASE b # a
    BY <1>e, <1>h, <1>i, <2>1, <2>2 DEF OneHolder
  <2>3. CASE b = a
    <3>1. clock < LeaseEnd(pass[p].now)
      BY <1>j, <2>3 DEF claim, a
    <3>2. ASSUME NEW r \in Passes, r # p, Holds(r, b)
          PROVE  FALSE
      <4>1. act[a].st = "DISPATCHING" /\ act[a].lease = LeaseEnd(pass[r].now)
        BY <1>f, <2>1, <2>3, <3>2 DEF OneHolder
      <4>2. act[a].lease <= pass[p].now
        BY <4>1 DEF claim, Claimable, a
      <4>3. clock < LeaseEnd(pass[r].now) /\ pass[p].now <= clock
        BY <2>1, <3>2 DEF OneHolder, NowPast
      <4> QED
        BY <1>j, <4>1, <4>2, <4>3
    <3>3. \A r \in Passes : Holds(r, b)' => r = p
      BY <1>i, <3>2
    <3> QED
      BY <1>c, <1>g, <1>h, <2>3, <3>1, <3>3
  <2> QED
    BY <2>2, <2>3
<1>4. DraftedOnce'
  <2> SUFFICES ASSUME NEW m \in Msgs, NEW k \in ActionIds, k = origin'[m],
                      k # NoKey, k \notin overrun'
               PROVE  /\ act'[k].st = "COMPLETED"
                      /\ \A q \in Passes : ~ Holds(q, k)'
                      /\ \A n \in Msgs : origin'[n] = k => n = m
    BY DEF DraftedOnce, Holds, TypeInv, TypeOK, TablesTypeOK, ActionIds
  <2>1. k = origin[m] /\ k \notin overrun
    BY <1>h
  <2>2. act[k].st = "COMPLETED" /\ k # a
    BY <1>f, <2>1 DEF DraftedOnce
  <2>3. \A q \in Passes : ~ Holds(q, k)'
    BY <1>i, <2>1, <2>2 DEF DraftedOnce
  <2> QED
    BY <1>e, <1>h, <2>1, <2>2, <2>3 DEF DraftedOnce
<1> QED
  BY <1>1, <1>2, <1>3, <1>4

\* So does the start of a draft: the message id it takes is free.
LEMMA DispatchMint ==
  ASSUME DispatchInv, TypeInv', NEW p \in Passes, createPublicActionTokens(p),
         \A q \in Passes \ {p} : pass'[q] = pass[q]
  PROVE  DispatchInv'
<1> USE DEF DispatchInv
<1>a. pass[p] \in PassState /\ pass \in [Passes -> PassState]
  BY DEF TypeInv, TypeOK, DispatcherTypeOK
<1>b. PICK m \in Msgs :
        /\ origin[m] = NoKey
        /\ \A q \in Passes : pass[q].m # m
        /\ pass' = [pass EXCEPT ![p] = [@ EXCEPT !.pc = "commit", !.m = m]]
  BY DEF createPublicActionTokens
<1>c. /\ pass'[p].id = pass[p].id /\ pass'[p].now = pass[p].now
      /\ pass'[p].m = m /\ pass'[p].pc = "commit" /\ pass[p].pc \in Working
  BY <1>a, <1>b DEF createPublicActionTokens, PassState, Working
<1>d. UNCHANGED <<origin, act, clock, overrun>>
  BY DEF createPublicActionTokens, cadenceVars
<1>e. ASSUME NEW b, NEW q \in Passes, Holds(q, b)'
      PROVE  Holds(q, b) /\ pass'[q].now = pass[q].now
  BY <1>c, <1>e DEF Holds
<1>1. NowPast'
  BY <1>c, <1>d DEF NowPast
<1>2. FreshIds'
  BY <1>b, <1>c, <1>d, <1>e DEF FreshIds
<1>3. OneHolder'
  BY <1>d, <1>e DEF OneHolder, LeaseEnd, AtMost, Time
<1>4. DraftedOnce'
  <2> SUFFICES ASSUME NEW n \in Msgs, NEW k \in ActionIds, k = origin[n],
                      k # NoKey, k \notin overrun
               PROVE  /\ act[k].st = "COMPLETED"
                      /\ \A q \in Passes : ~ Holds(q, k)'
                      /\ \A l \in Msgs : origin[l] = k => l = n
    BY <1>d DEF DraftedOnce, Holds, TypeInv, TypeOK, TablesTypeOK, ActionIds
  <2> QED
    BY <1>e DEF DraftedOnce
<1> QED
  BY <1>1, <1>2, <1>3, <1>4

\* So does the commit of a draft: the pass is alone on the step, which had no
\* message yet, and settles it with the message it writes.
LEMMA DispatchCommit ==
  ASSUME DispatchInv, TypeInv', NEW p \in Passes, commitDecision(p),
         \A q \in Passes \ {p} : pass'[q] = pass[q]
  PROVE  DispatchInv'
<1> USE DEF DispatchInv
<1> DEFINE m == pass[p].m
           k == pass[p].id
<1>a. k \in Keys /\ k \in ActionIds /\ m \in Msgs /\ m \in ActionIds /\ Holds(p, k)
  BY DEF commitDecision, TypeInv, PassShape, Working, ActionIds, Holds
<1>b. k # m /\ m # NoKey /\ k # NoKey
  BY <1>a, TablesAssumption
<1>c. origin[m] = NoKey
  BY <1>b DEF FreshIds
<1>d. UNCHANGED <<clock, overrun>>
  BY DEF commitDecision
<1>e. /\ origin'[m] = k
      /\ \A n \in Msgs \ {m} : origin'[n] = origin[n]
  BY <1>a DEF commitDecision, TypeInv, TypeOK, TablesTypeOK
<1>f. /\ act'[k].st = "COMPLETED"
      /\ \A b \in ActionIds \ {k, m} : act'[b] = act[b]
  <2>1. act \in [ActionIds -> ActRow]
    BY DEF TypeInv, TypeOK, TablesTypeOK
  <2>2. act[k] \in ActRow
    BY <1>a, <2>1
  <2>3. act' = [[act EXCEPT ![k] = [@ EXCEPT !.st = "COMPLETED", !.due = 0,
                                             !.lease = 0]]
                  EXCEPT ![m] = NewAction(pass[p].now)]
    BY DEF commitDecision, Settle
  <2>4. act'[k] = [act[k] EXCEPT !.st = "COMPLETED", !.due = 0, !.lease = 0]
    BY <1>a, <1>b, <2>1, <2>3
  <2>5. act'[k].st = "COMPLETED"
    BY <2>2, <2>4 DEF ActRow
  <2>6. ASSUME NEW b \in ActionIds \ {k, m} PROVE act'[b] = act[b]
    BY <2>1, <2>3
  <2> QED
    BY <2>5, <2>6
<1>g. Released(p)
  BY BatchFields DEF commitDecision, Proceed, Released, TypeInv, TypeOK,
                     DispatcherTypeOK
<1>h. ASSUME NEW b, NEW q \in Passes, Holds(q, b)'
      PROVE  q # p /\ Holds(q, b) /\ pass'[q] = pass[q]
  BY <1>g, <1>h DEF Holds, Released
<1>i. \A q \in Passes : ~ Holds(q, m)
  BY <1>a, <1>c DEF FreshIds
<1> HIDE DEF m, k
<1>1. NowPast'
  BY <1>d, <1>g, TablesAssumption
     DEF NowPast, Released, TypeInv, TypeOK, TablesTypeOK, Time
<1>2. FreshIds'
  <2>1. ASSUME NEW n \in Msgs, origin'[n] = NoKey
        PROVE  act'[n].st = "none" /\ \A q \in Passes : ~ Holds(q, n)'
    <3>1. n # m /\ n # k /\ origin[n] = NoKey /\ n \in ActionIds
      BY <1>a, <1>b, <1>e, <2>1, TablesAssumption DEF ActionIds
    <3> QED
      BY <1>f, <1>h, <3>1 DEF FreshIds
  <2>2. ASSUME NEW q \in Passes, pass'[q].m # NoKey
        PROVE  /\ q # p /\ pass'[q] = pass[q] /\ pass[q].m # m
               /\ pass[q].pc = "commit" /\ origin[pass[q].m] = NoKey
    BY <1>a, <1>g, <2>2 DEF FreshIds, Released, m
  <2>3. ASSUME NEW q \in Passes, pass'[q].m # NoKey
        PROVE  pass'[q].pc = "commit" /\ origin'[pass'[q].m] = NoKey
    <3>1. pass[q].m \in Msgs
      BY <2>2, <2>3 DEF TypeInv, PassShape
    <3> QED
      BY <1>e, <2>2, <2>3, <3>1
  <2> QED
    BY <2>1, <2>2, <2>3 DEF FreshIds
<1>3. OneHolder'
  <2> SUFFICES ASSUME NEW b \in ActionIds \ overrun, NEW q \in Passes,
                      Holds(q, b)'
               PROVE  /\ clock < LeaseEnd(pass'[q].now)
                      /\ \/ act'[b].st = "CANCELLED"
                         \/ /\ act'[b].st = "DISPATCHING"
                            /\ act'[b].lease = LeaseEnd(pass'[q].now)
                      /\ \A r \in Passes : Holds(r, b)' => r = q
    BY <1>d DEF OneHolder, LeaseEnd, AtMost, Time
  <2>1. b # m /\ b # k
    BY <1>a, <1>h, <1>i DEF OneHolder
  <2> QED
    BY <1>f, <1>h, <2>1 DEF OneHolder
<1>4. DraftedOnce'
  <2> SUFFICES ASSUME NEW n \in Msgs, NEW j \in ActionIds, j = origin'[n],
                      j # NoKey, j \notin overrun
               PROVE  /\ act'[j].st = "COMPLETED"
                      /\ \A q \in Passes : ~ Holds(q, j)'
                      /\ \A l \in Msgs : origin'[l] = j => l = n
    BY <1>d DEF DraftedOnce, Holds, TypeInv, TypeOK, TablesTypeOK, ActionIds
  <2>1. j \in Keys
    BY DEF TypeInv, TypeOK, TablesTypeOK
  <2>2. j # m
    BY <1>a, <2>1, TablesAssumption
  <2>3. CASE j = k
    <3>1. \A l \in Msgs : origin[l] # k
      BY <1>a, <1>b, <2>3 DEF DraftedOnce
    <3>2. \A l \in Msgs : origin'[l] = j => l = m
      BY <1>e, <2>3, <3>1
    <3>3. \A q \in Passes : ~ Holds(q, j)'
      <4> SUFFICES ASSUME NEW q \in Passes, Holds(q, j)' PROVE FALSE
        OBVIOUS
      <4>1. q # p /\ Holds(q, j)
        BY <1>h
      <4>2. Holds(p, j)
        BY <1>a, <2>3
      <4> QED
        BY <4>1, <4>2 DEF OneHolder
    <3> QED
      BY <1>f, <2>3, <3>2, <3>3
  <2>4. CASE j # k
    <3>1. n # m /\ j = origin[n]
      BY <1>e, <2>4
    <3>2. act'[j] = act[j]
      BY <1>f, <2>2, <2>4
    <3>3. \A q \in Passes : ~ Holds(q, j)'
      BY <1>h, <3>1 DEF DraftedOnce
    <3>4. \A l \in Msgs : origin'[l] = j => l = n
      BY <1>e, <2>4, <3>1 DEF DraftedOnce
    <3> QED
      BY <3>1, <3>2, <3>3, <3>4 DEF DraftedOnce
  <2> QED
    BY <2>3, <2>4
<1> QED
  BY <1>1, <1>2, <1>3, <1>4

\* So does every other step of a pass: it writes no row but that of the
\* action it has in hand and then lets go of it.
LEMMA DispatchOther ==
  ASSUME DispatchInv, TypeInv', NEW p \in Passes,
         \A q \in Passes \ {p} : pass'[q] = pass[q],
         UNCHANGED <<origin, clock, overrun>>,
         \/ UNCHANGED act /\ (Moved(p) \/ Released(p))
         \/ /\ pass[p].pc \in Working /\ Released(p)
            /\ \A a \in ActionIds \ {pass[p].id} : act'[a] = act[a]
  PROVE  DispatchInv'
<1> USE DEF DispatchInv
<1>a. ASSUME NEW b, NEW q \in Passes, Holds(q, b)'
      PROVE  Holds(q, b) /\ pass'[q].now = pass[q].now
  BY <1>a DEF Holds, Released, Moved
<1>b. ASSUME NEW b \in ActionIds, \A q \in Passes : ~ Holds(q, b)
      PROVE  act'[b] = act[b]
  BY <1>b DEF Holds
<1>c. ASSUME NEW q \in Passes, pass'[q].m # NoKey
      PROVE  pass'[q] = pass[q]
  BY <1>c DEF Released, Moved, FreshIds
<1>1. NowPast'
  BY TablesAssumption
     DEF NowPast, Released, Moved, TypeInv, TypeOK, TablesTypeOK, Time
<1>2. FreshIds'
  <2>1. ASSUME NEW n \in Msgs, origin'[n] = NoKey
        PROVE  act'[n].st = "none" /\ \A q \in Passes : ~ Holds(q, n)'
    BY <1>a, <1>b, <2>1 DEF FreshIds, ActionIds
  <2> QED
    BY <1>c, <2>1 DEF FreshIds
<1>3. OneHolder'
  <2> SUFFICES ASSUME NEW b \in ActionIds \ overrun, NEW q \in Passes,
                      Holds(q, b)'
               PROVE  /\ clock < LeaseEnd(pass'[q].now)
                      /\ \/ act'[b].st = "CANCELLED"
                         \/ /\ act'[b].st = "DISPATCHING"
                            /\ act'[b].lease = LeaseEnd(pass'[q].now)
                      /\ \A r \in Passes : Holds(r, b)' => r = q
    BY DEF OneHolder, LeaseEnd, AtMost, Time
  <2>1. act'[b] = act[b]
    BY <1>a DEF OneHolder, Holds, Released
  <2> QED
    BY <1>a, <2>1 DEF OneHolder
<1>4. DraftedOnce'
  <2> SUFFICES ASSUME NEW n \in Msgs, NEW j \in ActionIds, j = origin[n],
                      j # NoKey, j \notin overrun
               PROVE  /\ act'[j].st = "COMPLETED"
                      /\ \A q \in Passes : ~ Holds(q, j)'
                      /\ \A l \in Msgs : origin[l] = j => l = n
    BY DEF DraftedOnce, Holds, TypeInv, TypeOK, TablesTypeOK, ActionIds
  <2> QED
    BY <1>a, <1>b DEF DraftedOnce
<1> QED
  BY <1>1, <1>2, <1>3, <1>4

\* Every step of the system keeps the invariant.
LEMMA DispatchStep == DispatchInv /\ [Next]_vars => DispatchInv'
<1> SUFFICES ASSUME DispatchInv, [Next]_vars PROVE DispatchInv'
  OBVIOUS
<1>1. TypeInv /\ TypeInv'
  BY TypeStep DEF DispatchInv
<1>2. CASE EnvStep
  BY <1>1, <1>2, DispatchEnv
<1>3. ASSUME NEW p \in Passes, PassStep(p)
      PROVE  DispatchInv'
  BY <1>1, <1>3, PassStepShape, DispatchClaim, DispatchMint, DispatchCommit,
     DispatchOther
<1> QED
  BY <1>1, <1>2, <1>3, StepShape

\* DispatchInv is an invariant of the specification.
LEMMA DispatchInvariant == Spec => []DispatchInv
BY DispatchInit, DispatchStep, PTL DEF Spec

-----------------------------------------------------------------------------
(* The theorems *)

\* The claim is exclusive: whatever the number of overlapping passes, two of
\* them work on one action only after one has outlived its lease on it.
THEOREM LeaseExclusionHolds == Spec => []LeaseExclusion
<1>1. DispatchInv => LeaseExclusion
  BY DEF DispatchInv, OneHolder, LeaseExclusion
<1> QED
  BY <1>1, DispatchInvariant, PTL

\* A cadence step drafts at most one message, across retries, crashes and
\* reclaimed leases, unless a pass outlives its lease on that step.
THEOREM OneMessagePerStepHolds == Spec => []OneMessagePerStep
<1>1. DispatchInv => OneMessagePerStep
  BY DEF DispatchInv, DraftedOnce, OneMessagePerStep
<1> QED
  BY <1>1, DispatchInvariant, PTL

\* Only a pass that works on a settled row can write it.
LEMMA SettledKept ==
  ASSUME DispatchInv, [Next]_vars, NEW a \in ActionIds,
         act[a].st \in Settled, \A p \in Passes : ~ Holds(p, a)
  PROVE  act'[a] = act[a]
<1>0. TypeInv
  BY DEF DispatchInv
<1>1. CASE EnvStep
  BY <1>1 DEF EnvStep, RowKept, Settled
<1>2. ASSUME NEW p \in Passes, claim(p) PROVE act'[a] = act[a]
  <2>1. act[Head(pass[p].todo).id].st \notin Settled
    BY <1>2 DEF claim, Claimable, Settled
  <2> QED
    BY <1>0, <1>2, <2>1 DEF claim, TypeInv, TypeOK, TablesTypeOK
<1>3. ASSUME NEW p \in Passes, commitDecision(p) PROVE act'[a] = act[a]
  <2>1. pass[p].id # a
    BY <1>3 DEF commitDecision, Holds, Working
  <2>2. act[pass[p].m].st = "none"
    <3>1. pass[p].m \in Msgs /\ pass[p].m # NoKey
      BY <1>0, <1>3, TablesAssumption
         DEF commitDecision, TypeInv, PassShape, ActionIds
    <3> QED
      BY <3>1 DEF DispatchInv, FreshIds
  <2>3. pass[p].m # a
    BY <2>2 DEF Settled
  <2> QED
    BY <1>0, <1>3, <2>1, <2>3
       DEF commitDecision, Settle, TypeInv, TypeOK, TablesTypeOK
<1>4. ASSUME NEW p \in Passes, createPublicActionTokens(p)
      PROVE  act'[a] = act[a]
  BY <1>4 DEF createPublicActionTokens, cadenceVars
<1>5. ASSUME NEW p \in Passes, PassStep(p) PROVE act'[a] = act[a]
  BY <1>0, <1>2, <1>3, <1>4, <1>5, PassStepShape DEF Holds
<1> QED
  BY <1>0, <1>1, <1>5, StepShape

\* A row that is settled, and in no pass's hands, never changes again.
THEOREM SettledStaysHolds == Spec => SettledStays
<1>1. ASSUME DispatchInv, [Next]_vars
      PROVE  \A a \in ActionIds :
               act[a].st \in Settled /\ (\A p \in Passes : ~ Holds(p, a)) =>
                 act'[a] = act[a]
  BY <1>1, SettledKept
<1> QED
  BY <1>1, DispatchInvariant, PTL DEF Spec, SettledStays
=============================================================================

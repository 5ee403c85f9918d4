----------------------------- MODULE OptOutProofs -----------------------------
(***************************************************************************)
(* Proofs about what the lead or an operator has asked to end: opt-outs    *)
(* are final, deletion is final, and a stopped cadence stays stopped, for  *)
(* every number of overlapping passes and concurrent requests; and the     *)
(* bound on the mails of a purpose, which rests on bars that never lift.   *)
(***************************************************************************)
EXTENDS DispatchProofs, FiniteSetTheorems

-----------------------------------------------------------------------------
(* The shape of the steps, as far as these proofs need it *)

\* The passes that drafted or sent keep doing so, or end: nothing but the
\* policy check starts either.
NoNewWork ==
  \A p \in Passes : \/ pass'[p] = pass[p]
                     \/ pass'[p].pc \notin {"send", "mint", "commit"}

\* What one step may do to what the lead has said: consent is never given
\* again, and a suppression is lifted only with all consent.
LeadKept ==
  /\ \A purpose \in Purposes : consent'[purpose] => consent[purpose]
  /\ \/ suppressed \subseteq suppressed'
     \/ \A purpose \in Purposes : ~ consent'[purpose]
  /\ anonymized => anonymized'
  /\ anonymized' => anonymized \/ \A purpose \in Purposes : ~ consent'[purpose]
  /\ meeting => meeting'

\* No message row and no link comes into being.
NothingDrafted ==
  /\ \A m \in Msgs : msg'[m].st # "none" => msg[m].st # "none"
  /\ \A t \in DOMAIN tokens : tokens'[t] # "none" => tokens[t] # "none"

\* Suppressing a purpose withdraws its consent and lifts no suppression.
LEMMA SuppressKeeps ==
  ASSUME TablesTypeOK, NEW purpose \in Purposes, suppressLead(purpose)
  PROVE  /\ suppressed \subseteq suppressed'
         /\ \A other \in Purposes : consent'[other] => consent[other]
BY DEF suppressLead, TablesTypeOK

\* The requests a client has begun are of the four kinds of records.
LEMMA RequestFields ==
  ASSUME ApiTypeOK, NEW c \in Clients
  PROVE  /\ client[c].op = "public" =>
              client[c].m \in Msgs /\ client[c].action \in TokenActions
         /\ client[c].op = "webhook" =>
              client[c].m \in Msgs /\ client[c].type \in WebhookTypes
BY DEF ApiTypeOK, NoRequest, StatusRequest, InboundRequest, PublicRequest,
       WebhookRequest

\* No operation of the API gives consent, lifts a bar, drafts or mails.
LEMMA ApiKeeps ==
  ASSUME TypeInv, ApiStep
  PROVE  LeadKept /\ NothingDrafted /\ UNCHANGED <<mailed, origin>>
<1> USE DEF tableVars, leadVars, mailVars
<1>a. TablesTypeOK /\ ApiTypeOK
  BY DEF TypeInv, TypeOK
<1>b. UNCHANGED <<consent, suppressed, anonymized, meeting>> => LeadKept
  BY DEF LeadKept
<1>c. UNCHANGED <<msg, tokens>> => NothingDrafted
  BY DEF NothingDrafted
<1>d. ASSUME NEW purpose \in Purposes, suppressLead(purpose),
             UNCHANGED <<anonymized, meeting>>
      PROVE  LeadKept
  BY <1>a, <1>d, SuppressKeeps DEF LeadKept
<1>1. ASSUME NEW c \in Clients, NEW request, Begin(c, request)
      PROVE  LeadKept /\ NothingDrafted /\ UNCHANGED <<mailed, origin>>
  BY <1>1, <1>b, <1>c DEF Begin
<1>2. ASSUME NEW c \in Clients,
             \/ updateRegistrationStatusRead(c) \/ recordInboundRead(c)
             \/ consumePublicActionRead(c) \/ processEmailWebhookRead(c)
      PROVE  LeadKept /\ NothingDrafted /\ UNCHANGED <<mailed, origin>>
  BY <1>1, <1>2 DEF updateRegistrationStatusRead, recordInboundRead,
                    consumePublicActionRead, processEmailWebhookRead
<1>3. ASSUME NEW c \in Clients, updateRegistrationStatus(c)
      PROVE  LeadKept /\ NothingDrafted /\ UNCHANGED <<mailed, origin>>
  BY <1>3, <1>b, <1>c DEF updateRegistrationStatus
<1>4. ASSUME NEW c \in Clients, recordInbound(c)
      PROVE  LeadKept /\ NothingDrafted /\ UNCHANGED <<mailed, origin>>
  <2>1. LeadKept
    BY <1>4, <1>b, <1>d DEF recordInbound, Purposes
  <2> QED
    BY <1>4, <1>c, <2>1 DEF recordInbound
<1>5. ASSUME NEW c \in Clients, consumePublicAction(c)
      PROVE  LeadKept /\ NothingDrafted /\ UNCHANGED <<mailed, origin>>
  <2>1. PurposeOf(client[c].m) \in Purposes
    BY DEF PurposeOf, KeyPurpose, Purposes
  <2>2. LeadKept
    BY <1>5, <1>b, <1>d, <2>1 DEF consumePublicAction
  <2>3. NothingDrafted
    BY <1>5, <1>a DEF consumePublicAction, NothingDrafted, TablesTypeOK
  <2> QED
    BY <1>5, <2>2, <2>3 DEF consumePublicAction
<1>6. ASSUME NEW c \in Clients, processEmailWebhook(c)
      PROVE  LeadKept /\ NothingDrafted /\ UNCHANGED <<mailed, origin>>
  <2>1. LeadKept
    BY <1>6 DEF processEmailWebhook, LeadKept
  <2>2. NothingDrafted
    BY <1>6, <1>a, RequestFields
       DEF processEmailWebhook, NothingDrafted, TablesTypeOK, MsgRow
  <2> QED
    BY <1>6, <2>1, <2>2 DEF processEmailWebhook
<1>7. CASE bookMeeting
  BY <1>7, <1>c DEF bookMeeting, LeadKept
<1>8. CASE withdrawConsent
  BY <1>8, <1>c, <1>d DEF withdrawConsent
<1>9. CASE deleteLeadData
  <2>1. NothingDrafted
    BY <1>9, <1>a
       DEF deleteLeadData, NothingDrafted, NoTokens, NoMsg, TablesTypeOK
  <2> QED
    BY <1>9, <2>1 DEF deleteLeadData, LeadKept
<1> QED
  BY <1>2, <1>3, <1>4, <1>5, <1>6, <1>7, <1>8, <1>9 DEF ApiStep, ClientStep

\* A pass touches neither consent nor suppressions, and only the policy check,
\* the creation of links, the commit of a draft and the call of the provider
\* start work, draft or mail.
LEMMA PassKeeps ==
  ASSUME TypeInv, NEW p \in Passes, PassStep(p)
  PROVE  /\ UNCHANGED <<consent, suppressed, anonymized, meeting>>
         /\ \/ checkPolicy(p) \/ send(p) \/ sendFails(p)
            \/ createPublicActionTokens(p) \/ commitDecision(p)
            \/ /\ NoNewWork /\ NothingDrafted
               /\ UNCHANGED <<mailed, origin>>
<1> USE DEF tableVars, leadVars, cadenceVars, mailVars
<1>a. pass \in [Passes -> PassState] /\ TablesTypeOK
  BY DEF TypeInv, TypeOK, DispatcherTypeOK
<1>b. UNCHANGED <<msg, tokens>> => NothingDrafted
  BY DEF NothingDrafted
<1>c. \A q \in Passes \ {p} : pass'[q] = pass[q]
  BY PassStepShape
<1>d. pass'[p].pc \notin {"send", "mint", "commit"} => NoNewWork
  BY <1>c DEF NoNewWork
<1>e. ASSUME NEW now, NEW todo, pass' = [pass EXCEPT ![p] = Batch(now, todo)]
      PROVE  NoNewWork
  BY <1>a, <1>d, <1>e, BatchFields DEF Working
<1>f. Proceed(p) => NoNewWork
  BY <1>e DEF Proceed
<1>g. GoTo(p, "fail") \/ GoTo(p, "done") => NoNewWork
  BY <1>a, <1>d DEF GoTo, PassState
<1>1. CASE fetchCandidates(p)
  BY <1>1, <1>b, <1>e DEF fetchCandidates
<1>2. CASE claim(p)
  <2>1. pass'[p].pc \in {"load", "decide"}
    BY <1>2, <1>a DEF claim, Taken, PassState
  <2> QED
    BY <1>2, <1>b, <1>d, <2>1 DEF claim
<1>3. CASE claimLost(p)
  BY <1>3, <1>b, <1>e DEF claimLost
<1>4. CASE fail(p) \/ defer(p) \/ rejectDecision(p) \/ completeSent(p)
  BY <1>4, <1>b, <1>f DEF fail, defer, rejectDecision, completeSent
<1>5. CASE readEnrollment(p)
  <2>1. pass'[p].pc = "check"
    BY <1>5, <1>a DEF readEnrollment, PassState
  <2> QED
    BY <1>5, <1>b, <1>d, <2>1 DEF readEnrollment
<1>6. CASE readMessage(p)
  <2>1. CASE GoTo(p, "fail") \/ GoTo(p, "done")
    BY <1>6, <1>b, <1>g, <2>1 DEF readMessage
  <2>2. CASE pass' = [pass EXCEPT ![p] =
               [@ EXCEPT !.pc = "check", !.reg = reg, !.sup = anonymized]]
    <3>1. pass'[p].pc = "check"
      BY <1>a, <2>2 DEF PassState
    <3> QED
      BY <1>6, <1>b, <1>d, <3>1 DEF readMessage
  <2> QED
    BY <1>6, <2>1, <2>2 DEF readMessage
<1>7. CASE rejectSend(p)
  <2>1. NothingDrafted
    BY <1>7, <1>a DEF rejectSend, NothingDrafted, TablesTypeOK, MsgRow
  <2> QED
    BY <1>7, <1>f, <1>g, <2>1 DEF rejectSend
<1>8. CASE attemptFails(p)
  <2>1. pass'[p].pc = "fail"
    BY <1>8, <1>a DEF attemptFails, PassState
  <2> QED
    BY <1>8, <1>b, <1>d, <2>1 DEF attemptFails
<1>9. CASE recordDelivery(p)
  <2>1. NothingDrafted
    BY <1>9, <1>a DEF recordDelivery, NothingDrafted, TablesTypeOK, MsgRow
  <2> QED
    BY <1>9, <1>f, <1>g, <2>1 DEF recordDelivery
<1>10. CASE checkPolicy(p) \/ send(p) \/ sendFails(p)
  BY <1>10 DEF checkPolicy, send, sendFails
<1>11. CASE createPublicActionTokens(p) \/ commitDecision(p)
  BY <1>11 DEF createPublicActionTokens, commitDecision
<1> QED
  BY <1>1, <1>2, <1>3, <1>4, <1>5, <1>6, <1>7, <1>8, <1>9, <1>10, <1>11
     DEF PassStep

\* Every other step starts no work, drafts nothing and mails nothing.
LEMMA EnvKeeps ==
  ASSUME TypeInv, [Next]_vars, \A p \in Passes : ~ PassStep(p)
  PROVE  /\ LeadKept /\ NoNewWork /\ NothingDrafted
         /\ UNCHANGED <<mailed, origin>>
<1> USE DEF tableVars, leadVars, cadenceVars, mailVars, apiVars, dispatcherVars
<1>a. pass \in [Passes -> PassState]
  BY DEF TypeInv, TypeOK, DispatcherTypeOK
<1>b. UNCHANGED <<consent, suppressed, anonymized, meeting>> => LeadKept
  BY DEF LeadKept
<1>c. UNCHANGED <<msg, tokens>> => NothingDrafted
  BY DEF NothingDrafted
<1>d. UNCHANGED pass => NoNewWork
  BY DEF NoNewWork
<1>1. CASE processLeadEnrichment
  BY <1>1, <1>b, <1>c, <1>d DEF processLeadEnrichment
<1>2. CASE ApiStep /\ UNCHANGED dispatcherVars
  BY <1>2, <1>d, ApiKeeps
<1>3. ASSUME NEW p \in Passes, crash(p)
      PROVE  /\ LeadKept /\ NoNewWork /\ NothingDrafted
             /\ UNCHANGED <<mailed, origin>>
  <2>1. NoNewWork
    BY <1>3, <1>a, BatchFields DEF crash, NoNewWork, Idle, Working
  <2> QED
    BY <1>3, <1>b, <1>c, <2>1 DEF crash
<1>4. CASE Tick
  BY <1>4, <1>b, <1>c, <1>d DEF Tick
<1>5. CASE UNCHANGED vars
  BY <1>5, <1>b, <1>c, <1>d DEF vars
<1> QED
  BY <1>1, <1>2, <1>3, <1>4, <1>5 DEF Next, DispatcherStep

-----------------------------------------------------------------------------
(* The inductive invariant *)

\* deleteLeadData removes every consent record, and none is written again.
AnonymizedNoConsent ==
  anonymized => \A purpose \in Purposes : ~ consent[purpose]

\* What was mailed had been drafted, so that its purpose is settled.
MailedOrigin == \A m \in mailed : origin[m] # NoKey

OptOutInv == DispatchInv /\ AnonymizedNoConsent /\ MailedOrigin

\* A message that a pass works on, or that was mailed, keeps its purpose.
LEMMA PurposeKept ==
  ASSUME OptOutInv, [Next]_vars, NEW a \in ActionIds,
         a \in mailed \/ \E p \in Passes : Holds(p, a)
  PROVE  PurposeOf(a)' = PurposeOf(a)
<1> USE DEF OptOutInv, DispatchInv
<1>1. a \in Msgs => origin[a] # NoKey
  BY DEF MailedOrigin, FreshIds
<1>2. a \in Msgs => origin'[a] = origin[a]
  <2>1. ASSUME NEW p \in Passes, commitDecision(p), a \in Msgs
        PROVE  origin'[a] = origin[a]
    <3>1. pass[p].m \in Msgs /\ origin[pass[p].m] = NoKey
      BY <2>1, TablesAssumption
         DEF commitDecision, TypeInv, PassShape, FreshIds, ActionIds
    <3> QED
      BY <1>1, <2>1, <3>1 DEF commitDecision, TypeInv, TypeOK, TablesTypeOK
  <2>2. ASSUME NEW p \in Passes, PassStep(p), a \in Msgs
        PROVE  origin'[a] = origin[a]
    BY <2>1, <2>2, PassKeeps
       DEF checkPolicy, send, sendFails, createPublicActionTokens, tableVars,
           mailVars
  <2> QED
    BY <2>2, EnvKeeps
<1> QED
  BY <1>2 DEF PurposeOf, KeyPurpose

\* A message that reaches the provider has been drafted.
LEMMA MailedBy ==
  ASSUME OptOutInv, NEW p \in Passes, send(p) \/ sendFails(p)
  PROVE  /\ pass[p].id \in Msgs /\ Holds(p, pass[p].id)
         /\ origin[pass[p].id] # NoKey
         /\ mailed \subseteq mailed' /\ mailed' \subseteq mailed \cup {pass[p].id}
<1>1. pass[p].pc = "send" /\ pass[p].id \in Msgs
  BY DEF send, sendFails, OptOutInv, DispatchInv, TypeInv, PassShape
<1>2. Holds(p, pass[p].id)
  BY <1>1 DEF Holds, Working
<1>3. origin[pass[p].id] # NoKey
  BY <1>1, <1>2 DEF OptOutInv, DispatchInv, FreshIds
<1> QED
  BY <1>1, <1>2, <1>3 DEF send, sendFails

\* Initially nothing is deleted and nothing mailed.
LEMMA OptOutInit == Init => OptOutInv
BY DispatchInit DEF Init, TablesInit, OptOutInv, AnonymizedNoConsent, MailedOrigin

\* Every step of the system keeps the invariant.
LEMMA OptOutStep == OptOutInv /\ [Next]_vars => OptOutInv'
<1> SUFFICES ASSUME OptOutInv, [Next]_vars PROVE OptOutInv'
  OBVIOUS
<1>a. DispatchInv /\ DispatchInv' /\ TypeInv
  BY DispatchStep DEF OptOutInv, DispatchInv
<1>b. mailed \subseteq Msgs
  BY <1>a DEF TypeInv, TypeOK, TablesTypeOK
<1>1. AnonymizedNoConsent'
  <2>1. ASSUME NEW p \in Passes, PassStep(p) PROVE AnonymizedNoConsent'
    BY <1>a, <2>1, PassKeeps DEF OptOutInv, AnonymizedNoConsent
  <2>2. CASE LeadKept
    BY <2>2 DEF LeadKept, OptOutInv, AnonymizedNoConsent
  <2> QED
    BY <1>a, <2>1, <2>2, EnvKeeps
<1>2. MailedOrigin'
  <2>1. ASSUME UNCHANGED <<mailed, origin>> PROVE MailedOrigin'
    BY <2>1 DEF OptOutInv, MailedOrigin
  <2>2. ASSUME NEW p \in Passes, send(p) \/ sendFails(p) PROVE MailedOrigin'
    <3>1. origin' = origin
      BY <2>2 DEF send, sendFails, mailVars
    <3> QED
      BY <2>2, <3>1, MailedBy DEF OptOutInv, MailedOrigin
  <2>3. ASSUME NEW p \in Passes, commitDecision(p) PROVE MailedOrigin'
    <3>1. pass[p].id \in Keys /\ pass[p].id # NoKey /\ mailed' = mailed
      BY <1>a, <2>3, TablesAssumption
         DEF commitDecision, TypeInv, PassShape, ActionIds
    <3> QED
      BY <1>a, <1>b, <2>3, <3>1
         DEF commitDecision, OptOutInv, MailedOrigin, TypeInv, TypeOK, TablesTypeOK
  <2>4. ASSUME NEW p \in Passes, PassStep(p) PROVE MailedOrigin'
    BY <1>a, <2>1, <2>2, <2>3, <2>4, PassKeeps
       DEF checkPolicy, createPublicActionTokens, tableVars, mailVars
  <2> QED
    BY <1>a, <2>1, <2>4, EnvKeeps
<1> QED
  BY <1>a, <1>1, <1>2 DEF OptOutInv

\* OptOutInv is an invariant of the specification.
LEMMA OptOutInvariant == Spec => []OptOutInv
BY OptOutInit, OptOutStep, PTL DEF Spec

-----------------------------------------------------------------------------
(* The theorems *)

\* Nothing lifts a bar: a deletion clears the suppressions together with all
\* consent.
LEMMA BarHolds ==
  ASSUME OptOutInv, [Next]_vars, NEW purpose \in Purposes, Barred(purpose)
  PROVE  Barred(purpose)'
<1>1. TypeInv
  BY DEF OptOutInv, DispatchInv
<1>2. ASSUME NEW p \in Passes, PassStep(p) PROVE Barred(purpose)'
  BY <1>1, <1>2, PassKeeps DEF Barred
<1>3. CASE LeadKept
  BY <1>3 DEF LeadKept, Barred
<1> QED
  BY <1>1, <1>2, <1>3, EnvKeeps

\* The policy refuses a barred purpose, whatever the pass had read before.
LEMMA BarredRefused ==
  ASSUME OptOutInv, NEW p \in Passes, pass[p].pc \in Working,
         Barred(PurposeOf(pass[p].id))
  PROVE  evaluateCommunicationPolicy(PolicyInput(p)) = "rejected"
<1>1. PurposeOf(pass[p].id) \in Purposes
  BY DEF PurposeOf, KeyPurpose, Purposes
<1>2. Refused(PolicyInput(p))
  BY <1>1 DEF Refused, PolicyInput, Barred, OptOutInv, AnonymizedNoConsent
<1> QED
  BY <1>2 DEF evaluateCommunicationPolicy

\* A pass comes to the call of the provider only through a check that allowed
\* the purpose.
LEMMA SendChecked ==
  ASSUME OptOutInv, [Next]_vars, NEW p \in Passes,
         pass'[p].pc = "send", pass'[p] # pass[p]
  PROVE  /\ Holds(p, pass[p].id) /\ pass'[p].id = pass[p].id
         /\ ~ Barred(PurposeOf(pass[p].id))
<1> USE DEF OptOutInv, DispatchInv
<1>a. pass \in [Passes -> PassState]
  BY DEF TypeInv, TypeOK, DispatcherTypeOK
<1>1. PICK q \in Passes : PassStep(q)
  BY EnvKeeps DEF NoNewWork
<1>2. q = p
  BY <1>1, PassStepShape
<1>3. checkPolicy(p)
  <2>1. ~ NoNewWork
    BY DEF NoNewWork
  <2>2. send(p) \/ sendFails(p) => pass'[p].pc # "send"
    BY <1>a DEF send, sendFails, GoTo, PassState
  <2>3. createPublicActionTokens(p) => pass'[p].pc # "send"
    BY <1>a DEF createPublicActionTokens, PassState
  <2>4. commitDecision(p) => pass'[p].pc # "send"
    BY <1>a, BatchFields DEF commitDecision, Proceed, Working
  <2> QED
    BY <1>1, <1>2, <2>1, <2>2, <2>3, <2>4, PassKeeps
<1>4. pass[p].pc \in Working /\ pass'[p].id = pass[p].id
  BY <1>3, <1>a DEF checkPolicy, GoTo, PassState, Working
<1>5. evaluateCommunicationPolicy(PolicyInput(p)) # "rejected"
  BY <1>3, <1>a DEF checkPolicy, GoTo, PassState
<1> QED
  BY <1>4, <1>5, BarredRefused DEF Holds

\* An opt-out is final: once the sends under way are over, a barred purpose is
\* never mailed again, whatever the passes, requests, crashes and deletions.
THEOREM OptOutFinalHolds == Spec => OptOutFinal
<1>1. ASSUME OptOutInv, [Next]_vars, NEW purpose \in Purposes,
             Barred(purpose), Sending(purpose) = {}
      PROVE  /\ Barred(purpose)' /\ Sending(purpose)' = {}
             /\ MailedFor(purpose)' = MailedFor(purpose)
  <2> USE <1>1 DEF OptOutInv, DispatchInv
  <2>1. Barred(purpose)'
    BY BarHolds
  <2>2. ASSUME NEW p \in Passes, NEW a \in ActionIds, a = pass'[p].id,
               pass'[p].pc = "send", PurposeOf(a)' = purpose
        PROVE  FALSE
    <3>1. CASE pass'[p] = pass[p]
      <4>1. Holds(p, a)
        BY <2>2, <3>1 DEF Holds, Working
      <4>2. PurposeOf(a) = purpose
        BY <2>2, <4>1, PurposeKept
      <4> QED
        BY <2>2, <3>1, <4>2 DEF Sending
    <3>2. CASE pass'[p] # pass[p]
      <4>1. Holds(p, a) /\ ~ Barred(PurposeOf(a))
        BY <2>2, <3>2, SendChecked
      <4> QED
        BY <2>2, <4>1, PurposeKept
    <3> QED
      BY <3>1, <3>2
  <2>3. Sending(purpose)' = {}
    <3>1. TypeInv'
      BY DispatchStep
    <3>2. ASSUME NEW p \in Passes, pass'[p].pc = "send"
          PROVE  pass'[p].id \in ActionIds
      BY <3>1, <3>2 DEF TypeInv, PassShape, Working
    <3> QED
      BY <2>2, <3>2 DEF Sending, PurposeOf
  <2>4. ASSUME NEW m \in Msgs, m \in mailed
        PROVE  m \in mailed' /\ PurposeOf(m)' = PurposeOf(m)
    <3>1. m \in mailed'
      <4>1. ASSUME NEW p \in Passes, PassStep(p) PROVE m \in mailed'
        BY <2>4, <4>1, PassKeeps, MailedBy
           DEF checkPolicy, createPublicActionTokens, commitDecision, tableVars
      <4> QED
        BY <2>4, <4>1, EnvKeeps
    <3> QED
      BY <2>4, <3>1, PurposeKept DEF ActionIds
  <2>5. ASSUME NEW m \in Msgs, m \in mailed', m \notin mailed
        PROVE  PurposeOf(m)' # purpose
    <3>1. PICK p \in Passes : PassStep(p)
      BY <2>5, EnvKeeps
    <3>2. send(p) \/ sendFails(p)
      BY <2>5, <3>1, PassKeeps
         DEF checkPolicy, createPublicActionTokens, commitDecision, tableVars
    <3>3. m = pass[p].id /\ Holds(p, m)
      BY <2>5, <3>2, MailedBy
    <3>4. PurposeOf(m)' = PurposeOf(m)
      BY <3>3, PurposeKept DEF ActionIds
    <3>5. PurposeOf(m) # purpose
      BY <3>2, <3>3 DEF Sending, send, sendFails
    <3> QED
      BY <3>4, <3>5
  <2>6. MailedFor(purpose)' = MailedFor(purpose)
    <3>1. mailed \subseteq Msgs /\ mailed' \subseteq Msgs
      BY DispatchStep DEF TypeInv, TypeOK, TablesTypeOK
    <3> QED
      BY <2>4, <2>5, <3>1 DEF MailedFor, PurposeOf
  <2> QED
    BY <2>1, <2>3, <2>6
<1>2. ASSUME OptOutInv, [Next]_vars
      PROVE  \A purpose \in Purposes :
               Barred(purpose) /\ Sending(purpose) = {} =>
                 /\ Barred(purpose)'
                 /\ Sending(purpose)' = {}
                 /\ MailedFor(purpose)' = MailedFor(purpose)
  BY <1>1, <1>2
<1> QED
  BY <1>2, OptOutInvariant, PTL DEF Spec, OptOutFinal

\* Deletion is final: once the drafts under way are over, no message and no
\* link of an anonymized lead is written any more.
THEOREM DeletionFinalHolds == Spec => DeletionFinal
<1>1. ASSUME OptOutInv, [Next]_vars, anonymized, Drafting = {}
      PROVE  Drafting' = {} /\ NothingDrafted
  <2> USE <1>1
  <2>a. TypeInv /\ pass \in [Passes -> PassState]
    BY DEF OptOutInv, DispatchInv, TypeInv, TypeOK, DispatcherTypeOK
  <2>1. CASE NoNewWork /\ NothingDrafted
    BY <2>1 DEF NoNewWork, Drafting
  <2>2. ASSUME NEW p \in Passes, checkPolicy(p)
        PROVE  Drafting' = {} /\ NothingDrafted
    <3>1. evaluateCommunicationPolicy(PolicyInput(p)) = "rejected"
      BY <2>2, BarredRefused DEF checkPolicy, Working, Barred
    <3>2. pass' = [pass EXCEPT ![p].pc = "reject"]
      BY <2>2, <3>1 DEF checkPolicy, GoTo
    <3> QED
      BY <2>2, <2>a, <3>2
         DEF checkPolicy, Drafting, PassState, NothingDrafted, tableVars, mailVars
  <2>3. ASSUME NEW p \in Passes, send(p) \/ sendFails(p)
        PROVE  Drafting' = {} /\ NothingDrafted
    BY <2>3, <2>a DEF send, sendFails, GoTo, Drafting, PassState,
                      NothingDrafted, mailVars
  <2>4. ASSUME NEW p \in Passes, createPublicActionTokens(p) \/ commitDecision(p)
        PROVE  FALSE
    BY <2>4 DEF createPublicActionTokens, commitDecision, Drafting
  <2>5. ASSUME NEW p \in Passes, PassStep(p)
        PROVE  Drafting' = {} /\ NothingDrafted
    BY <2>a, <2>1, <2>2, <2>3, <2>4, <2>5, PassKeeps
  <2> QED
    BY <2>a, <2>1, <2>5, EnvKeeps
<1> QED
  BY <1>1, OptOutInvariant, PTL DEF Spec, DeletionFinal, NothingDrafted

\* No operation of the API restarts a halted cadence unless it schedules the
\* post-event steps, which makes the enrollment active again.
LEMMA ApiHalted ==
  ASSUME TypeInv, ApiStep, Halted, enrollment' # "ACTIVE"
  PROVE  enrollment' = "CANCELLED" /\ UNCHANGED act
<1> USE DEF tableVars, cadenceVars
<1>a. act \in [ActionIds -> ActRow]
  BY DEF TypeInv, TypeOK, TablesTypeOK
<1>b. UNCHANGED cadenceVars => enrollment' = "CANCELLED" /\ UNCHANGED act
  BY DEF Halted
<1>c. stopCadence => enrollment' = "CANCELLED" /\ UNCHANGED act
  BY <1>a DEF stopCadence, Stopped, Halted
<1>1. ASSUME NEW c \in Clients, NEW request, Begin(c, request)
      PROVE  enrollment' = "CANCELLED" /\ UNCHANGED act
  BY <1>1, <1>b DEF Begin
<1>2. ASSUME NEW c \in Clients,
             \/ updateRegistrationStatusRead(c) \/ recordInboundRead(c)
             \/ consumePublicActionRead(c) \/ processEmailWebhookRead(c)
      PROVE  enrollment' = "CANCELLED" /\ UNCHANGED act
  BY <1>1, <1>2 DEF updateRegistrationStatusRead, recordInboundRead,
                    consumePublicActionRead, processEmailWebhookRead
<1>3. ASSUME NEW c \in Clients, updateRegistrationStatus(c)
      PROVE  enrollment' = "CANCELLED" /\ UNCHANGED act
  BY <1>3, <1>b, <1>c DEF updateRegistrationStatus, schedulePostEvent
<1>4. ASSUME NEW c \in Clients, recordInbound(c) \/ consumePublicAction(c)
      PROVE  enrollment' = "CANCELLED" /\ UNCHANGED act
  BY <1>4, <1>b, <1>c DEF recordInbound, consumePublicAction
<1>5. ASSUME NEW c \in Clients, processEmailWebhook(c)
      PROVE  enrollment' = "CANCELLED" /\ UNCHANGED act
  BY <1>5, <1>b DEF processEmailWebhook
<1>6. CASE bookMeeting \/ withdrawConsent \/ deleteLeadData
  BY <1>6, <1>b, <1>c DEF bookMeeting, withdrawConsent, deleteLeadData
<1> QED
  BY <1>2, <1>3, <1>4, <1>5, <1>6 DEF ApiStep, ClientStep

\* A pass without a claim finds nothing to claim in a halted cadence.
LEMMA PassHalted ==
  ASSUME TypeInv, Halted, NEW p \in Passes, PassStep(p)
  PROVE  Halted' /\ mailed' = mailed
<1> USE DEF tableVars, cadenceVars
<1>a. pass \in [Passes -> PassState] /\ pass[p] \in PassState
  BY DEF TypeInv, TypeOK, DispatcherTypeOK
<1>b. pass[p].pc \notin Working
  BY DEF Halted
<1>c. ASSUME UNCHANGED tableVars, NEW now, NEW todo,
             pass' = [pass EXCEPT ![p] = Batch(now, todo)]
      PROVE  Halted' /\ mailed' = mailed
  BY <1>c, <1>a, BatchFields DEF Halted
<1>1. CASE fetchCandidates(p)
  BY <1>1, <1>c DEF fetchCandidates
<1>2. CASE claimLost(p)
  BY <1>2, <1>c DEF claimLost
<1>3. CASE claim(p)
  <2>1. Head(pass[p].todo) \in Candidate
    BY <1>3, <1>a DEF claim, TypeInv, PassShape, PassState
  <2>2. ~ Claimable(Head(pass[p].todo).id, pass[p].now)
    BY <2>1 DEF Candidate, Claimable, Halted
  <2> QED
    BY <1>3, <2>2 DEF claim
<1> QED
  BY <1>b, <1>1, <1>2, <1>3
     DEF PassStep, Working, fail, readEnrollment, readMessage, checkPolicy,
         defer, rejectDecision, rejectSend, createPublicActionTokens,
         attemptFails, commitDecision, completeSent, send, sendFails,
         recordDelivery

\* A stopped cadence stays stopped: only the post-event schedule or a late
\* enrichment starts it again, never a pass that still lists its actions.
THEOREM StopHoldsHolds == Spec => StopHolds
<1>1. ASSUME TypeInv, [Next]_vars, Halted, ~ processLeadEnrichment,
             enrollment' # "ACTIVE"
      PROVE  Halted' /\ mailed' = mailed
  <2> USE <1>1 DEF tableVars, cadenceVars, apiVars, dispatcherVars
  <2>a. pass \in [Passes -> PassState]
    BY DEF TypeInv, TypeOK, DispatcherTypeOK
  <2>1. CASE ApiStep /\ UNCHANGED dispatcherVars
    BY <2>1, ApiHalted, ApiKeeps DEF Halted
  <2>2. ASSUME NEW p \in Passes, PassStep(p)
        PROVE  Halted' /\ mailed' = mailed
    BY <2>2, PassHalted
  <2>3. ASSUME NEW p \in Passes, crash(p)
        PROVE  Halted' /\ mailed' = mailed
    BY <2>3, <2>a, BatchFields DEF crash, Idle, Halted
  <2>4. CASE Tick
    BY <2>4 DEF Tick, Halted
  <2>5. CASE UNCHANGED vars
    BY <2>5 DEF vars, Halted
  <2> QED
    BY <2>1, <2>2, <2>3, <2>4, <2>5 DEF Next, DispatcherStep
<1> QED
  BY <1>1, TypeInvariant, PTL DEF Spec, StopHolds
-----------------------------------------------------------------------------
(* The frequency limit *)

\* The passes that were allowed to mail for this purpose and have not recorded
\* the mail yet.
Offering(purpose) ==
  {p \in Passes : /\ pass[p].pc \in {"send", "record"}
                  /\ PurposeOf(pass[p].id) = purpose}

\* The mails the policy counts.
Delivered(purpose) ==
  {m \in Msgs : /\ msg[m].st \in {"SENT", "DELIVERED"}
                /\ PurposeOf(m) = purpose}

\* The mails the provider has given a number: a stale pass or a webhook that
\* rewrites the status leaves the number alone.
Numbered(purpose) == {m \in Msgs : msg[m].pid /\ PurposeOf(m) = purpose}

\* With the mails under way the messages of X stay within the bound.
Within(purpose, X) ==
  Cardinality(X) + Cardinality(Offering(purpose))
    <= Limit[purpose] + Cardinality(Passes) - 1

\* Rows are of drafted messages, and what counts has a number.
RowsDrafted ==
  \A m \in Msgs : /\ msg[m].st # "none" => origin[m] # NoKey
                  /\ msg[m].pid => msg[m].st # "none"
                  /\ msg[m].st \in {"SENT", "DELIVERED"} => msg[m].pid

\* A webhook in progress is about a drafted message with a number, or one
\* that a deletion has removed since it was looked up.
ReportsNumbered ==
  \A c \in Clients : client[c].op = "webhook" =>
    /\ client[c].seen # "none"
    /\ origin[client[c].m] # NoKey
    /\ msg[client[c].m].st = "none" \/ msg[client[c].m].pid

\* While no pass has outlived its lease on a message: a numbered message is
\* completed for good and shows what the provider said of it, a bounced one
\* bars its purpose, and webhooks in progress have read such states.
Reported == {"SENT", "DELIVERED", "BOUNCED"}

NumberedFinal ==
  overrun \cap Msgs = {} =>
    /\ \A m \in Msgs : msg[m].pid =>
         /\ act[m].st = "COMPLETED"
         /\ msg[m].st \in Reported
         /\ msg[m].st = "BOUNCED" => Barred(PurposeOf(m))
    /\ \A c \in Clients : client[c].op = "webhook" => client[c].seen \in Reported

LimitInv ==
  /\ OptOutInv /\ RowsDrafted /\ ReportsNumbered /\ NumberedFinal
  /\ overrun \cap Msgs = {} =>
       \A purpose \in Purposes : Within(purpose, Numbered(purpose))
  /\ processed = {} =>
       \A purpose \in Purposes : Within(purpose, Delivered(purpose))

\* Two counts grow no further when both sets shrink, or when one element
\* leaves the second for one that enters the first.
LEMMA Counting ==
  ASSUME NEW X, NEW Y, NEW S, NEW T, IsFiniteSet(X), IsFiniteSet(S)
  PROVE  /\ Y \subseteq X /\ T \subseteq S =>
              Cardinality(Y) + Cardinality(T) <= Cardinality(X) + Cardinality(S)
         /\ \A m, p : p \in S /\ Y \subseteq X \cup {m} /\ T \subseteq S \ {p} =>
              Cardinality(Y) + Cardinality(T) <= Cardinality(X) + Cardinality(S)
         /\ Cardinality(X) \in Nat /\ Cardinality(S) \in Nat
<1>1. Cardinality(X) \in Nat /\ Cardinality(S) \in Nat
  BY FS_CardinalityType
<1>2. ASSUME Y \subseteq X, T \subseteq S
      PROVE  Cardinality(Y) + Cardinality(T) <= Cardinality(X) + Cardinality(S)
  <2>1. Cardinality(Y) <= Cardinality(X) /\ Cardinality(T) <= Cardinality(S)
    BY <1>2, FS_Subset
  <2>2. Cardinality(Y) \in Nat /\ Cardinality(T) \in Nat
    BY <1>2, FS_Subset, FS_CardinalityType
  <2> QED
    BY <1>1, <2>1, <2>2
<1>3. ASSUME NEW m, NEW p, p \in S, Y \subseteq X \cup {m}, T \subseteq S \ {p}
      PROVE  Cardinality(Y) + Cardinality(T) <= Cardinality(X) + Cardinality(S)
  <2>1. /\ IsFiniteSet(X \cup {m})
        /\ Cardinality(X \cup {m}) \in {Cardinality(X), Cardinality(X) + 1}
    BY <1>1, FS_AddElement
  <2>2. IsFiniteSet(S \ {p}) /\ Cardinality(S \ {p}) = Cardinality(S) - 1
    BY <1>3, FS_RemoveElement
  <2>3. /\ Cardinality(Y) <= Cardinality(X \cup {m})
        /\ Cardinality(T) <= Cardinality(S \ {p})
    BY <1>3, <2>1, <2>2, FS_Subset
  <2>4. Cardinality(Y) \in Nat /\ Cardinality(T) \in Nat
    BY <1>3, <2>1, <2>2, FS_Subset, FS_CardinalityType
  <2> QED
    BY <1>1, <2>1, <2>2, <2>3, <2>4
<1> QED
  BY <1>1, <1>2, <1>3

\* What a drafted message was drafted for is settled.
LEMMA OriginKept ==
  ASSUME OptOutInv, [Next]_vars, NEW m \in Msgs, origin[m] # NoKey
  PROVE  origin'[m] = origin[m] /\ PurposeOf(m)' = PurposeOf(m)
<1> USE DEF OptOutInv, DispatchInv
<1>1. ASSUME NEW p \in Passes, commitDecision(p) PROVE origin'[m] = origin[m]
  <2>1. pass[p].m \in Msgs /\ origin[pass[p].m] = NoKey
    BY <1>1, TablesAssumption
       DEF commitDecision, TypeInv, PassShape, FreshIds, ActionIds
  <2> QED
    BY <1>1, <2>1 DEF commitDecision, TypeInv, TypeOK, TablesTypeOK
<1>2. ASSUME NEW p \in Passes, PassStep(p) PROVE origin'[m] = origin[m]
  <2>1. checkPolicy(p) => origin' = origin
    BY DEF checkPolicy, tableVars, mailVars
  <2>2. send(p) \/ sendFails(p) => origin' = origin
    BY DEF send, sendFails, mailVars
  <2>3. createPublicActionTokens(p) => origin' = origin
    BY DEF createPublicActionTokens
  <2> QED
    BY <1>1, <1>2, <2>1, <2>2, <2>3, PassKeeps
<1>3. origin'[m] = origin[m]
  BY <1>2, EnvKeeps
<1> QED
  BY <1>3 DEF PurposeOf, KeyPurpose

\* The status that the webhook of a client writes.
Verdict(c) == IF client[c].type = "OPENED" THEN client[c].seen ELSE client[c].type

\* What a step may do to the row of a message: leave it, delete it, draft it,
\* refuse it, record its delivery, or note what the provider reports.
RefusedRow(m) ==
  /\ \E p \in Passes : pass[p].pc = "reject" /\ pass[p].id = m
  /\ msg[m].st # "none"
  /\ msg'[m].st = "SUPPRESSED" /\ msg'[m].pid = msg[m].pid

RecordedRow(m) ==
  /\ \E p \in Passes : recordDelivery(p) /\ pass[p].id = m
  /\ msg[m].st # "none"
  /\ msg'[m].st = AcceptedStatus /\ msg'[m].pid
  /\ act'[m].st = "COMPLETED"

ReportedRow(m) ==
  /\ \E c \in Clients :
       /\ client[c].op = "webhook" /\ client[c].m = m
       /\ msg'[m].st = Verdict(c)
       /\ Verdict(c) = "BOUNCED" => PurposeOf(m) \in suppressed'
  /\ msg[m].st # "none" /\ msg'[m].pid = msg[m].pid
  /\ processed' # {} /\ UNCHANGED <<act, overrun>>

RowWritten(m) ==
  \/ msg'[m] = msg[m]
  \/ msg'[m] = NoMsg
  \/ \E p \in Passes : commitDecision(p) /\ pass[p].m = m
  \/ RefusedRow(m)
  \/ RecordedRow(m)
  \/ ReportedRow(m)

\* An operation of the API leaves a row, deletes it or notes a report.
LEMMA ApiMessages ==
  ASSUME TypeInv, ApiStep, UNCHANGED dispatcherVars, NEW m \in Msgs
  PROVE  RowWritten(m)
<1> USE DEF tableVars, mailVars, cadenceVars, dispatcherVars
<1>a. ApiTypeOK /\ msg \in [Msgs -> MsgRow]
  BY DEF TypeInv, TypeOK, TablesTypeOK
<1>b. UNCHANGED msg => RowWritten(m)
  BY DEF RowWritten
<1>1. ASSUME NEW c \in Clients, NEW request, Begin(c, request)
      PROVE  RowWritten(m)
  BY <1>1, <1>b DEF Begin
<1>2. ASSUME NEW c \in Clients,
             \/ updateRegistrationStatusRead(c) \/ recordInboundRead(c)
             \/ consumePublicActionRead(c) \/ processEmailWebhookRead(c)
      PROVE  RowWritten(m)
  BY <1>1, <1>2 DEF updateRegistrationStatusRead, recordInboundRead,
                    consumePublicActionRead, processEmailWebhookRead
<1>3. ASSUME NEW c \in Clients, updateRegistrationStatus(c)
      PROVE  RowWritten(m)
  BY <1>3, <1>b DEF updateRegistrationStatus
<1>4. ASSUME NEW c \in Clients, recordInbound(c) \/ consumePublicAction(c)
      PROVE  RowWritten(m)
  BY <1>4, <1>b DEF recordInbound, consumePublicAction
<1>5. ASSUME NEW c \in Clients, processEmailWebhook(c)
      PROVE  RowWritten(m)
  <2>1. CASE UNCHANGED msg
    BY <2>1, <1>b
  <2>2. CASE msg' # msg
    <3>1. client[c].op = "webhook" /\ client[c].m \in Msgs
      BY <1>5, <1>a, RequestFields DEF processEmailWebhook
    <3>2. /\ msg[client[c].m].st # "none"
          /\ msg' = [msg EXCEPT ![client[c].m].st = Verdict(c)]
          /\ Verdict(c) = "BOUNCED" => PurposeOf(client[c].m) \in suppressed'
          /\ processed' # {} /\ UNCHANGED <<act, overrun>>
      BY <1>5, <2>2 DEF processEmailWebhook, Verdict
    <3>3. CASE m = client[c].m
      <4>1. msg'[m].st = Verdict(c) /\ msg'[m].pid = msg[m].pid
        BY <1>a, <3>2, <3>3 DEF MsgRow
      <4>2. ReportedRow(m)
        BY <3>1, <3>2, <3>3, <4>1 DEF ReportedRow
      <4> QED
        BY <4>2 DEF RowWritten
    <3>4. CASE m # client[c].m
      BY <1>a, <3>2, <3>4 DEF RowWritten
    <3> QED
      BY <3>3, <3>4
  <2> QED
    BY <2>1, <2>2
<1>6. CASE bookMeeting \/ withdrawConsent
  BY <1>6, <1>b DEF bookMeeting, withdrawConsent
<1>7. CASE deleteLeadData
  BY <1>7 DEF deleteLeadData, RowWritten
<1> QED
  BY <1>2, <1>3, <1>4, <1>5, <1>6, <1>7 DEF ApiStep, ClientStep

\* A pass drafts a message, or writes the row of the one it has in hand.
LEMMA PassMessages ==
  ASSUME TypeInv, NEW p \in Passes, PassStep(p), NEW m \in Msgs
  PROVE  RowWritten(m)
<1> USE DEF tableVars, mailVars
<1>a. msg \in [Msgs -> MsgRow] /\ act \in [ActionIds -> ActRow]
  BY DEF TypeInv, TypeOK, TablesTypeOK
<1>b. UNCHANGED msg => RowWritten(m)
  BY DEF RowWritten
<1>1. CASE commitDecision(p)
  BY <1>1, <1>a DEF commitDecision, RowWritten
<1>2. CASE rejectSend(p)
  <2>1. CASE UNCHANGED msg
    BY <1>b, <2>1
  <2>2. CASE msg' # msg
    <3>1. /\ pass[p].pc = "reject" /\ pass[p].id \in Msgs
          /\ msg[pass[p].id].st # "none"
          /\ msg' = [msg EXCEPT ![pass[p].id].st = "SUPPRESSED"]
      BY <1>2, <2>2 DEF rejectSend
    <3>2. CASE m = pass[p].id
      <4>1. msg'[m].st = "SUPPRESSED" /\ msg'[m].pid = msg[m].pid
        BY <1>a, <3>1, <3>2 DEF MsgRow
      <4> QED
        BY <3>1, <3>2, <4>1 DEF RowWritten, RefusedRow
    <3>3. CASE m # pass[p].id
      BY <1>a, <3>1, <3>3 DEF RowWritten
    <3> QED
      BY <3>2, <3>3
  <2> QED
    BY <2>1, <2>2
<1>3. CASE recordDelivery(p)
  <2>1. CASE UNCHANGED msg
    BY <1>b, <2>1
  <2>2. CASE msg' # msg
    <3>1. /\ msg[pass[p].id].st # "none"
          /\ msg' = [msg EXCEPT ![pass[p].id] = [st |-> AcceptedStatus, pid |-> TRUE]]
          /\ act' = Settle(p, "COMPLETED")
      BY <1>3, <2>2 DEF recordDelivery
    <3>2. CASE m = pass[p].id
      <4>1. msg'[m].st = AcceptedStatus /\ msg'[m].pid
        BY <1>a, <3>1, <3>2
      <4>2. act'[m].st = "COMPLETED"
        BY <1>a, <3>1, <3>2 DEF Settle, ActionIds, ActRow
      <4> QED
        BY <1>3, <3>1, <3>2, <4>1, <4>2 DEF RowWritten, RecordedRow
    <3>3. CASE m # pass[p].id
      BY <1>a, <3>1, <3>3 DEF RowWritten
    <3> QED
      BY <3>2, <3>3
  <2> QED
    BY <2>1, <2>2
<1>4. CASE fetchCandidates(p)
  BY <1>4, <1>b DEF fetchCandidates
<1>5. CASE claim(p) \/ claimLost(p) \/ fail(p) \/ defer(p)
  BY <1>5, <1>b DEF claim, claimLost, fail, defer
<1>6. CASE readEnrollment(p) \/ readMessage(p) \/ attemptFails(p)
  BY <1>6, <1>b DEF readEnrollment, readMessage, attemptFails
<1>7. CASE checkPolicy(p)
  BY <1>7, <1>b DEF checkPolicy
<1>8. CASE createPublicActionTokens(p)
  <2>1. UNCHANGED msg
    BY <1>8 DEF createPublicActionTokens
  <2> QED
    BY <1>b, <2>1
<1>9. CASE rejectDecision(p) \/ completeSent(p) \/ send(p) \/ sendFails(p)
  BY <1>9, <1>b DEF rejectDecision, completeSent, send, sendFails
<1> QED
  BY <1>1, <1>2, <1>3, <1>4, <1>5, <1>6, <1>7, <1>8, <1>9 DEF PassStep

\* No step writes a message's row in any other way.
LEMMA MessageSteps ==
  ASSUME TypeInv, [Next]_vars, NEW m \in Msgs
  PROVE  RowWritten(m)
<1> USE DEF tableVars, mailVars
<1>b. UNCHANGED msg => RowWritten(m)
  BY DEF RowWritten
<1>1. CASE processLeadEnrichment
  BY <1>1, <1>b DEF processLeadEnrichment
<1>2. CASE ApiStep /\ UNCHANGED dispatcherVars
  BY <1>2, ApiMessages
<1>3. ASSUME NEW p \in Passes, PassStep(p) PROVE RowWritten(m)
  BY <1>3, PassMessages
<1>4. ASSUME NEW p \in Passes, crash(p) PROVE RowWritten(m)
  BY <1>4, <1>b DEF crash
<1>5. CASE Tick
  BY <1>5, <1>b DEF Tick
<1>6. CASE UNCHANGED vars
  BY <1>6, <1>b DEF vars
<1> QED
  BY <1>1, <1>2, <1>3, <1>4, <1>5, <1>6 DEF Next, DispatcherStep

\* A webhook in progress is one that was, or has just looked up its message by
\* the number.
LEMMA WebhookSteps ==
  ASSUME TypeInv, [Next]_vars, NEW c \in Clients, client'[c].op = "webhook"
  PROVE  \/ client'[c] = client[c]
         \/ /\ client'[c].m \in Msgs /\ msg[client'[c].m].pid
            /\ client'[c].seen = msg[client'[c].m].st
            /\ UNCHANGED msg
<1> USE DEF tableVars, mailVars
<1>a. client \in [Clients -> {NoRequest} \cup StatusRequest \cup InboundRequest
                              \cup PublicRequest \cup WebhookRequest]
  BY DEF TypeInv, TypeOK, ApiTypeOK
<1>b. mailed \in SUBSET Msgs
  BY DEF TypeInv, TypeOK, TablesTypeOK
<1> DEFINE Goal(d) == \/ client'[d] = client[d]
                      \/ /\ client'[d].m \in Msgs /\ msg[client'[d].m].pid
                         /\ client'[d].seen = msg[client'[d].m].st
                         /\ UNCHANGED msg
<1>c. ASSUME NEW d \in Clients, End(d) PROVE Goal(c)
  <2>1. NoRequest.op # "webhook"
    BY DEF NoRequest
  <2> QED
    BY <1>a, <1>c, <2>1 DEF End
<1>d. ASSUME NEW d \in Clients, NEW request, Begin(d, request),
             request.op # "webhook"
      PROVE  Goal(c)
  BY <1>a, <1>d DEF Begin
<1>1. ASSUME NEW d \in Clients, updateRegistrationStatusRead(d) PROVE Goal(c)
  BY <1>1, <1>d DEF updateRegistrationStatusRead
<1>2. ASSUME NEW d \in Clients, recordInboundRead(d) PROVE Goal(c)
  BY <1>2, <1>d DEF recordInboundRead
<1>3. ASSUME NEW d \in Clients, consumePublicActionRead(d) PROVE Goal(c)
  BY <1>3, <1>d DEF consumePublicActionRead
<1>4. ASSUME NEW d \in Clients, processEmailWebhookRead(d) PROVE Goal(c)
  <2>1. PICK m \in mailed, type \in WebhookTypes :
          /\ msg[m].pid
          /\ Begin(d, [op |-> "webhook", m |-> m, type |-> type,
                       seen |-> msg[m].st])
    BY <1>4 DEF processEmailWebhookRead
  <2>2. CASE c = d
    <3>1. client'[c] = [op |-> "webhook", m |-> m, type |-> type,
                        seen |-> msg[m].st]
      BY <1>a, <2>1, <2>2 DEF Begin
    <3> QED
      BY <1>b, <2>1, <3>1 DEF Begin
  <2>3. CASE c # d
    BY <1>a, <2>1, <2>3 DEF Begin
  <2> QED
    BY <2>2, <2>3
<1>5. ASSUME NEW d \in Clients,
             \/ updateRegistrationStatus(d) \/ recordInbound(d)
             \/ consumePublicAction(d) \/ processEmailWebhook(d)
      PROVE  Goal(c)
  BY <1>5, <1>c DEF updateRegistrationStatus, recordInbound,
                    consumePublicAction, processEmailWebhook
<1>6. ASSUME ApiStep PROVE Goal(c)
  <2>1. CASE bookMeeting \/ withdrawConsent \/ deleteLeadData
    BY <2>1 DEF bookMeeting, withdrawConsent, deleteLeadData, apiVars
  <2> QED
    BY <1>1, <1>2, <1>3, <1>4, <1>5, <1>6, <2>1 DEF ApiStep, ClientStep
<1>7. CASE ~ ApiStep
  BY <1>7 DEF Next, DispatcherStep, processLeadEnrichment, apiVars, vars
<1> QED
  BY <1>6, <1>7

\* Receipts are kept and an overrun is never forgotten.
LEMMA HistoryKept ==
  ASSUME TypeInv, [Next]_vars
  PROVE  processed \subseteq processed' /\ overrun \subseteq overrun'
<1> USE DEF tableVars, apiVars, dispatcherVars
<1>1. processed \subseteq processed'
  <2>1. ASSUME NEW c \in Clients, NEW request, Begin(c, request)
        PROVE  processed \subseteq processed'
    BY <2>1 DEF Begin
  <2>2. ASSUME NEW c \in Clients, ClientStep(c) PROVE processed \subseteq processed'
    <3>1. CASE \/ updateRegistrationStatusRead(c) \/ recordInboundRead(c)
               \/ consumePublicActionRead(c) \/ processEmailWebhookRead(c)
      BY <2>1, <3>1 DEF updateRegistrationStatusRead, recordInboundRead,
                        consumePublicActionRead, processEmailWebhookRead
    <3>2. CASE updateRegistrationStatus(c)
      BY <3>2 DEF updateRegistrationStatus
    <3>3. CASE recordInbound(c) \/ consumePublicAction(c)
      BY <3>3 DEF recordInbound, consumePublicAction
    <3>4. CASE processEmailWebhook(c)
      BY <3>4 DEF processEmailWebhook
    <3> QED
      BY <2>2, <3>1, <3>2, <3>3, <3>4 DEF ClientStep
  <2>3. CASE bookMeeting \/ withdrawConsent \/ deleteLeadData
    BY <2>3 DEF bookMeeting, withdrawConsent, deleteLeadData
  <2>4. CASE ~ ApiStep
    BY <2>4 DEF Next, DispatcherStep, processLeadEnrichment, vars
  <2> QED
    BY <2>2, <2>3, <2>4 DEF ApiStep
<1>2. overrun \subseteq overrun'
  <2>1. ASSUME NEW p \in Passes, PassStep(p) PROVE overrun \subseteq overrun'
    <3>1. claim(p) => overrun \subseteq overrun'
      BY DEF claim
    <3>2. createPublicActionTokens(p) => overrun' = overrun
      BY DEF createPublicActionTokens
    <3>3. commitDecision(p) => overrun' = overrun
      BY DEF commitDecision
    <3> QED
      BY <2>1, <3>1, <3>2, <3>3, PassStepShape
  <2>2. CASE EnvStep
    BY <2>2 DEF EnvStep, Tick
  <2> QED
    BY <2>1, <2>2, StepShape
<1> QED
  BY <1>1, <1>2

\* A pass comes to the call of the provider, or to recording its answer, only
\* through a check that allows it or through the call.
LEMMA PassOffers ==
  ASSUME TypeInv, NEW p \in Passes, PassStep(p),
         pass'[p].pc \in {"send", "record"}
  PROVE  checkPolicy(p) \/ send(p)
<1>a. pass \in [Passes -> PassState] /\ pass[p] \in PassState
  BY DEF TypeInv, TypeOK, DispatcherTypeOK
<1>b. ASSUME NEW now, NEW todo, pass' = [pass EXCEPT ![p] = Batch(now, todo)]
      PROVE  FALSE
  BY <1>a, <1>b, BatchFields DEF Working
<1>c. ~ Proceed(p)
  BY <1>b DEF Proceed
<1>d. ~ GoTo(p, "fail") /\ ~ GoTo(p, "done")
  BY <1>a DEF GoTo, PassState
<1>1. ~ fetchCandidates(p)
  BY <1>b DEF fetchCandidates
<1>2. ~ claim(p)
  <2>1. claim(p) => pass'[p].pc \in {"load", "decide"}
    BY <1>a DEF claim, Taken, PassState
  <2> QED
    BY <2>1
<1>3. ~ claimLost(p)
  BY <1>b DEF claimLost
<1>4. ~ fail(p) /\ ~ defer(p) /\ ~ rejectDecision(p) /\ ~ completeSent(p)
  BY <1>c DEF fail, defer, rejectDecision, completeSent
<1>5. ~ rejectSend(p) /\ ~ recordDelivery(p)
  BY <1>c, <1>d DEF rejectSend, recordDelivery
<1>6. ~ readEnrollment(p)
  <2>1. readEnrollment(p) => pass'[p].pc = "check"
    BY <1>a DEF readEnrollment, PassState
  <2> QED
    BY <2>1
<1>7. ~ readMessage(p)
  <2>1. ASSUME pass' = [pass EXCEPT ![p] =
               [@ EXCEPT !.pc = "check", !.reg = reg, !.sup = anonymized]]
        PROVE  FALSE
    BY <1>a, <2>1 DEF PassState
  <2> QED
    BY <1>d, <2>1 DEF readMessage
<1>8. ~ attemptFails(p)
  <2>1. attemptFails(p) => pass'[p].pc = "fail"
    BY <1>a DEF attemptFails, PassState
  <2> QED
    BY <2>1
<1>9. ~ createPublicActionTokens(p)
  <2>1. createPublicActionTokens(p) => pass'[p].pc = "commit"
    BY <1>a DEF createPublicActionTokens, PassState
  <2> QED
    BY <2>1
<1>10. ~ commitDecision(p) /\ ~ sendFails(p)
  BY <1>c, <1>d DEF commitDecision, sendFails
<1> QED
  BY <1>1, <1>2, <1>3, <1>4, <1>5, <1>6, <1>7, <1>8, <1>9, <1>10 DEF PassStep

\* The policy allowed a mail for this purpose to the message in the hands of p.
AllowedNow(p, purpose) ==
  /\ checkPolicy(p) /\ PurposeOf(pass[p].id) = purpose
  /\ evaluateCommunicationPolicy(PolicyInput(p)) = "allowed"

\* Only such a check adds a pass to those that mail for a purpose.
LEMMA OfferSteps ==
  ASSUME OptOutInv, [Next]_vars, NEW purpose \in Purposes,
         NEW p \in Passes, p \in Offering(purpose)'
  PROVE  p \in Offering(purpose) \/ AllowedNow(p, purpose)
<1>a. TypeInv /\ pass \in [Passes -> PassState]
  BY DEF OptOutInv, DispatchInv, TypeInv, TypeOK, DispatcherTypeOK
<1>b. pass'[p].pc \in {"send", "record"} /\ PurposeOf(pass[p].id)' = purpose
  BY DEF Offering
<1>c. ASSUME pass[p].pc \in Working, pass'[p].id = pass[p].id
      PROVE  PurposeOf(pass[p].id) = purpose
  <2>1. PICK a \in ActionIds : a = pass[p].id /\ Holds(p, a)
    BY <1>a, <1>c DEF Holds, TypeInv, PassShape
  <2>2. PurposeOf(a)' = PurposeOf(a)
    BY <2>1, PurposeKept
  <2>3. PurposeOf(pass[p].id)' = PurposeOf(a)'
    BY <1>c, <2>1 DEF PurposeOf
  <2> QED
    BY <1>b, <2>1, <2>2, <2>3
<1>1. CASE pass'[p] = pass[p]
  BY <1>1, <1>b, <1>c DEF Offering, Working
<1>2. CASE pass'[p] # pass[p]
  <2>1. PICK q \in Passes : PassStep(q)
    <3>1. Idle.pc \notin Working
      BY BatchFields DEF Idle
    <3> QED
      BY <1>a, <1>b, <1>2, <3>1, StepShape DEF EnvStep, Working
  <2>2. q = p
    BY <1>a, <1>2, <2>1, PassStepShape
  <2>3. CASE send(p)
    <3>1. pass[p].pc = "send" /\ pass'[p].id = pass[p].id
      BY <1>a, <2>3 DEF send, GoTo, PassState
    <3> QED
      BY <1>c, <3>1 DEF Offering, Working
  <2>4. CASE checkPolicy(p)
    <3>1. pass[p].pc = "check" /\ pass'[p].id = pass[p].id
      BY <1>a, <2>4 DEF checkPolicy, GoTo, PassState
    <3>2. evaluateCommunicationPolicy(PolicyInput(p)) \notin {"retry", "rejected"}
      BY <1>a, <1>b, <2>4 DEF checkPolicy, GoTo, PassState
    <3>3. evaluateCommunicationPolicy(PolicyInput(p)) = "allowed"
      BY <3>2 DEF evaluateCommunicationPolicy
    <3> QED
      BY <1>c, <2>4, <3>1, <3>3 DEF AllowedNow, Working
  <2> QED
    BY <1>a, <1>b, <2>1, <2>2, <2>3, <2>4, PassOffers
<1> QED
  BY <1>1, <1>2

\* A message that is being drafted is of a fresh id, and is drafted scheduled
\* and without a number.
LEMMA DraftedRow ==
  ASSUME OptOutInv, NEW m \in Msgs, NEW p \in Passes, commitDecision(p),
         pass[p].m = m
  PROVE  /\ origin[m] = NoKey /\ origin'[m] # NoKey
         /\ msg'[m].st = "SCHEDULED" /\ ~ msg'[m].pid
<1> USE DEF OptOutInv, DispatchInv
<1>1. m # NoKey /\ pass[p].id \in Keys /\ pass[p].id # NoKey
  BY TablesAssumption DEF commitDecision, TypeInv, PassShape, ActionIds
<1>2. origin[m] = NoKey
  BY <1>1 DEF FreshIds
<1>3. origin'[m] = pass[p].id /\ msg'[m] = [st |-> "SCHEDULED", pid |-> FALSE]
  BY DEF commitDecision, TypeInv, TypeOK, TablesTypeOK
<1> QED
  BY <1>1, <1>2, <1>3

\* Every step keeps rows drafted and counted messages numbered.
LEMMA RowsDraftedStep ==
  ASSUME LimitInv, [Next]_vars
  PROVE  RowsDrafted'
<1> SUFFICES ASSUME NEW m \in Msgs
             PROVE  /\ msg'[m].st # "none" => origin'[m] # NoKey
                    /\ msg'[m].pid => msg'[m].st # "none"
                    /\ msg'[m].st \in {"SENT", "DELIVERED"} => msg'[m].pid
  BY DEF RowsDrafted
<1>a. OptOutInv /\ TypeInv /\ ApiTypeOK
  BY DEF LimitInv, OptOutInv, DispatchInv, TypeInv, TypeOK
<1>b. /\ msg[m].st # "none" => origin[m] # NoKey
      /\ msg[m].pid => msg[m].st # "none"
      /\ msg[m].st \in {"SENT", "DELIVERED"} => msg[m].pid
  BY DEF LimitInv, RowsDrafted
<1>c. msg[m].st # "none" => origin'[m] # NoKey
  BY <1>a, <1>b, OriginKept
<1>1. CASE msg'[m] = msg[m]
  BY <1>1, <1>b, <1>c
<1>2. CASE msg'[m] = NoMsg
  BY <1>2 DEF NoMsg
<1>3. ASSUME NEW p \in Passes, commitDecision(p), pass[p].m = m
      PROVE  /\ origin'[m] # NoKey
             /\ msg'[m].st = "SCHEDULED" /\ ~ msg'[m].pid
  BY <1>a, <1>3, DraftedRow
<1>4. CASE RefusedRow(m)
  BY <1>4, <1>c DEF RefusedRow
<1>5. CASE RecordedRow(m)
  BY <1>5, <1>c DEF RecordedRow, AcceptedStatus
<1>6. CASE ReportedRow(m)
  <2>1. PICK c \in Clients : client[c].op = "webhook" /\ client[c].m = m
                             /\ msg'[m].st = Verdict(c)
    BY <1>6 DEF ReportedRow
  <2>2. Verdict(c) # "none"
    BY <1>a, <2>1, RequestFields DEF LimitInv, ReportsNumbered, Verdict, WebhookTypes
  <2>3. msg'[m].pid
    BY <1>6, <2>1 DEF LimitInv, ReportsNumbered, ReportedRow
  <2> QED
    BY <1>6, <1>c, <2>1, <2>2, <2>3 DEF ReportedRow
<1> QED
  BY <1>a, <1>1, <1>2, <1>3, <1>4, <1>5, <1>6, MessageSteps DEF RowWritten

\* Every step keeps the webhooks in progress on messages with a number.
LEMMA ReportsNumberedStep ==
  ASSUME LimitInv, [Next]_vars
  PROVE  ReportsNumbered'
<1> SUFFICES ASSUME NEW c \in Clients, client'[c].op = "webhook"
             PROVE  /\ client'[c].seen # "none"
                    /\ origin'[client'[c].m] # NoKey
                    /\ \/ msg'[client'[c].m].st = "none"
                       \/ msg'[client'[c].m].pid
  BY DEF ReportsNumbered
<1>a. OptOutInv /\ TypeInv /\ ApiTypeOK
  BY DEF LimitInv, OptOutInv, DispatchInv, TypeInv, TypeOK
<1>1. CASE client'[c] = client[c]
  <2>1. PICK m \in Msgs : m = client[c].m
    BY <1>a, <1>1, RequestFields
  <2>2. /\ client[c].seen # "none" /\ origin[m] # NoKey
        /\ msg[m].st = "none" \/ msg[m].pid
    BY <1>1, <2>1 DEF LimitInv, ReportsNumbered
  <2>3. origin'[m] # NoKey
    BY <1>a, <2>2, OriginKept
  <2>4. msg'[m].st = "none" \/ msg'[m].pid
    <3>1. ASSUME NEW p \in Passes, commitDecision(p), pass[p].m = m PROVE FALSE
      BY <1>a, <2>2, <3>1, DraftedRow
    <3>2. CASE RefusedRow(m) \/ RecordedRow(m) \/ ReportedRow(m)
      BY <2>2, <3>2 DEF RefusedRow, RecordedRow, ReportedRow
    <3> QED
      BY <1>a, <2>2, <3>1, <3>2, MessageSteps DEF RowWritten, NoMsg
  <2> QED
    BY <1>1, <2>1, <2>2, <2>3, <2>4
<1>2. CASE client'[c] # client[c]
  <2>1. PICK m \in Msgs : /\ m = client'[c].m /\ msg[m].pid
                          /\ client'[c].seen = msg[m].st /\ UNCHANGED msg
    BY <1>a, <1>2, WebhookSteps
  <2>2. msg[m].st # "none" /\ origin[m] # NoKey
    BY <2>1 DEF LimitInv, RowsDrafted
  <2> QED
    BY <1>a, <2>1, <2>2, OriginKept
<1> QED
  BY <1>1, <1>2

\* Every step keeps numbered messages completed and reported, as long as no
\* pass has outlived its lease on a message.
LEMMA NumberedFinalStep ==
  ASSUME LimitInv, [Next]_vars
  PROVE  NumberedFinal'
<1> SUFFICES ASSUME overrun' \cap Msgs = {} PROVE NumberedFinal'
  BY DEF NumberedFinal
<1>a. OptOutInv /\ DispatchInv /\ TypeInv /\ ApiTypeOK
  BY DEF LimitInv, OptOutInv, DispatchInv, TypeInv, TypeOK
<1>b. overrun \cap Msgs = {}
  BY <1>a, HistoryKept
<1>c. ASSUME NEW m \in Msgs, msg[m].pid
      PROVE  /\ act[m].st = "COMPLETED" /\ msg[m].st \in Reported
             /\ msg[m].st = "BOUNCED" => Barred(PurposeOf(m))
             /\ origin[m] # NoKey
  BY <1>b, <1>c DEF LimitInv, NumberedFinal, RowsDrafted
<1>d. \A c \in Clients : client[c].op = "webhook" => client[c].seen \in Reported
  BY <1>b DEF LimitInv, NumberedFinal
<1>1. ASSUME NEW m \in Msgs, msg'[m].pid
      PROVE  /\ act'[m].st = "COMPLETED" /\ msg'[m].st \in Reported
             /\ msg'[m].st = "BOUNCED" => Barred(PurposeOf(m))'
  <2>a. m \in ActionIds \ overrun
    BY <1>b DEF ActionIds
  <2>b. ASSUME msg[m].pid, NEW p \in Passes PROVE ~ Holds(p, m)
    BY <1>a, <1>c, <2>a, <2>b DEF DispatchInv, OneHolder
  <2>1. CASE msg'[m] = msg[m]
    <3>1. act'[m] = act[m]
      BY <1>a, <1>1, <1>c, <2>1, <2>a, <2>b, SettledKept DEF Settled
    <3>2. ASSUME msg[m].st = "BOUNCED" PROVE Barred(PurposeOf(m))'
      <4>1. PICK u \in Purposes : u = PurposeOf(m)
        BY DEF PurposeOf, KeyPurpose, Purposes
      <4>2. Barred(u)'
        BY <1>a, <1>1, <1>c, <2>1, <3>2, <4>1, BarHolds
      <4>3. PurposeOf(m)' = u
        BY <1>a, <1>1, <1>c, <2>1, <4>1, OriginKept
      <4> QED
        BY <4>2, <4>3 DEF Barred
    <3> QED
      BY <1>1, <1>c, <2>1, <3>1, <3>2
  <2>2. CASE RecordedRow(m)
    BY <2>2 DEF RecordedRow, AcceptedStatus, Reported
  <2>3. CASE ReportedRow(m)
    <3>1. PICK c \in Clients :
            /\ client[c].op = "webhook" /\ client[c].m = m
            /\ msg'[m].st = Verdict(c)
            /\ Verdict(c) = "BOUNCED" => PurposeOf(m) \in suppressed'
      BY <2>3 DEF ReportedRow
    <3>2. Verdict(c) \in Reported
      BY <1>a, <1>d, <3>1, RequestFields DEF Verdict, WebhookTypes, Reported
    <3>3. act'[m] = act[m] /\ msg[m].pid
      BY <1>1, <2>3 DEF ReportedRow
    <3>4. PurposeOf(m)' = PurposeOf(m)
      BY <1>a, <1>c, <3>3, OriginKept
    <3> QED
      BY <1>c, <3>1, <3>2, <3>3, <3>4 DEF Barred
  <2>4. CASE RefusedRow(m)
    BY <1>1, <2>4, <2>b DEF RefusedRow, Holds, Working
  <2>5. CASE msg'[m] = NoMsg
    BY <1>1, <2>5 DEF NoMsg
  <2>6. ASSUME NEW p \in Passes, commitDecision(p), pass[p].m = m PROVE FALSE
    BY <1>a, <1>1, <2>6, DraftedRow
  <2> QED
    BY <1>a, <2>1, <2>2, <2>3, <2>4, <2>5, <2>6, MessageSteps DEF RowWritten
<1>2. ASSUME NEW c \in Clients, client'[c].op = "webhook"
      PROVE  client'[c].seen \in Reported
  BY <1>a, <1>c, <1>d, <1>2, WebhookSteps
<1> QED
  BY <1>1, <1>2 DEF NumberedFinal

\* A pass that records a delivery is the only one that moves, and has done
\* with the mail.
LEMMA RecordStep ==
  ASSUME TypeInv, NEW p \in Passes, recordDelivery(p)
  PROVE  /\ pass[p].pc = "record" /\ pass'[p].pc \notin {"send", "record"}
         /\ \A q \in Passes : recordDelivery(q) => q = p
         /\ \A q \in Passes : ~ checkPolicy(q)
<1>a. pass \in [Passes -> PassState]
  BY DEF TypeInv, TypeOK, DispatcherTypeOK
<1>1. ASSUME NEW q \in Passes, recordDelivery(q)
      PROVE  pass[q].pc = "record" /\ pass'[q].pc \notin {"send", "record"}
  <2>1. PassStep(q) /\ pass[q].pc = "record"
    BY <1>1 DEF PassStep, recordDelivery
  <2>2. ~ checkPolicy(q) /\ ~ send(q)
    BY <2>1 DEF checkPolicy, send
  <2> QED
    BY <2>1, <2>2, PassOffers
<1>2. \A q \in Passes \ {p} : pass'[q] = pass[q]
  BY PassStepShape DEF PassStep
<1>3. ASSUME NEW q \in Passes, checkPolicy(q)
      PROVE  pass[q].pc = "check" /\ pass'[q].pc # "check"
  BY <1>3, <1>a DEF checkPolicy, GoTo, PassState
<1> QED
  BY <1>1, <1>2, <1>3

\* A check that allows a mail has counted fewer than the limit, and the
\* purpose is not barred.
LEMMA AllowedBelow ==
  ASSUME OptOutInv, NEW p \in Passes, NEW purpose \in Purposes,
         AllowedNow(p, purpose)
  PROVE  /\ ~ Barred(purpose)
         /\ Cardinality(Delivered(purpose)) < Limit[purpose]
<1>1. pass[p].pc \in Working /\ PurposeOf(pass[p].id) = purpose
  BY DEF AllowedNow, checkPolicy, Working
<1>2. ~ Barred(purpose)
  BY <1>1, BarredRefused DEF AllowedNow
<1>3. ~ Refused(PolicyInput(p))
  BY DEF AllowedNow, evaluateCommunicationPolicy
<1>4. ~ (DeliveredCount(purpose) >= Limit[purpose])
  BY <1>1, <1>3 DEF Refused, PolicyInput
<1>5. DeliveredCount(purpose) = Cardinality(Delivered(purpose))
  BY DEF DeliveredCount, Delivered
<1>6. Cardinality(Delivered(purpose)) \in Nat /\ Limit[purpose] \in Nat
  BY TablesAssumption, PolicyAssumption, FS_Subset, FS_CardinalityType DEF Delivered
<1> QED
  BY <1>2, <1>4, <1>5, <1>6

\* The bound is kept when every new message of the count has just been
\* recorded, and a mail is only allowed below the limit.
LEMMA WithinStep ==
  ASSUME OptOutInv, [Next]_vars, NEW purpose \in Purposes,
         NEW X \in SUBSET Msgs, NEW Y \in SUBSET Msgs,
         Within(purpose, X),
         \A m \in Y \ X : RecordedRow(m) /\ PurposeOf(m) = purpose,
         \A p \in Passes : AllowedNow(p, purpose) =>
           Cardinality(X) < Limit[purpose]
  PROVE  Cardinality(Y) + Cardinality(Offering(purpose)')
           <= Limit[purpose] + Cardinality(Passes) - 1
<1> DEFINE S == Offering(purpose)
           T == Offering(purpose)'
<1>a. TypeInv /\ Limit[purpose] \in Nat
  BY PolicyAssumption DEF OptOutInv, DispatchInv
<1>b. S \subseteq Passes /\ T \subseteq Passes
  BY DEF Offering
<1>c. IsFiniteSet(X) /\ IsFiniteSet(Y) /\ IsFiniteSet(S) /\ IsFiniteSet(T)
  BY <1>b, TablesAssumption, DispatcherAssumption, FS_Subset
<1>d. /\ Cardinality(X) \in Nat /\ Cardinality(Y) \in Nat
      /\ Cardinality(S) \in Nat /\ Cardinality(T) \in Nat
      /\ Cardinality(Passes) \in Nat
  BY <1>c, DispatcherAssumption, FS_CardinalityType
<1>e. Cardinality(X) + Cardinality(S) <= Limit[purpose] + Cardinality(Passes) - 1
  BY DEF Within
<1>f. ASSUME NEW m \in Y \ X
      PROVE  \E p \in Passes : /\ recordDelivery(p) /\ pass[p].id = m
                               /\ p \in S
  <2>1. PICK p \in Passes : recordDelivery(p) /\ pass[p].id = m
    BY <1>f DEF RecordedRow
  <2> QED
    BY <1>a, <1>f, <2>1, RecordStep DEF Offering
<1>1. ASSUME NEW q \in Passes, AllowedNow(q, purpose)
      PROVE  Cardinality(Y) + Cardinality(T)
               <= Limit[purpose] + Cardinality(Passes) - 1
  <2>1. Y \subseteq X
    BY <1>1, <1>a, <1>f, RecordStep DEF AllowedNow
  <2>2. Cardinality(Y) <= Cardinality(X) /\ Cardinality(T) <= Cardinality(Passes)
    BY <1>b, <1>c, <2>1, DispatcherAssumption, FS_Subset
  <2>3. Cardinality(X) < Limit[purpose]
    BY <1>1
  <2> QED
    BY <1>a, <1>d, <2>2, <2>3
<1>2. ASSUME \A q \in Passes : ~ AllowedNow(q, purpose)
      PROVE  Cardinality(Y) + Cardinality(T)
               <= Limit[purpose] + Cardinality(Passes) - 1
  <2>1. T \subseteq S
    BY <1>2, <1>b, OfferSteps
  <2>2. Cardinality(Y) + Cardinality(T) <= Cardinality(X) + Cardinality(S)
    <3>1. CASE Y \subseteq X
      BY <1>c, <2>1, <3>1, Counting
    <3>2. CASE ~ Y \subseteq X
      <4>1. PICK m \in Y \ X : TRUE
        BY <3>2
      <4>2. PICK p \in Passes : recordDelivery(p) /\ pass[p].id = m /\ p \in S
        BY <1>f, <4>1
      <4>3. Y \subseteq X \cup {m}
        BY <1>a, <1>f, <4>2, RecordStep
      <4>4. p \notin T
        BY <1>a, <4>2, RecordStep DEF Offering
      <4>5. T \subseteq S \ {p}
        BY <2>1, <4>4
      <4> QED
        BY <1>c, <4>2, <4>3, <4>5, Counting
    <3> QED
      BY <3>1, <3>2
  <2> QED
    BY <1>a, <1>d, <1>e, <2>2
<1> QED
  BY <1>1, <1>2

\* A message that comes to have a number, or to count when there are no
\* webhooks, has just been recorded.
LEMMA NewlyCounted ==
  ASSUME LimitInv, [Next]_vars, NEW purpose \in Purposes, NEW m \in Msgs
  PROVE  /\ m \in Numbered(purpose)' /\ m \notin Numbered(purpose) =>
              RecordedRow(m) /\ PurposeOf(m) = purpose
         /\ /\ m \in Delivered(purpose)' /\ m \notin Delivered(purpose)
            /\ processed' = {}
            => RecordedRow(m) /\ PurposeOf(m) = purpose
<1>a. OptOutInv /\ TypeInv
  BY DEF LimitInv, OptOutInv, DispatchInv
<1>b. /\ msg[m].st # "none" => origin[m] # NoKey
      /\ msg[m].pid => msg[m].st # "none"
  BY DEF LimitInv, RowsDrafted
<1>c. msg[m].st # "none" => PurposeOf(m)' = PurposeOf(m)
  BY <1>a, <1>b, OriginKept
<1>d. ASSUME NEW p \in Passes, commitDecision(p), pass[p].m = m
      PROVE  msg'[m].st = "SCHEDULED" /\ ~ msg'[m].pid
  BY <1>a, <1>d, DraftedRow
<1>1. ASSUME m \in Numbered(purpose)', m \notin Numbered(purpose)
      PROVE  RecordedRow(m) /\ PurposeOf(m) = purpose
  <2>1. msg'[m].pid /\ PurposeOf(m)' = purpose
    BY <1>1 DEF Numbered
  <2>2. ~ msg[m].pid
    BY <1>1, <1>b, <1>c, <2>1 DEF Numbered
  <2>3. RecordedRow(m)
    BY <1>a, <1>d, <2>1, <2>2, MessageSteps
       DEF RowWritten, RefusedRow, ReportedRow, NoMsg
  <2>4. msg[m].st # "none"
    BY <2>3 DEF RecordedRow
  <2> QED
    BY <1>c, <2>1, <2>3, <2>4
<1>2. ASSUME m \in Delivered(purpose)', m \notin Delivered(purpose), processed' = {}
      PROVE  RecordedRow(m) /\ PurposeOf(m) = purpose
  <2>1. msg'[m].st \in {"SENT", "DELIVERED"} /\ PurposeOf(m)' = purpose
    BY <1>2 DEF Delivered
  <2>2. msg[m].st \notin {"SENT", "DELIVERED"}
    BY <1>2, <1>c, <2>1 DEF Delivered
  <2>3. RecordedRow(m)
    BY <1>2, <1>a, <1>d, <2>1, <2>2, MessageSteps
       DEF RowWritten, RefusedRow, ReportedRow, NoMsg
  <2>4. msg[m].st # "none"
    BY <2>3 DEF RecordedRow
  <2> QED
    BY <1>c, <2>1, <2>3, <2>4
<1> QED
  BY <1>1, <1>2

\* Initially nothing is drafted and no pass is under way.
LEMMA LimitInit == Init => LimitInv
<1> SUFFICES ASSUME Init PROVE LimitInv
  OBVIOUS
<1>1. OptOutInv
  BY OptOutInit
<1>2. /\ \A m \in Msgs : msg[m] = NoMsg
      /\ \A c \in Clients : client[c] = NoRequest
      /\ \A p \in Passes : pass[p] = Idle
  BY DEF Init, TablesInit, ApiInit, DispatcherInit
<1>3. Idle.pc \notin Working
  BY BatchFields DEF Idle
<1>4. RowsDrafted /\ ReportsNumbered /\ NumberedFinal
  BY <1>2 DEF RowsDrafted, ReportsNumbered, NumberedFinal, NoMsg, NoRequest
<1>5. ASSUME NEW purpose \in Purposes
      PROVE  Within(purpose, Numbered(purpose)) /\ Within(purpose, Delivered(purpose))
  <2>1. Numbered(purpose) = {} /\ Delivered(purpose) = {}
    BY <1>2 DEF Numbered, Delivered, NoMsg
  <2>2. Offering(purpose) = {}
    BY <1>2, <1>3 DEF Offering, Working
  <2>3. Cardinality({}) = 0
    BY FS_EmptySet
  <2>4. Cardinality(Passes) \in Nat /\ Cardinality(Passes) # 0
    BY DispatcherAssumption, FS_CardinalityType, FS_EmptySet
  <2>5. Limit[purpose] \in Nat
    BY PolicyAssumption
  <2> QED
    BY <2>1, <2>2, <2>3, <2>4, <2>5 DEF Within
<1> QED
  BY <1>1, <1>4, <1>5 DEF LimitInv

\* Every step of the system keeps the bounds.
LEMMA LimitStep == LimitInv /\ [Next]_vars => LimitInv'
<1> SUFFICES ASSUME LimitInv, [Next]_vars PROVE LimitInv'
  OBVIOUS
<1>a. OptOutInv /\ TypeInv
  BY DEF LimitInv, OptOutInv, DispatchInv
<1>b. processed \subseteq processed' /\ overrun \subseteq overrun'
  BY <1>a, HistoryKept
<1>1. OptOutInv'
  BY <1>a, OptOutStep
<1>2. RowsDrafted' /\ ReportsNumbered' /\ NumberedFinal'
  BY RowsDraftedStep, ReportsNumberedStep, NumberedFinalStep
<1>3. ASSUME overrun' \cap Msgs = {}, NEW purpose \in Purposes
      PROVE  Within(purpose, Numbered(purpose))'
  <2>1. overrun \cap Msgs = {} /\ Within(purpose, Numbered(purpose))
    BY <1>b, <1>3 DEF LimitInv
  <2>2. ASSUME NEW p \in Passes, AllowedNow(p, purpose)
        PROVE  Cardinality(Numbered(purpose)) < Limit[purpose]
    <3>1. ~ Barred(purpose) /\ Cardinality(Delivered(purpose)) < Limit[purpose]
      BY <1>a, <2>2, AllowedBelow
    <3>2. Numbered(purpose) = Delivered(purpose)
      BY <2>1, <3>1
         DEF LimitInv, NumberedFinal, RowsDrafted, Reported, Numbered, Delivered
    <3> QED
      BY <3>1, <3>2
  <2>3. \A m \in Numbered(purpose)' \ Numbered(purpose) :
          RecordedRow(m) /\ PurposeOf(m) = purpose
    <3>1. Numbered(purpose)' \subseteq Msgs
      BY DEF Numbered
    <3> QED
      BY <3>1, NewlyCounted
  <2>4. Numbered(purpose) \in SUBSET Msgs /\ Numbered(purpose)' \in SUBSET Msgs
    BY DEF Numbered
  <2> QED
    BY <1>a, <2>1, <2>2, <2>3, <2>4, WithinStep DEF Within
<1>4. ASSUME processed' = {}, NEW purpose \in Purposes
      PROVE  Within(purpose, Delivered(purpose))'
  <2>1. Within(purpose, Delivered(purpose))
    BY <1>b, <1>4 DEF LimitInv
  <2>2. ASSUME NEW p \in Passes, AllowedNow(p, purpose)
        PROVE  Cardinality(Delivered(purpose)) < Limit[purpose]
    BY <1>a, <2>2, AllowedBelow
  <2>3. \A m \in Delivered(purpose)' \ Delivered(purpose) :
          RecordedRow(m) /\ PurposeOf(m) = purpose
    <3>1. Delivered(purpose)' \subseteq Msgs
      BY DEF Delivered
    <3> QED
      BY <1>4, <3>1, NewlyCounted
  <2>4. Delivered(purpose) \in SUBSET Msgs /\ Delivered(purpose)' \in SUBSET Msgs
    BY DEF Delivered
  <2> QED
    BY <1>a, <2>1, <2>2, <2>3, <2>4, WithinStep DEF Within
<1> QED
  BY <1>1, <1>2, <1>3, <1>4 DEF LimitInv

\* The frequency limit is overshot by at most one mail for every pass beyond
\* the first, for every number of passes and messages.
THEOREM SendLimitBoundedHolds == Spec => []SendLimitBounded
<1>1. ASSUME LimitInv PROVE SendLimitBounded
  <2> SUFFICES ASSUME overrun \cap Msgs = {} \/ processed = {},
                      NEW purpose \in Purposes
               PROVE  DeliveredCount(purpose)
                        <= Limit[purpose] + Cardinality(Passes) - 1
    BY DEF SendLimitBounded
  <2>1. DeliveredCount(purpose) = Cardinality(Delivered(purpose))
    BY DEF DeliveredCount, Delivered
  <2>2. Delivered(purpose) \subseteq Numbered(purpose)
    BY <1>1 DEF LimitInv, RowsDrafted, Delivered, Numbered
  <2>3. IsFiniteSet(Numbered(purpose)) /\ IsFiniteSet(Offering(purpose))
    BY TablesAssumption, DispatcherAssumption, FS_Subset DEF Numbered, Offering
  <2>4. Cardinality(Delivered(purpose)) <= Cardinality(Numbered(purpose))
    BY <2>2, <2>3, FS_Subset
  <2>5. /\ Cardinality(Delivered(purpose)) \in Nat
        /\ Cardinality(Numbered(purpose)) \in Nat
        /\ Cardinality(Offering(purpose)) \in Nat
        /\ Cardinality(Passes) \in Nat /\ Limit[purpose] \in Nat
    BY <2>2, <2>3, DispatcherAssumption, PolicyAssumption, FS_Subset,
       FS_CardinalityType
  <2>6. \/ Within(purpose, Numbered(purpose))
        \/ Within(purpose, Delivered(purpose))
    BY <1>1 DEF LimitInv
  <2> QED
    BY <2>1, <2>4, <2>5, <2>6 DEF Within
<1> QED
  BY <1>1, LimitInit, LimitStep, PTL DEF Spec

=============================================================================

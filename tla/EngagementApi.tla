----------------------------- MODULE EngagementApi -----------------------------
(***************************************************************************)
(* The operations of EngagementService                                     *)
(* (apps/api/src/modules/engagement/engagement.service.ts) that change the *)
(* lead's engagement state.                                                *)
(*                                                                         *)
(* An operation that decides on what it read before its transaction wrote  *)
(* is two steps of a client, a read and a commit, between which other      *)
(* clients and the dispatcher may act; the others are one step.            *)
(***************************************************************************)
EXTENDS EngagementTables

CONSTANTS
  Clients,  \* requests that may be in progress at once
  Ops,      \* bound: the operations a run lets clients call
  Replies   \* bound: the inbound replies of a run, as sets of intents

VARIABLES
  client,    \* the requests in progress
  processed  \* WebhookReceipt rows with processedAt set: <<message, type>>,
             \* a bound of one event of each type per message

apiVars == <<client, processed>>

Intents      == {"OPT_OUT", "MEETING", "HANDOFF", "CONFIRM", "DECLINE"}
WebhookTypes == {"DELIVERED", "BOUNCED", "OPENED"}
AllOps       == {"status", "inbound", "meeting", "public", "webhook",
                 "withdraw", "delete"}

ASSUME ApiAssumption ==
  /\ Ops \subseteq AllOps
  /\ Replies \subseteq SUBSET Intents

NoRequest == [op |-> "none"]

StatusRequest  == [op : {"status"}, target : RegStatuses]
InboundRequest == [op : {"inbound"}, reply : Replies, seen : RegStatuses]
PublicRequest  == [op : {"public"}, m : Msgs, action : TokenActions,
                   seen : RegStatuses]
WebhookRequest == [op : {"webhook"}, m : Msgs, type : WebhookTypes,
                   seen : MsgStatuses]

ApiTypeOK ==
  /\ client \in [Clients -> {NoRequest} \cup StatusRequest \cup InboundRequest
                              \cup PublicRequest \cup WebhookRequest]
  /\ processed \in SUBSET (Msgs \X WebhookTypes)

ApiInit ==
  /\ client = [c \in Clients |-> NoRequest]
  /\ processed = {}

Begin(c, request) ==
  /\ client[c] = NoRequest
  /\ request.op \in Ops
  /\ client' = [client EXCEPT ![c] = request]
  /\ UNCHANGED <<tableVars, processed>>

End(c) == client' = [client EXCEPT ![c] = NoRequest]

-----------------------------------------------------------------------------
(* updateRegistrationStatus *)

updateRegistrationStatusRead(c) ==
  \E target \in transitions[reg] :
    Begin(c, [op |-> "status", target |-> target])

\* The update names the registration by id alone: the status that was
\* checked may no longer be the row's.
updateRegistrationStatus(c) ==
  LET target == client[c].target
  IN /\ client[c].op = "status"
     /\ reg' = target
     /\ \/ target = "DECLINED" /\ stopCadence
        \/ target \in PostStatuses /\ schedulePostEvent(target)
        \/ target \notin PostStatuses \cup {"DECLINED"} /\ UNCHANGED cadenceVars
     /\ End(c)
     /\ UNCHANGED <<consent, suppressed, anonymized, meeting, mailVars, mailed,
                    clock, processed>>

-----------------------------------------------------------------------------
(* recordInbound *)

recordInboundRead(c) ==
  \E reply \in Replies :
    Begin(c, [op |-> "inbound", reply |-> reply, seen |-> reg])

\* Conversation.status after a reply.  A conversation the reply creates is
\* OPEN whatever it says.
ConversationAfter(reply) ==
  IF conv = "none"               THEN "OPEN"
  ELSE IF "OPT_OUT" \in reply    THEN "SUPPRESSED"
  ELSE IF "HANDOFF" \in reply    THEN "HANDOFF"
  ELSE IF "MEETING" \in reply    THEN "QUALIFIED"
  ELSE                                "OPEN"

\* The two updates run in this order on the status that was read before, so
\* a decline wins over a confirmation in the same reply.
StatusAfter(reply, seen) ==
  IF "DECLINE" \in reply /\ "DECLINED" \in transitions[seen]
  THEN "DECLINED"
  ELSE IF "CONFIRM" \in reply /\ "CONFIRMED" \in transitions[seen]
  THEN "CONFIRMED"
  ELSE reg

recordInbound(c) ==
  LET reply == client[c].reply
  IN /\ client[c].op = "inbound"
     /\ conv' = ConversationAfter(reply)
     /\ reg' = StatusAfter(reply, client[c].seen)
     /\ IF "OPT_OUT" \in reply
        THEN suppressLead("COMMERCIAL_FOLLOW_UP")
        ELSE UNCHANGED <<suppressed, consent>>
     /\ IF reply \cap {"OPT_OUT", "HANDOFF", "DECLINE"} # {}
        THEN stopCadence
        ELSE UNCHANGED cadenceVars
     /\ End(c)
     /\ UNCHANGED <<anonymized, meeting, msg, tokens, origin, mailed, clock,
                    processed>>

-----------------------------------------------------------------------------
(* consumePublicAction *)

\* A link reaches the lead in a mail the provider accepted.  The token and
\* the registration are read first, without a lock.
consumePublicActionRead(c) ==
  \E t \in DOMAIN tokens :
    /\ t[1] \in mailed /\ tokens[t] = "unused"
    /\ Begin(c, [op |-> "public", m |-> t[1], action |-> t[2], seen |-> reg])

\* The last update throws if the token row was deleted meanwhile, which rolls
\* the transaction back; it does not ask whether the token is still unused.
consumePublicAction(c) ==
  LET r == client[c]
      next == IF r.action = "CONFIRM" THEN "CONFIRMED" ELSE "DECLINED"
  IN /\ r.op = "public"
     /\ \/ /\ tokens[<<r.m, r.action>>] # "none"
           /\ reg' = IF /\ r.action # "UNSUBSCRIBE"
                        /\ next \in transitions[r.seen]
                     THEN next ELSE reg
           /\ IF r.action = "UNSUBSCRIBE"
              THEN suppressLead(PurposeOf(r.m))
              ELSE UNCHANGED <<suppressed, consent>>
           /\ IF r.action \in {"DECLINE", "UNSUBSCRIBE"}
              THEN stopCadence
              ELSE UNCHANGED cadenceVars
           /\ tokens' = [tokens EXCEPT ![<<r.m, r.action>>] = "consumed"]
        \/ /\ tokens[<<r.m, r.action>>] = "none"
           /\ UNCHANGED <<reg, suppressed, consent, cadenceVars, tokens>>
     /\ End(c)
     /\ UNCHANGED <<anonymized, meeting, conv, msg, origin, mailed, clock,
                    processed>>

-----------------------------------------------------------------------------
(* processEmailWebhook *)

\* Resend reports what became of a mail it accepted.  The row is found by the
\* provider's id once that is recorded; its status is read here.
processEmailWebhookRead(c) ==
  \E m \in mailed, type \in WebhookTypes :
    /\ msg[m].pid
    /\ Begin(c, [op |-> "webhook", m |-> m, type |-> type,
                 seen |-> msg[m].st])

\* Mutant: a delivery report lifts the suppression of an earlier bounce.
processEmailWebhook_Reactivates(c) ==
  LET r == client[c]
      status == IF r.type = "OPENED" THEN r.seen ELSE r.type
  IN /\ r.op = "webhook"
     /\ <<r.m, r.type>> \notin processed /\ msg[r.m].st # "none"
     /\ msg' = [msg EXCEPT ![r.m].st = status]
     /\ suppressed' = IF status = "BOUNCED"
                      THEN suppressed \cup {PurposeOf(r.m)}
                      ELSE suppressed \ {PurposeOf(r.m)}
     /\ processed' = processed \cup {<<r.m, r.type>>}
     /\ End(c)
     /\ UNCHANGED <<reg, consent, anonymized, meeting, cadenceVars, conv,
                    tokens, origin, mailed, clock>>

\* BOUNCED stands for COMPLAINED too, OPENED for every type that only writes
\* back the status read before the transaction.
processEmailWebhook(c) ==
  LET r == client[c]
      status == IF r.type = "OPENED" THEN r.seen ELSE r.type
  IN /\ r.op = "webhook"
     /\ \/ /\ <<r.m, r.type>> \notin processed /\ msg[r.m].st # "none"
           /\ msg' = [msg EXCEPT ![r.m].st = status]
           /\ suppressed' = IF status = "BOUNCED"
                            THEN suppressed \cup {PurposeOf(r.m)}
                            ELSE suppressed
           /\ processed' = processed \cup {<<r.m, r.type>>}
        \/ /\ <<r.m, r.type>> \in processed \/ msg[r.m].st = "none"
           /\ UNCHANGED <<msg, suppressed, processed>>
     /\ End(c)
     /\ UNCHANGED <<reg, consent, anonymized, meeting, cadenceVars, conv,
                    tokens, origin, mailed, clock>>

-----------------------------------------------------------------------------
(* bookMeeting, withdrawConsent, deleteLeadData *)

\* The slot is checked against other meetings; this lead's may be any slot.
bookMeeting ==
  /\ "meeting" \in Ops
  /\ meeting' = TRUE
  /\ stopCadence
  /\ UNCHANGED <<reg, consent, suppressed, anonymized, mailVars, mailed, clock,
                 apiVars>>

withdrawConsent ==
  /\ "withdraw" \in Ops
  /\ \E purpose \in Purposes : suppressLead(purpose)
  /\ stopCadence
  /\ UNCHANGED <<reg, anonymized, meeting, mailVars, mailed, clock, apiVars>>

\* Mutant: the consent records survive the deletion.
deleteLeadData_KeepsConsent ==
  /\ "delete" \in Ops
  /\ tokens' = NoTokens /\ conv' = "none" /\ msg' = [m \in Msgs |-> NoMsg]
  /\ suppressed' = {}
  /\ anonymized' = TRUE
  /\ UNCHANGED <<reg, consent, meeting, cadenceVars, origin, mailed, clock,
                 apiVars>>

\* Deleting the conversation deletes its messages.  Neither the enrollment
\* nor its actions are touched.
deleteLeadData ==
  /\ "delete" \in Ops
  /\ tokens' = NoTokens /\ conv' = "none" /\ msg' = [m \in Msgs |-> NoMsg]
  /\ consent' = [p \in Purposes |-> FALSE] /\ suppressed' = {}
  /\ anonymized' = TRUE
  /\ UNCHANGED <<reg, meeting, cadenceVars, origin, mailed, clock, apiVars>>

ClientStep(c) ==
  \/ updateRegistrationStatusRead(c) \/ updateRegistrationStatus(c)
  \/ recordInboundRead(c) \/ recordInbound(c)
  \/ consumePublicActionRead(c) \/ consumePublicAction(c)
  \/ processEmailWebhookRead(c) \/ processEmailWebhook(c)

ApiStep ==
  \/ \E c \in Clients : ClientStep(c)
  \/ bookMeeting \/ withdrawConsent \/ deleteLeadData
=============================================================================

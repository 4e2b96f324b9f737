----------------------------- MODULE EmailOutbox -----------------------------
(* The outbox of wholesale e-mail (lib/wholesale/email-outbox.ts) and the job   *)
(* that empties it, which runs inside SyncRunner: runs may overlap once one has *)
(* used up its thirty minutes. A person approves a text; a tick reads the mails *)
(* that are due, asks the policy about each of them as it was read, claims it,  *)
(* hands it to the provider and writes down what came of it.                    *)
(*                                                                              *)
(* The mails are of one lead and have a key of their own each. Which mails are  *)
(* due (schedule, back-off, batch size) is a choice of the tick; the settings    *)
(* are the set of the stops in force (mode OFF, pause of the organization, of a  *)
(* campaign or domain). Quotas, consent, addresses, follow-up threads, events    *)
(* and the history of the lead are left out.                                     *)
EXTENDS SyncRunner, FiniteSets

CONSTANTS
  Mails,
  People,        \* slots for requests of people
  Stops,
  MaxAttempts,   \* EMAIL_MAX_ATTEMPTS
  MaxTexts, MaxApprovals, MaxChanges   \* bound the instance

ASSUME OutboxAssumption ==
  /\ IsFiniteSet(Mails)
  /\ MaxTexts \in Nat \ {0} /\ MaxAttempts \in Nat \ {0}
  /\ None \notin 1..MaxTexts

VARIABLES
  mail,       \* row of wholesale_email_outbox
  settings,   \* the stops in force
  lead,       \* "open", "stopped" (the event is recorded), "silent" (and its mails cancelled)
  tick,       \* slot -> what the tick of this execution holds
  request,    \* slot -> the request it serves
  approved,   \* history: mail -> the texts it was approved with, one per approval
  sent,       \* history: mail -> [text, approval] of what went out
  doubts,     \* history: mail -> how often it went out and an error was seen
  changes     \* history: how often the settings were changed

histories == <<approved, sent, doubts, changes>>
outbox == <<mail, settings, lead, tick, request>>
vars == <<runner, outbox, histories>>

NoTick == [pc |-> "none"]
NoRequest == [op |-> "none"]

-----------------------------------------------------------------------------
(* People.                                                                   *)

Cancellable == {"DRAFT", "APPROVED", "QUEUED"}

Put(m, row) == mail' = [mail EXCEPT ![m] = row]
ByPerson == UNCHANGED <<runner, settings, lead, tick, sent, doubts, changes>>

\* A changed text, the next number, loses the approval.
Edit(m) ==
  /\ mail[m].status \in {"DRAFT", "APPROVED"}
  /\ mail[m].text < MaxTexts
  /\ Put(m, [mail[m] EXCEPT !.status = "DRAFT", !.text = @ + 1, !.hash = None])
  /\ UNCHANGED <<request, approved>> /\ ByPerson

\* approveEmailCore: the hash is of the text that was read.
BeginApprove(p, m) ==
  /\ request[p] = NoRequest
  /\ mail[m].status = "DRAFT"
  /\ Len(approved[m]) < MaxApprovals
  /\ request' = [request EXCEPT ![p] = [op |-> "approve", mail |-> m, text |-> mail[m].text]]
  /\ UNCHANGED <<mail, approved>> /\ ByPerson

Approve(p, queue) ==
  /\ request[p].op = "approve"
  /\ LET m == request[p].mail
     IN IF mail[m].status = "DRAFT"
        THEN /\ Put(m, [mail[m] EXCEPT !.status = IF queue THEN "QUEUED" ELSE "APPROVED",
                                       !.hash = request[p].text, !.used = FALSE])
             /\ approved' = [approved EXCEPT ![m] = Append(@, request[p].text)]
        ELSE UNCHANGED <<mail, approved>>
  /\ request' = [request EXCEPT ![p] = NoRequest]
  /\ ByPerson

Queue(m) ==
  /\ mail[m].status = "APPROVED"
  /\ Put(m, [mail[m] EXCEPT !.status = "QUEUED"])
  /\ UNCHANGED <<request, approved>> /\ ByPerson

Cancel(m) ==
  /\ mail[m].status \in Cancellable
  /\ Put(m, [mail[m] EXCEPT !.status = "CANCELLED"])
  /\ UNCHANGED <<request, approved>> /\ ByPerson

Reopen(m) ==
  /\ mail[m].status \in {"BLOCKED", "FAILED"}
  /\ Put(m, [mail[m] EXCEPT !.status = "DRAFT", !.hash = None, !.used = FALSE, !.attempts = 0])
  /\ UNCHANGED <<request, approved>> /\ ByPerson

\* saveEmailSettingsCore and setEmailPauseCore: the whole record is read, changed
\* and written back. A save of the form changes no stop but the mode.
ReadSettings(p, set, clear) ==
  /\ request[p] = NoRequest
  /\ changes < MaxChanges
  /\ request' = [request EXCEPT ![p] = [op |-> "settings", next |-> (settings \cup set) \ clear]]
  /\ UNCHANGED <<runner, mail, settings, lead, tick, histories>>

WriteSettings(p) ==
  /\ request[p].op = "settings"
  /\ settings' = request[p].next
  /\ changes' = IF settings' = settings THEN changes ELSE changes + 1
  /\ request' = [request EXCEPT ![p] = NoRequest]
  /\ UNCHANGED <<runner, mail, lead, tick, approved, sent, doubts>>

\* The lead answers or unsubscribes: what the policy asks about is recorded ...
LeadStops ==
  /\ lead = "open"
  /\ lead' = "stopped"
  /\ UNCHANGED <<runner, mail, settings, tick, request, histories>>

\* ... and stopPendingEmails cancels what has not been claimed; it may never come
\* to that.
StopPending ==
  /\ lead = "stopped"
  /\ lead' = "silent"
  /\ mail' = [m \in Mails |-> IF mail[m].status \in Cancellable
                              THEN [mail[m] EXCEPT !.status = "CANCELLED"] ELSE mail[m]]
  /\ UNCHANGED <<runner, settings, tick, request, histories>>

-----------------------------------------------------------------------------
(* The tick.                                                                 *)

Step(e, t) == tick' = [tick EXCEPT ![e] = t]
In(e, pc) == tick[e].pc = pc
ByTick == UNCHANGED <<runner, settings, lead, request, approved, changes>>

\* The tick with its next mail to look at, or at its end.
NextMail(e, left) ==
  IF left = << >> THEN Step(e, [pc |-> "end"])
  ELSE Step(e, [tick[e] EXCEPT !.pc = "judge", !.left = left])

\* The settings are read once for the whole tick ...
ReadStops(e) ==
  /\ AtWork(e) /\ In(e, "none")
  /\ Step(e, IF "OFF" \in settings THEN [pc |-> "end"] ELSE [pc |-> "due", stops |-> settings])
  /\ UNCHANGED <<mail, sent, doubts>> /\ ByTick

\* ... and then, in a second query, the mails that are due as they are now.
ReadDue(e) ==
  /\ In(e, "due")
  /\ \E due \in SUBSET {m \in Mails : mail[m].status = "QUEUED"} :
       IF due = {} THEN Step(e, [pc |-> "end"])
       ELSE \E order \in [1..Cardinality(due) -> due] :
              /\ \A m \in due : \E i \in DOMAIN order : order[i] = m
              /\ Step(e, [pc |-> "judge", stops |-> tick[e].stops, began |-> lead,
                          left |-> [i \in DOMAIN order |-> <<order[i], mail[order[i]]>>]])
  /\ UNCHANGED <<mail, sent, doubts>> /\ ByTick

Rest(e) == Tail(tick[e].left)
Current(e) == Head(tick[e].left)[1]
Snapshot(e) == Head(tick[e].left)[2]

\* What the policy demands of a mail's approval.
\* Mutant: that there is one.
IsApproved(row) == row.hash # None
ApprovalHolds(row) == row.hash = row.text /\ ~row.used

\* What the policy demands of the lead.
\* Mutant: nothing but what stopPendingEmails sees to.
MailsAreCancelled == TRUE
LeadIsOpen == lead = "open"

\* evaluateEmailSend on the mail as it was read: a stop that was in force when the
\* tick began holds it in the queue, anything else that is missing blocks it.
Judge(e) ==
  /\ In(e, "judge")
  /\ LET fit == ApprovalHolds(Snapshot(e)) /\ LeadIsOpen
     IN IF ~fit THEN Step(e, [tick[e] EXCEPT !.pc = "block"])
        ELSE IF tick[e].stops # {} THEN NextMail(e, Rest(e))
        ELSE Step(e, [tick[e] EXCEPT !.pc = "claim"])
  /\ UNCHANGED <<mail, sent, doubts>> /\ ByTick

Block(e) ==
  /\ In(e, "block")
  /\ LET m == Current(e)
     IN IF mail[m].status = "QUEUED"
        THEN Put(m, [mail[m] EXCEPT !.status = "BLOCKED", !.used = TRUE]) ELSE UNCHANGED mail
  /\ NextMail(e, Rest(e))
  /\ UNCHANGED <<sent, doubts>> /\ ByTick

\* The condition of the claim, QUEUED -> SENDING.
\* Mutant: what the tick has read is not asked again.
AsRead(m) == mail[m].status # "CANCELLED"
Claimable(m) == mail[m].status = "QUEUED"

Claim(e) ==
  /\ In(e, "claim")
  /\ LET m == Current(e)
     IN IF Claimable(m)
        THEN /\ Put(m, [mail[m] EXCEPT !.status = "SENDING", !.attempts = @ + 1])
             /\ Step(e, [tick[e] EXCEPT !.pc = "send"])
        ELSE /\ NextMail(e, Rest(e))
             /\ UNCHANGED mail
  /\ UNCHANGED <<sent, doubts>> /\ ByTick

Out(m, text) ==
  sent' = [sent EXCEPT ![m] = Append(@, [text |-> text, approval |-> Len(approved[m])])]

\* The provider (and what is done before it is called): the mail goes out or not,
\* and the answer is of success, of a failure that may pass, or of one for good.
\* A failure that may pass says nothing of whether the mail went out.
Send(e, out, answer) ==
  /\ In(e, "send")
  /\ answer = "ok" => out
  /\ answer = "permanent" => ~out
  /\ IF out THEN Out(Current(e), Snapshot(e).text) ELSE UNCHANGED sent
  /\ doubts' = IF out /\ answer = "transient" THEN [doubts EXCEPT ![Current(e)] = @ + 1] ELSE doubts
  /\ Step(e, [tick[e] EXCEPT !.pc = answer])
  /\ UNCHANGED mail /\ ByTick

\* What is written of a mail that went out.
Delivered(row) == [row EXCEPT !.status = "SENT", !.used = TRUE]

\* The answer is written down, if the mail is still SENDING. The error of a write
\* after the mail went out is caught with the errors of the provider.
WriteSent(e, written) ==
  /\ In(e, "ok")
  /\ LET m == Current(e)
     IN IF written
        THEN /\ IF mail[m].status = "SENDING"
                THEN Put(m, Delivered(mail[m])) ELSE UNCHANGED mail
             /\ NextMail(e, Rest(e))
             /\ UNCHANGED doubts
        ELSE /\ Step(e, [tick[e] EXCEPT !.pc = "transient"])
             /\ doubts' = [doubts EXCEPT ![m] = @ + 1]
             /\ UNCHANGED mail
  /\ UNCHANGED sent /\ ByTick

\* Back into the queue, or FAILED once the attempts are used up. An error of the
\* login ends the tick.
WriteError(e, stopBatch) ==
  /\ tick[e].pc \in {"transient", "permanent"}
  /\ LET m == Current(e)
         again == In(e, "transient") /\ mail[m].attempts < MaxAttempts
     IN /\ IF mail[m].status # "SENDING" THEN UNCHANGED mail
           ELSE IF again THEN Put(m, [mail[m] EXCEPT !.status = "QUEUED"])
           ELSE Put(m, [mail[m] EXCEPT !.status = "FAILED", !.used = TRUE])
        /\ stopBatch => again
  /\ NextMail(e, IF stopBatch THEN << >> ELSE Rest(e))
  /\ UNCHANGED <<sent, doubts>> /\ ByTick

\* A statement outside the try fails, or the provider is not one for the mode: the
\* tick is over, the mail stays as it is.
Abort(e) ==
  /\ tick[e].pc \in {"due", "judge", "block", "claim", "transient", "permanent"}
  /\ Step(e, [pc |-> "failed"])
  /\ UNCHANGED <<mail, sent, doubts>> /\ ByTick

TickStep(e) ==
  \/ ReadStops(e)
  \/ ReadDue(e)
  \/ Judge(e)
  \/ Block(e)
  \/ Claim(e)
  \/ \E out \in BOOLEAN, answer \in {"ok", "transient", "permanent"} : Send(e, out, answer)
  \/ \E written \in BOOLEAN : WriteSent(e, written)
  \/ \E stopBatch \in BOOLEAN : WriteError(e, stopBatch)
  \/ Abort(e)

-----------------------------------------------------------------------------
(* The job: runner and tick together.                                        *)

Init ==
  /\ RunnerInit
  /\ mail = [m \in Mails |-> [status |-> "DRAFT", text |-> 1, hash |-> None,
                              used |-> FALSE, attempts |-> 0]]
  /\ settings = {}
  /\ lead = "open"
  /\ tick = [e \in Slots |-> NoTick]
  /\ request = [p \in People |-> NoRequest]
  /\ approved = [m \in Mails |-> << >>]
  /\ sent = [m \in Mails |-> << >>]
  /\ doubts = [m \in Mails |-> 0]
  /\ changes = 0

\* What may be written of a tick: one that failed has FAILED, and so has one whose
\* success could not be written.
Outcomes(pc) == IF pc = "end" THEN {"SUCCESS", "FAILED"} ELSE {"FAILED"}

\* The tick is over, and its execution with it.
TickEnds(e) ==
  /\ tick[e].pc \in {"end", "failed"}
  /\ \E outcome \in Outcomes(tick[e].pc), written \in BOOLEAN : Finish(e, outcome, written)
  /\ Step(e, NoTick)
  /\ UNCHANGED <<mail, settings, lead, request, histories>>

Crash ==
  /\ \E e \in Slots : exec[e] # Unused
  /\ Restart
  /\ tick' = [e \in Slots |-> NoTick]
  /\ request' = [p \in People |-> NoRequest]
  /\ UNCHANGED <<mail, settings, lead, histories>>

Next ==
  \/ (RunnerStep \/ \E e \in Slots : Insert(e)) /\ UNCHANGED <<outbox, histories>>
  \/ \E e \in Slots : TickStep(e) \/ TickEnds(e)
  \/ Crash
  \/ \E m \in Mails : Queue(m) \/ Cancel(m) \/ Reopen(m) \/ Edit(m)
  \/ \E p \in People :
       \/ \E m \in Mails : BeginApprove(p, m)
       \/ \E queue \in BOOLEAN : Approve(p, queue)
       \/ \E s \in Stops : ReadSettings(p, {s}, {}) \/ ReadSettings(p, {}, {s})
       \/ ReadSettings(p, {}, {})
       \/ WriteSettings(p)
  \/ LeadStops
  \/ StopPending

Spec == Init /\ [][Next]_vars

-----------------------------------------------------------------------------

Statuses == Cancellable \cup {"SENDING", "SENT", "FAILED", "CANCELLED", "BLOCKED"}

\* Every variable has its type, and a mail that is SENT has used its approval and
\* is not tried more often than EMAIL_MAX_ATTEMPTS says.
TypeOK ==
  /\ RunnerTypeOK
  /\ mail \in [Mails -> [status : Statuses, text : 1..MaxTexts, hash : (1..MaxTexts) \cup {None},
                         used : BOOLEAN, attempts : 0..MaxAttempts]]
  /\ \A m \in Mails : mail[m].status = "SENT" => mail[m].used
  /\ settings \subseteq Stops
  /\ lead \in {"open", "stopped", "silent"}
  /\ \A e \in Slots : tick[e] # NoTick => AtWork(e)

\* However runs overlap and whenever the process dies, an approval sends its mail
\* once, but for the times an error was seen after the mail had gone out.
OneSendPerApproval ==
  /\ TypeOK
  /\ \A m \in Mails : \A n \in 1..Len(approved[m]) :
       Cardinality({i \in DOMAIN sent[m] : sent[m][i].approval = n}) <= 1 + doubts[m]

\* Nothing goes out that no person has approved word for word, even if the text is
\* edited while somebody is approving it.
OnlyApprovedText ==
  \A m \in Mails : \A i \in DOMAIN sent[m] : 
    \E n \in DOMAIN approved[m] : approved[m][n] = sent[m][i].text

\* No run that reads its mails after a lead's mails were stopped hands one of them to the
\* provider, even if it was being sent at that moment and put back into the queue,
\* or is reopened and approved again.
SilenceHolds ==
  [][\A e \in Slots : ~(In(e, "claim") /\ tick'[e].pc = "send" /\ tick[e].began = "silent")]_tick

\* What the policy asks about is read when it asks (emailPolicyInputFor), so that
\* whoever sees something go wrong can stop it at once (setEmailPauseCore): no mail
\* is let through while a stop is in force.
PolicySeesStops ==
  [][\A e \in Slots : settings # {} => ~(In(e, "judge") /\ tick'[e].pc = "claim")]_tick
=============================================================================

------------------------------ MODULE WorkflowMessages ------------------------------
(***************************************************************************)
(* Corporate actions and penalty statements: workflows/corporate_actions.py*)
(* and workflows/penalties.py over the table of                            *)
(* persistence/workflow_messages.py.  A message is never changed once      *)
(* saved; a request checks references and its related messages, composes,  *)
(* and saves in a transaction of its own, with nothing locked in between.  *)
(***************************************************************************)
EXTENDS Naturals, FiniteSets

CONSTANTS
    Workflows,  \* workflow ids
    Names,      \* references that callers choose from
    Senders,    \* requests that can be in progress at once
    Eligible,   \* the eligible quantity of every notification
    MaxSaved    \* bound on the messages saved

ASSUME WorkflowBounds == Eligible \in Nat /\ MaxSaved \in Nat

VARIABLES
    saved,      \* the messages, in the order in which they were saved
    sender,     \* the message that each request is about to save
    crossed     \* whether two requests were ever in progress at once

workflowVars == <<saved, sender, crossed>>

Opening == {"notification", "statement"}
OfNotification == {"instruction", "narrative"}
OfInstruction == {"status", "confirmation"}
Options == {"cash", "securities"}

Entry == [kind : Opening \cup OfNotification \cup OfInstruction, workflow : Workflows,
          ref : Names, event : Names, related : 0 .. MaxSaved,
          option : Options, quantity : 0 .. Eligible]
NoEntry == [kind |-> "none"]

WorkflowTypeOK ==
    /\ \E n \in 0 .. MaxSaved : saved \in [1 .. n -> Entry]
    /\ sender \in [Senders -> Entry \cup {NoEntry}]
    /\ crossed \in BOOLEAN

WorkflowInit ==
    /\ saved = [i \in 1 .. 0 |-> NoEntry]
    /\ sender = [q \in Senders |-> NoEntry]
    /\ crossed = FALSE

--------------------------------------------------------------------------------
\* reference_exists: the statements' references, the event reference that every
\* message of an event repeats, and the reference of the instruction that a status or
\* a confirmation repeats; the messages' own references are not among them
FaultForgetsAnswers(name) ==
    \E m \in DOMAIN saved :
        IF saved[m].kind = "statement" THEN saved[m].ref = name ELSE saved[m].event = name
NameExists(name) ==
    \E m \in DOMAIN saved :
        \/ saved[m].kind = "statement" /\ saved[m].ref = name
        \/ saved[m].kind # "statement" /\ saved[m].event = name
        \/ saved[m].kind \in OfInstruction /\ saved[saved[m].related].ref = name

\* _notification_context
FaultAnyWorkflow(m, workflow) == m \in DOMAIN saved /\ saved[m].kind = "notification"
IsNotificationOf(m, workflow) ==
    m \in DOMAIN saved /\ saved[m].kind = "notification" /\ saved[m].workflow = workflow

\* _instruction_context: the workflow is that of the instruction's notification
IsInstructionOf(m, workflow) ==
    m \in DOMAIN saved /\ saved[m].kind = "instruction"
    /\ IsNotificationOf(saved[m].related, workflow)

IsFree(q) == sender[q] = NoEntry
Prepares(q, entry) ==
    /\ sender' = [sender EXCEPT ![q] = entry]
    /\ crossed' = (crossed \/ \E p \in Senders : ~IsFree(p))
    /\ UNCHANGED saved

--------------------------------------------------------------------------------
\* PenaltyWorkflowService.generate
FaultStatementUnchecked(name) == TRUE
MayState(name) == ~NameExists(name)
Statement(q, workflow, name) ==
    /\ MayState(name)
    /\ Prepares(q, [kind |-> "statement", workflow |-> workflow, ref |-> name, event |-> name,
                    related |-> 0, option |-> "cash", quantity |-> 0])

Notification(q, workflow, name, event) ==
    /\ ~NameExists(event) /\ ~NameExists(name)
    /\ Prepares(q, [kind |-> "notification", workflow |-> workflow, ref |-> name, event |-> event,
                    related |-> 0, option |-> "cash", quantity |-> Eligible])

\* instruction: an option, and at most the eligible quantity
Instruction(q, n, workflow, name, option, quantity) ==
    /\ IsNotificationOf(n, workflow) /\ ~NameExists(name)
    /\ quantity <= saved[n].quantity
    /\ Prepares(q, [kind |-> "instruction", workflow |-> workflow, ref |-> name,
                    event |-> saved[n].event, related |-> n,
                    option |-> option, quantity |-> quantity])

Narrative(q, n, workflow, name) ==
    /\ IsNotificationOf(n, workflow) /\ ~NameExists(name)
    /\ Prepares(q, [saved[n] EXCEPT !.kind = "narrative", !.ref = name, !.related = n])

Status(q, i, workflow, name) ==
    /\ IsInstructionOf(i, workflow) /\ ~NameExists(name)
    /\ Prepares(q, [saved[i] EXCEPT !.kind = "status", !.workflow = workflow, !.ref = name,
                    !.event = saved[saved[i].related].event, !.related = i])

\* confirmation: only of the cash option, and at most the instructed quantity
Confirmation(q, i, workflow, name, quantity) ==
    /\ IsInstructionOf(i, workflow) /\ ~NameExists(name)
    /\ saved[i].option = "cash" /\ quantity <= saved[i].quantity
    /\ Prepares(q, [saved[i] EXCEPT !.kind = "confirmation", !.workflow = workflow, !.ref = name,
                    !.event = saved[saved[i].related].event, !.related = i, !.quantity = quantity])

SaveMessage(q) ==
    LET n == Cardinality(DOMAIN saved) + 1 IN
    /\ ~IsFree(q) /\ n <= MaxSaved
    /\ saved' = [i \in 1 .. n |-> IF i = n THEN sender[q] ELSE saved[i]]
    /\ sender' = [sender EXCEPT ![q] = NoEntry]
    /\ UNCHANGED crossed

\* the composer refuses, the profile does not enable the message, or a crash
GivesUp(q) ==
    /\ ~IsFree(q)
    /\ sender' = [sender EXCEPT ![q] = NoEntry]
    /\ UNCHANGED <<saved, crossed>>

WorkflowNext ==
    \E q \in Senders :
        \/ /\ IsFree(q)
           /\ \E workflow \in Workflows, name \in Names :
              \/ Statement(q, workflow, name)
              \/ \E event \in Names : Notification(q, workflow, name, event)
              \/ \E m \in DOMAIN saved :
                    \/ \E option \in Options, quantity \in 1 .. Eligible :
                          Instruction(q, m, workflow, name, option, quantity)
                    \/ Narrative(q, m, workflow, name)
                    \/ Status(q, m, workflow, name)
                    \/ \E quantity \in 1 .. Eligible : Confirmation(q, m, workflow, name, quantity)
        \/ SaveMessage(q) \/ GivesUp(q)

WorkflowSpec == WorkflowInit /\ [][WorkflowNext]_workflowVars

--------------------------------------------------------------------------------
NotificationOf(m) ==
    CASE saved[m].kind = "notification" -> m
      [] saved[m].kind \in OfNotification -> saved[m].related
      [] saved[m].kind \in OfInstruction -> saved[saved[m].related].related

\* However requests interleave, every message of an event is in the workflow of its
\* notification, repeats its event reference, and moves no more than was eligible
\* there (_notification_context, _instruction_context).
ChainsAreOfOneEvent ==
    \A m \in DOMAIN saved :
        saved[m].kind # "statement" =>
            LET n == NotificationOf(m) IN
            /\ saved[n].kind = "notification"
            /\ saved[m].workflow = saved[n].workflow
            /\ saved[m].event = saved[n].event
            /\ saved[m].quantity <= saved[n].quantity

\* As long as requests do not overlap, the reference of a statement or of an event
\* belongs to one statement or one event (reference_exists).
EventsAndStatementsAreDistinct ==
    ~crossed =>
        \A m, n \in DOMAIN saved :
            /\ {saved[m].kind, saved[n].kind} \subseteq Opening
            /\ saved[m].event = saved[n].event
            => m = n

\* As long as requests do not overlap, the reference of an instruction is not given to
\* a message saved after its first status or confirmation, although it may be given to
\* any message saved before that (reference_exists knows it from the answers only).
AnsweredReferencesAreTaken ==
    ~crossed =>
        \A a, m \in DOMAIN saved :
            saved[a].kind \in OfInstruction /\ a < m
                => saved[m].ref # saved[saved[a].related].ref

================================================================================

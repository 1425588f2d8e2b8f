---------------------------- MODULE Workflows_proofs ----------------------------
(* Theorems about the messages of the workflow engine, and about cancelling and      *)
(* rebooking them, for every set of workflows, references and requests.              *)
EXTENDS WorkflowMessages, SettlementAmendment, TLAPS, FiniteSetTheorems

--------------------------------------------------------------------------------
(***************************************************************************)
(* Workflow messages, for every quantity.                                  *)
(***************************************************************************)
\* How many messages are saved is the number of the last one.
LEMMA SavedCount ==
    ASSUME NEW n \in Nat, DOMAIN saved = 1 .. n
    PROVE  Cardinality(DOMAIN saved) = n
  BY FS_Interval

\* The types, with the number of messages named.
LEMMA SavedShape ==
    ASSUME WorkflowTypeOK
    PROVE  /\ Cardinality(DOMAIN saved) \in 0 .. MaxSaved
           /\ saved \in [1 .. Cardinality(DOMAIN saved) -> Entry]
<1>1. PICK n \in 0 .. MaxSaved : saved \in [1 .. n -> Entry]
  BY DEF WorkflowTypeOK
<1>2. n \in Nat
  BY WorkflowBounds
<1> QED
  BY <1>1, <1>2, SavedCount

\* A saved message has the type of one, and a number within the bound.
LEMMA EntryOf ==
    ASSUME WorkflowTypeOK, NEW m \in DOMAIN saved
    PROVE  saved[m] \in Entry /\ m \in 0 .. MaxSaved /\ m \in Nat
<1>1. PICK n \in 0 .. MaxSaved : saved \in [1 .. n -> Entry]
  BY DEF WorkflowTypeOK
<1>2. n \in Nat /\ MaxSaved \in Nat
  BY WorkflowBounds
<1> QED
  BY <1>1, <1>2

\* What is about to be saved, when there is something, has the type of a message.
LEMMA Carried ==
    ASSUME WorkflowTypeOK, NEW q \in Senders, ~IsFree(q)
    PROVE  sender[q] \in Entry
  BY DEF WorkflowTypeOK, IsFree

LEMMA WorkflowInitType == WorkflowInit => WorkflowTypeOK
<1> SUFFICES ASSUME WorkflowInit PROVE WorkflowTypeOK
  OBVIOUS
<1>1. saved \in [1 .. 0 -> Entry] /\ 0 \in 0 .. MaxSaved
  BY WorkflowBounds DEF WorkflowInit
<1> QED
  BY <1>1 DEF WorkflowInit, WorkflowTypeOK

--------------------------------------------------------------------------------
(***************************************************************************)
(* What the messages of one event have in common.                          *)
(***************************************************************************)

\* e is in the workflow of notification n, of its event, and within its quantity
Answers(e, n) ==
    /\ n \in DOMAIN saved /\ saved[n].kind = "notification"
    /\ e.workflow = saved[n].workflow
    /\ e.event = saved[n].event
    /\ e.quantity <= saved[n].quantity

\* e stands in a chain that begins with a notification, at most two messages above
Chained(e) ==
    /\ e.kind \in OfNotification => Answers(e, e.related)
    /\ e.kind \in OfInstruction =>
          /\ e.related \in DOMAIN saved /\ saved[e.related].kind = "instruction"
          /\ Answers(e, saved[e.related].related)
    /\ e.kind = "statement" => e.ref = e.event

ChainInv ==
    /\ WorkflowTypeOK
    /\ \A m \in DOMAIN saved : Chained(saved[m])
    /\ \A q \in Senders : ~IsFree(q) => Chained(sender[q])

\* Preparing a chained message keeps the invariant: nothing is saved yet.
LEMMA PreparesChained ==
    ASSUME ChainInv, NEW q \in Senders, NEW e \in Entry, Chained(e), Prepares(q, e)
    PROVE  ChainInv'
<1>1. sender' \in [Senders -> Entry \cup {NoEntry}] /\ saved' = saved /\ crossed' \in BOOLEAN
  BY DEF Prepares, ChainInv, WorkflowTypeOK
<1>2. WorkflowTypeOK'
  BY <1>1 DEF ChainInv, WorkflowTypeOK
<1>3. \A m \in DOMAIN saved' : Chained(saved[m])'
  BY <1>1 DEF ChainInv, Chained, Answers
<1>4. ASSUME NEW p \in Senders, ~IsFree(p)'
      PROVE  Chained(sender[p])'
  <2>1. sender'[p] = IF p = q THEN e ELSE sender[p]
    BY DEF Prepares, ChainInv, WorkflowTypeOK
  <2>2. Chained(sender'[p])
    BY <1>4, <2>1 DEF ChainInv, IsFree
  <2> QED
    BY <1>1, <2>2 DEF Chained, Answers
<1> QED
  BY <1>2, <1>3, <1>4 DEF ChainInv

\* An instruction's message is of the notification that the instruction names.
LEMMA InstructionChain ==
    ASSUME ChainInv, NEW i, NEW workflow, IsInstructionOf(i, workflow)
    PROVE  /\ i \in DOMAIN saved /\ saved[i] \in Entry /\ saved[i].kind = "instruction"
           /\ Answers(saved[i], saved[i].related)
           /\ saved[saved[i].related].workflow = workflow
<1>1. i \in DOMAIN saved /\ saved[i].kind = "instruction"
  BY DEF IsInstructionOf
<1>2. Chained(saved[i]) /\ saved[i] \in Entry
  BY <1>1, EntryOf DEF ChainInv
<1>3. Answers(saved[i], saved[i].related)
  BY <1>1, <1>2 DEF Chained, OfNotification
<1> QED
  BY <1>1, <1>2, <1>3 DEF IsInstructionOf, IsNotificationOf

LEMMA StatementKeepsChains ==
    ASSUME ChainInv, NEW q \in Senders, NEW workflow \in Workflows, NEW name \in Names,
           Statement(q, workflow, name)
    PROVE  ChainInv'
<1> DEFINE e == [kind |-> "statement", workflow |-> workflow, ref |-> name, event |-> name,
                 related |-> 0, option |-> "cash", quantity |-> 0]
<1>1. e \in Entry
  BY WorkflowBounds DEF Entry, Opening, Options
<1>2. Chained(e)
  BY DEF Chained, OfNotification, OfInstruction
<1>3. Prepares(q, e)
  BY DEF Statement
<1> HIDE DEF e
<1> QED
  BY <1>1, <1>2, <1>3, PreparesChained

LEMMA NotificationKeepsChains ==
    ASSUME ChainInv, NEW q \in Senders, NEW workflow \in Workflows, NEW name \in Names,
           NEW event \in Names, Notification(q, workflow, name, event)
    PROVE  ChainInv'
<1> DEFINE e == [kind |-> "notification", workflow |-> workflow, ref |-> name,
                 event |-> event, related |-> 0, option |-> "cash", quantity |-> Eligible]
<1>1. e \in Entry
  BY WorkflowBounds DEF Entry, Opening, Options
<1>2. Chained(e)
  BY DEF Chained, OfNotification, OfInstruction
<1>3. Prepares(q, e)
  BY DEF Notification
<1> HIDE DEF e
<1> QED
  BY <1>1, <1>2, <1>3, PreparesChained

LEMMA InstructionKeepsChains ==
    ASSUME ChainInv, NEW q \in Senders, NEW n \in DOMAIN saved, NEW workflow \in Workflows,
           NEW name \in Names, NEW option \in Options, NEW quantity \in 1 .. Eligible,
           Instruction(q, n, workflow, name, option, quantity)
    PROVE  ChainInv'
<1> DEFINE e == [kind |-> "instruction", workflow |-> workflow, ref |-> name,
                 event |-> saved[n].event, related |-> n,
                 option |-> option, quantity |-> quantity]
<1>1. saved[n] \in Entry /\ n \in 0 .. MaxSaved
  BY EntryOf DEF ChainInv
<1>2. e \in Entry
  BY <1>1, WorkflowBounds DEF Entry, OfNotification
<1>3. Chained(e)
  BY DEF Instruction, IsNotificationOf, Chained, Answers, OfNotification, OfInstruction
<1>4. Prepares(q, e)
  BY DEF Instruction
<1> HIDE DEF e
<1> QED
  BY <1>2, <1>3, <1>4, PreparesChained

LEMMA NarrativeKeepsChains ==
    ASSUME ChainInv, NEW q \in Senders, NEW n \in DOMAIN saved, NEW workflow \in Workflows,
           NEW name \in Names, Narrative(q, n, workflow, name)
    PROVE  ChainInv'
<1> DEFINE e == [saved[n] EXCEPT !.kind = "narrative", !.ref = name, !.related = n]
<1>1. saved[n] \in Entry /\ n \in 0 .. MaxSaved
  BY EntryOf DEF ChainInv
<1>2. e \in Entry
  BY <1>1 DEF Entry, OfNotification
<1>3. /\ e.kind = "narrative" /\ e.related = n /\ e.workflow = saved[n].workflow
      /\ e.event = saved[n].event /\ e.quantity = saved[n].quantity
  BY <1>1 DEF Entry
<1>4. saved[n].quantity <= saved[n].quantity
  BY <1>1, WorkflowBounds DEF Entry
<1>5. Chained(e)
  BY <1>3, <1>4 DEF Narrative, IsNotificationOf, Chained, Answers, OfNotification, OfInstruction
<1>6. Prepares(q, e)
  BY DEF Narrative
<1> HIDE DEF e
<1> QED
  BY <1>2, <1>5, <1>6, PreparesChained

LEMMA StatusKeepsChains ==
    ASSUME ChainInv, NEW q \in Senders, NEW i \in DOMAIN saved, NEW workflow \in Workflows,
           NEW name \in Names, Status(q, i, workflow, name)
    PROVE  ChainInv'
<1> DEFINE n == saved[i].related
           e == [saved[i] EXCEPT !.kind = "status", !.workflow = workflow, !.ref = name,
                                 !.event = saved[n].event, !.related = i]
<1>1. /\ saved[i] \in Entry /\ saved[i].kind = "instruction"
      /\ Answers(saved[i], n) /\ saved[n].workflow = workflow
  BY InstructionChain DEF Status
<1>2. saved[n] \in Entry /\ i \in 0 .. MaxSaved
  BY <1>1, EntryOf DEF ChainInv, Answers
<1>3. e \in Entry
  BY <1>1, <1>2 DEF Entry, OfInstruction
<1>4. /\ e.kind = "status" /\ e.related = i /\ e.workflow = workflow
      /\ e.event = saved[n].event /\ e.quantity = saved[i].quantity
  BY <1>1 DEF Entry
<1>5. Chained(e)
  BY <1>1, <1>4 DEF Chained, Answers, OfNotification, OfInstruction
<1>6. Prepares(q, e)
  BY DEF Status
<1> HIDE DEF e
<1> QED
  BY <1>3, <1>5, <1>6, PreparesChained

LEMMA ConfirmationKeepsChains ==
    ASSUME ChainInv, NEW q \in Senders, NEW i \in DOMAIN saved, NEW workflow \in Workflows,
           NEW name \in Names, NEW quantity \in 1 .. Eligible,
           Confirmation(q, i, workflow, name, quantity)
    PROVE  ChainInv'
<1> DEFINE n == saved[i].related
           e == [saved[i] EXCEPT !.kind = "confirmation", !.workflow = workflow,
                                 !.ref = name, !.event = saved[n].event, !.related = i,
                                 !.quantity = quantity]
<1>1. /\ saved[i] \in Entry /\ saved[i].kind = "instruction"
      /\ Answers(saved[i], n) /\ saved[n].workflow = workflow
  BY InstructionChain DEF Confirmation
<1>2. saved[n] \in Entry /\ i \in 0 .. MaxSaved
  BY <1>1, EntryOf DEF ChainInv, Answers
<1>3. quantity \in 0 .. Eligible
  BY WorkflowBounds
<1>4. e \in Entry
  BY <1>1, <1>2, <1>3 DEF Entry, OfInstruction
<1>5. /\ e.kind = "confirmation" /\ e.related = i /\ e.workflow = workflow
      /\ e.event = saved[n].event /\ e.quantity = quantity
  BY <1>1 DEF Entry
<1>6. quantity <= saved[n].quantity
  BY <1>1, <1>2, WorkflowBounds DEF Confirmation, Answers, Entry
<1>7. Chained(e)
  BY <1>1, <1>5, <1>6 DEF Chained, Answers, OfNotification, OfInstruction
<1>8. Prepares(q, e)
  BY DEF Confirmation
<1> HIDE DEF e
<1> QED
  BY <1>4, <1>7, <1>8, PreparesChained

\* The table after a save: what it had, and the message as the last one.
LEMMA WorkflowSaveShape ==
    ASSUME WorkflowTypeOK, NEW q \in Senders, SaveMessage(q)
    PROVE  LET n == Cardinality(DOMAIN saved) + 1 IN
           /\ n \in 1 .. MaxSaved /\ n \notin DOMAIN saved
           /\ DOMAIN saved' = DOMAIN saved \cup {n} /\ DOMAIN saved = 1 .. n - 1
           /\ \A m \in DOMAIN saved : saved'[m] = saved[m]
           /\ saved'[n] = sender[q] /\ sender[q] \in Entry
           /\ WorkflowTypeOK'
<1> DEFINE k == Cardinality(DOMAIN saved)
<1>1. k \in 0 .. MaxSaved /\ saved \in [1 .. k -> Entry] /\ k \in Nat
  BY SavedShape, WorkflowBounds
<1>2. sender[q] \in Entry
  BY Carried DEF SaveMessage
<1>3. saved' = [i \in 1 .. k + 1 |-> IF i = k + 1 THEN sender[q] ELSE saved[i]]
      /\ k + 1 <= MaxSaved /\ sender' = [sender EXCEPT ![q] = NoEntry] /\ crossed' = crossed
  BY DEF SaveMessage
<1> HIDE DEF k
<1>4. saved' \in [1 .. k + 1 -> Entry] /\ k + 1 \in 0 .. MaxSaved
  BY <1>1, <1>2, <1>3, WorkflowBounds
<1>5. WorkflowTypeOK'
  BY <1>3, <1>4 DEF WorkflowTypeOK
<1>6. /\ k + 1 \in 1 .. MaxSaved /\ k + 1 \notin DOMAIN saved
      /\ DOMAIN saved' = DOMAIN saved \cup {k + 1} /\ DOMAIN saved = 1 .. (k + 1) - 1
      /\ \A m \in DOMAIN saved : saved'[m] = saved[m]
      /\ saved'[k + 1] = sender[q]
  BY <1>1, <1>3, WorkflowBounds
<1> QED
  BY <1>2, <1>5, <1>6 DEF k

LEMMA SaveKeepsChains ==
    ASSUME ChainInv, NEW q \in Senders, SaveMessage(q)
    PROVE  ChainInv'
<1> DEFINE n == Cardinality(DOMAIN saved) + 1
<1>1. /\ DOMAIN saved' = DOMAIN saved \cup {n}
      /\ \A m \in DOMAIN saved : saved'[m] = saved[m]
      /\ saved'[n] = sender[q] /\ WorkflowTypeOK'
  BY WorkflowSaveShape DEF ChainInv
<1> HIDE DEF n
<1>2. ASSUME NEW m \in DOMAIN saved'
      PROVE  Chained(saved[m])'
  <2>1. Chained(saved'[m])
    BY <1>1, <1>2 DEF ChainInv, SaveMessage
  <2> QED
    BY <1>1, <2>1 DEF Chained, Answers
<1>3. ASSUME NEW p \in Senders, ~IsFree(p)'
      PROVE  Chained(sender[p])'
  <2>1. sender'[p] = sender[p] /\ ~IsFree(p)
    BY <1>3 DEF SaveMessage, IsFree, ChainInv, WorkflowTypeOK
  <2>2. Chained(sender'[p])
    BY <2>1 DEF ChainInv
  <2> QED
    BY <1>1, <2>2 DEF Chained, Answers
<1> QED
  BY <1>1, <1>2, <1>3 DEF ChainInv

\* Every step keeps the chains.
LEMMA StepKeepsChains == ChainInv /\ [WorkflowNext]_workflowVars => ChainInv'
<1> SUFFICES ASSUME ChainInv, [WorkflowNext]_workflowVars
             PROVE  ChainInv'
  OBVIOUS
<1>1. ASSUME NEW q \in Senders, NEW workflow \in Workflows, NEW name \in Names,
             Statement(q, workflow, name)
      PROVE  ChainInv'
  BY <1>1, StatementKeepsChains
<1>2. ASSUME NEW q \in Senders, NEW workflow \in Workflows, NEW name \in Names,
             NEW event \in Names, Notification(q, workflow, name, event)
      PROVE  ChainInv'
  BY <1>2, NotificationKeepsChains
<1>3. ASSUME NEW q \in Senders, NEW n \in DOMAIN saved, NEW workflow \in Workflows,
             NEW name \in Names, NEW option \in Options, NEW quantity \in 1 .. Eligible,
             Instruction(q, n, workflow, name, option, quantity)
      PROVE  ChainInv'
  BY <1>3, InstructionKeepsChains
<1>4. ASSUME NEW q \in Senders, NEW n \in DOMAIN saved, NEW workflow \in Workflows,
             NEW name \in Names, Narrative(q, n, workflow, name)
      PROVE  ChainInv'
  BY <1>4, NarrativeKeepsChains
<1>5. ASSUME NEW q \in Senders, NEW i \in DOMAIN saved, NEW workflow \in Workflows,
             NEW name \in Names, Status(q, i, workflow, name)
      PROVE  ChainInv'
  BY <1>5, StatusKeepsChains
<1>6. ASSUME NEW q \in Senders, NEW i \in DOMAIN saved, NEW workflow \in Workflows,
             NEW name \in Names, NEW quantity \in 1 .. Eligible,
             Confirmation(q, i, workflow, name, quantity)
      PROVE  ChainInv'
  BY <1>6, ConfirmationKeepsChains
<1>7. ASSUME NEW q \in Senders, SaveMessage(q)
      PROVE  ChainInv'
  BY <1>7, SaveKeepsChains
<1>8. ASSUME NEW q \in Senders, GivesUp(q)
      PROVE  ChainInv'
  <2>1. /\ saved' = saved /\ crossed' = crossed
        /\ \A p \in Senders : sender'[p] = IF p = q THEN NoEntry ELSE sender[p]
        /\ sender' \in [Senders -> Entry \cup {NoEntry}]
    BY <1>8 DEF GivesUp, ChainInv, WorkflowTypeOK
  <2>2. WorkflowTypeOK'
    BY <2>1 DEF ChainInv, WorkflowTypeOK
  <2>3. \A p \in Senders : ~IsFree(p)' => ~IsFree(p) /\ sender'[p] = sender[p]
    BY <2>1 DEF IsFree
  <2> QED
    BY <2>1, <2>2, <2>3 DEF ChainInv, Chained, Answers
<1>9. CASE UNCHANGED workflowVars
  BY <1>9 DEF workflowVars, ChainInv, WorkflowTypeOK, Chained, Answers, IsFree
<1> QED
  BY <1>1, <1>2, <1>3, <1>4, <1>5, <1>6, <1>7, <1>8, <1>9 DEF WorkflowNext

LEMMA InitChains == WorkflowInit => ChainInv
  BY WorkflowInitType DEF WorkflowInit, ChainInv, IsFree

LEMMA ChainsHold == WorkflowSpec => []ChainInv
  BY InitChains, StepKeepsChains, PTL DEF WorkflowSpec

\* Type correctness of the workflow messages: what is prepared and saved is a message
\* of the table (persistence/workflow_messages.py save).
THEOREM WorkflowTypeCorrect == WorkflowSpec => []WorkflowTypeOK
<1>1. ChainInv => WorkflowTypeOK
  BY DEF ChainInv
<1> QED
  BY <1>1, ChainsHold, PTL

\* However requests interleave, every message of an event is in the workflow of its
\* notification, repeats its event and moves no more than was eligible there.
THEOREM ChainsHoldTogether == WorkflowSpec => []ChainsAreOfOneEvent
<1>1. ASSUME ChainInv PROVE ChainsAreOfOneEvent
  <2> SUFFICES ASSUME NEW m \in DOMAIN saved, saved[m].kind # "statement"
               PROVE  Answers(saved[m], NotificationOf(m))
    BY DEF ChainsAreOfOneEvent, Answers
  <2>1. saved[m] \in Entry /\ Chained(saved[m])
    BY <1>1, EntryOf DEF ChainInv
  <2>2. CASE saved[m].kind = "notification"
    BY <2>1, <2>2, WorkflowBounds
       DEF NotificationOf, Answers, Entry, OfNotification, OfInstruction
  <2>3. CASE saved[m].kind \in OfNotification
    BY <2>1, <2>3 DEF NotificationOf, Chained, OfNotification, OfInstruction
  <2>4. CASE saved[m].kind \in OfInstruction
    BY <2>1, <2>4 DEF NotificationOf, Chained, OfNotification, OfInstruction
  <2> QED
    BY <2>1, <2>2, <2>3, <2>4 DEF Entry, Opening
<1> QED
  BY <1>1, ChainsHold, PTL

--------------------------------------------------------------------------------
(***************************************************************************)
(* What the references guarantee while requests do not overlap.            *)
(***************************************************************************)

\* nothing saved stands in the way of e
Fresh(e) ==
    /\ \A a \in DOMAIN saved :
          saved[a].kind \in OfInstruction => e.ref # saved[saved[a].related].ref
    /\ e.kind \in Opening =>
          \A m \in DOMAIN saved : saved[m].kind \in Opening => saved[m].event # e.event

WorkflowSerial ==
    /\ ~crossed =>
          /\ \A p, q \in Senders : ~IsFree(p) /\ ~IsFree(q) => p = q
          /\ \A q \in Senders : ~IsFree(q) => Fresh(sender[q])
    /\ EventsAndStatementsAreDistinct
    /\ AnsweredReferencesAreTaken

\* References that reference_exists does not know leave a message fresh.
LEMMA UnknownIsFresh ==
    ASSUME ChainInv, NEW e \in Entry, ~NameExists(e.ref),
           e.kind \in Opening => ~NameExists(e.event)
    PROVE  Fresh(e)
<1>1. ASSUME NEW a \in DOMAIN saved, saved[a].kind \in OfInstruction
      PROVE  e.ref # saved[saved[a].related].ref
  BY <1>1 DEF NameExists
<1>2. ASSUME e.kind \in Opening, NEW m \in DOMAIN saved, saved[m].kind \in Opening
      PROVE  saved[m].event # e.event
  <2>1. CASE saved[m].kind = "statement"
    BY <1>2, <2>1 DEF NameExists, ChainInv, Chained
  <2>2. CASE saved[m].kind # "statement"
    BY <1>2, <2>2 DEF NameExists
  <2> QED
    BY <2>1, <2>2
<1> QED
  BY <1>1, <1>2 DEF Fresh

\* A request that prepares a fresh message while no other is in progress is alone.
LEMMA PreparesSerial ==
    ASSUME ChainInv, WorkflowSerial, NEW q \in Senders, NEW e \in Entry,
           ~NameExists(e.ref), e.kind \in Opening => ~NameExists(e.event), Prepares(q, e)
    PROVE  WorkflowSerial'
<1>1. saved' = saved /\ \A p \in Senders : sender'[p] = IF p = q THEN e ELSE sender[p]
  BY DEF Prepares, ChainInv, WorkflowTypeOK
<1>2. ~crossed' => ~crossed /\ \A p \in Senders : IsFree(p)
  BY DEF Prepares
<1>3. ~crossed' => \A p \in Senders : ~IsFree(p)' => p = q
  BY <1>1, <1>2 DEF IsFree
<1>4. ~crossed' => Fresh(sender[q])'
  <2>1. Fresh(e)
    BY UnknownIsFresh
  <2>2. sender'[q] = e
    BY <1>1
  <2> QED
    BY <1>1, <2>1, <2>2 DEF Fresh
<1>5. EventsAndStatementsAreDistinct' /\ AnsweredReferencesAreTaken'
  BY <1>1, <1>2 DEF WorkflowSerial, EventsAndStatementsAreDistinct, AnsweredReferencesAreTaken
<1> QED
  BY <1>3, <1>4, <1>5 DEF WorkflowSerial

\* The message that is saved was fresh, and nothing is in progress after it.
LEMMA SaveSerial ==
    ASSUME ChainInv, WorkflowSerial, NEW q \in Senders, SaveMessage(q)
    PROVE  WorkflowSerial'
<1> DEFINE n == Cardinality(DOMAIN saved) + 1
<1>1. /\ n \in 1 .. MaxSaved /\ n \notin DOMAIN saved
      /\ DOMAIN saved' = DOMAIN saved \cup {n} /\ DOMAIN saved = 1 .. n - 1
      /\ \A m \in DOMAIN saved : saved'[m] = saved[m]
      /\ saved'[n] = sender[q]
  BY WorkflowSaveShape DEF ChainInv
<1> HIDE DEF n
<1>2. crossed' = crossed /\ ~IsFree(q)
  BY DEF SaveMessage
<1>3. \A p \in Senders : ~IsFree(p)' => ~IsFree(p) /\ p # q
  BY DEF SaveMessage, IsFree, ChainInv, WorkflowTypeOK
<1> SUFFICES ASSUME ~crossed
             PROVE  WorkflowSerial'
  BY <1>2 DEF WorkflowSerial, EventsAndStatementsAreDistinct, AnsweredReferencesAreTaken
<1>4. \A p \in Senders : IsFree(p)'
  BY <1>2, <1>3 DEF WorkflowSerial
<1>5. Fresh(sender[q])
  BY <1>2 DEF WorkflowSerial
<1>6. EventsAndStatementsAreDistinct'
  <2> SUFFICES ASSUME NEW m \in DOMAIN saved', NEW k \in DOMAIN saved',
                      {saved'[m].kind, saved'[k].kind} \subseteq Opening,
                      saved'[m].event = saved'[k].event
               PROVE  m = k
    BY DEF EventsAndStatementsAreDistinct
  <2>1. CASE m \in DOMAIN saved /\ k \in DOMAIN saved
    BY <1>1, <2>1 DEF WorkflowSerial, EventsAndStatementsAreDistinct
  <2>2. CASE m = n /\ k \in DOMAIN saved
    BY <1>1, <1>5, <2>2 DEF Fresh
  <2>3. CASE m \in DOMAIN saved /\ k = n
    BY <1>1, <1>5, <2>3 DEF Fresh
  <2> QED
    BY <1>1, <2>1, <2>2, <2>3
<1>7. AnsweredReferencesAreTaken'
  <2> SUFFICES ASSUME NEW a \in DOMAIN saved', NEW m \in DOMAIN saved',
                      saved'[a].kind \in OfInstruction, a < m
               PROVE  saved'[m].ref # saved'[saved'[a].related].ref
    BY DEF AnsweredReferencesAreTaken
  <2>1. a \in DOMAIN saved
    BY <1>1, WorkflowBounds
  <2>2. Chained(saved[a]) /\ saved'[a] = saved[a]
    BY <1>1, <2>1 DEF ChainInv
  <2>3. saved'[saved'[a].related] = saved[saved[a].related]
    BY <1>1, <2>2 DEF Chained
  <2>4. CASE m \in DOMAIN saved
    BY <1>1, <2>1, <2>2, <2>3, <2>4 DEF WorkflowSerial, AnsweredReferencesAreTaken
  <2>5. CASE m = n
    BY <1>1, <1>5, <2>1, <2>2, <2>3, <2>5 DEF Fresh
  <2> QED
    BY <1>1, <2>4, <2>5
<1> QED
  BY <1>4, <1>6, <1>7 DEF WorkflowSerial

LEMMA WorkflowStepKeepsSerial ==
    ChainInv /\ WorkflowSerial /\ [WorkflowNext]_workflowVars => WorkflowSerial'
<1> SUFFICES ASSUME ChainInv, WorkflowSerial, [WorkflowNext]_workflowVars
             PROVE  WorkflowSerial'
  OBVIOUS
<1> USE DEF Opening, OfNotification, OfInstruction
<1>1. ASSUME NEW q \in Senders, NEW workflow \in Workflows, NEW name \in Names,
             Statement(q, workflow, name)
      PROVE  WorkflowSerial'
  <2> DEFINE e == [kind |-> "statement", workflow |-> workflow, ref |-> name,
                   event |-> name, related |-> 0, option |-> "cash", quantity |-> 0]
  <2>1. e \in Entry
    BY WorkflowBounds DEF Entry, Options
  <2>2. e.ref = name /\ e.event = name /\ ~NameExists(name) /\ Prepares(q, e)
    BY <1>1 DEF Statement, MayState
  <2> HIDE DEF e
  <2> QED
    BY <2>1, <2>2, PreparesSerial
<1>2. ASSUME NEW q \in Senders, NEW workflow \in Workflows, NEW name \in Names,
             NEW event \in Names, Notification(q, workflow, name, event)
      PROVE  WorkflowSerial'
  <2> DEFINE e == [kind |-> "notification", workflow |-> workflow, ref |-> name,
                   event |-> event, related |-> 0, option |-> "cash", quantity |-> Eligible]
  <2>1. e \in Entry
    BY WorkflowBounds DEF Entry, Options
  <2>2. /\ e.ref = name /\ e.event = event
        /\ ~NameExists(name) /\ ~NameExists(event) /\ Prepares(q, e)
    BY <1>2 DEF Notification
  <2> HIDE DEF e
  <2> QED
    BY <2>1, <2>2, PreparesSerial
<1>3. ASSUME NEW q \in Senders, NEW n \in DOMAIN saved, NEW workflow \in Workflows,
             NEW name \in Names, NEW option \in Options, NEW quantity \in 1 .. Eligible,
             Instruction(q, n, workflow, name, option, quantity)
      PROVE  WorkflowSerial'
  <2> DEFINE e == [kind |-> "instruction", workflow |-> workflow, ref |-> name,
                   event |-> saved[n].event, related |-> n,
                   option |-> option, quantity |-> quantity]
  <2>1. saved[n] \in Entry /\ n \in 0 .. MaxSaved /\ quantity \in 0 .. Eligible
    BY EntryOf, WorkflowBounds DEF ChainInv
  <2>2. e \in Entry
    BY <2>1 DEF Entry
  <2>3. e.ref = name /\ e.kind \notin Opening /\ ~NameExists(name) /\ Prepares(q, e)
    BY <1>3 DEF Instruction
  <2> HIDE DEF e
  <2> QED
    BY <2>2, <2>3, PreparesSerial
<1>4. ASSUME NEW q \in Senders, NEW n \in DOMAIN saved, NEW workflow \in Workflows,
             NEW name \in Names, Narrative(q, n, workflow, name)
      PROVE  WorkflowSerial'
  <2> DEFINE e == [saved[n] EXCEPT !.kind = "narrative", !.ref = name, !.related = n]
  <2>1. saved[n] \in Entry /\ n \in 0 .. MaxSaved
    BY EntryOf DEF ChainInv
  <2>2. e \in Entry /\ e.ref = name /\ e.kind = "narrative"
    BY <2>1 DEF Entry
  <2>3. ~NameExists(name) /\ Prepares(q, e)
    BY <1>4 DEF Narrative
  <2> HIDE DEF e
  <2> QED
    BY <2>2, <2>3, PreparesSerial
<1>5. ASSUME NEW q \in Senders, NEW i \in DOMAIN saved, NEW workflow \in Workflows,
             NEW name \in Names, Status(q, i, workflow, name)
      PROVE  WorkflowSerial'
  <2> DEFINE e == [saved[i] EXCEPT !.kind = "status", !.workflow = workflow, !.ref = name,
                                   !.event = saved[saved[i].related].event, !.related = i]
  <2>1. saved[i] \in Entry /\ i \in 0 .. MaxSaved /\ saved[saved[i].related] \in Entry
    BY <1>5, InstructionChain, EntryOf DEF Status, ChainInv, Answers
  <2>2. e \in Entry /\ e.ref = name /\ e.kind = "status"
    BY <2>1 DEF Entry
  <2>3. ~NameExists(name) /\ Prepares(q, e)
    BY <1>5 DEF Status
  <2> HIDE DEF e
  <2> QED
    BY <2>2, <2>3, PreparesSerial
<1>6. ASSUME NEW q \in Senders, NEW i \in DOMAIN saved, NEW workflow \in Workflows,
             NEW name \in Names, NEW quantity \in 1 .. Eligible,
             Confirmation(q, i, workflow, name, quantity)
      PROVE  WorkflowSerial'
  <2> DEFINE e == [saved[i] EXCEPT !.kind = "confirmation", !.workflow = workflow,
                                   !.ref = name, !.event = saved[saved[i].related].event,
                                   !.related = i, !.quantity = quantity]
  <2>1. saved[i] \in Entry /\ i \in 0 .. MaxSaved /\ saved[saved[i].related] \in Entry
    BY <1>6, InstructionChain, EntryOf DEF Confirmation, ChainInv, Answers
  <2>2. quantity \in 0 .. Eligible
    BY WorkflowBounds
  <2>3. e \in Entry /\ e.ref = name /\ e.kind = "confirmation"
    BY <2>1, <2>2 DEF Entry
  <2>4. ~NameExists(name) /\ Prepares(q, e)
    BY <1>6 DEF Confirmation
  <2> HIDE DEF e
  <2> QED
    BY <2>3, <2>4, PreparesSerial
<1>7. ASSUME NEW q \in Senders, SaveMessage(q)
      PROVE  WorkflowSerial'
  BY <1>7, SaveSerial
<1>8. ASSUME NEW q \in Senders, GivesUp(q)
      PROVE  WorkflowSerial'
  <2>1. /\ saved' = saved /\ crossed' = crossed
        /\ \A p \in Senders : sender'[p] = IF p = q THEN NoEntry ELSE sender[p]
    BY <1>8 DEF GivesUp, ChainInv, WorkflowTypeOK
  <2>2. \A p \in Senders : ~IsFree(p)' => ~IsFree(p) /\ sender'[p] = sender[p]
    BY <2>1 DEF IsFree
  <2>3. EventsAndStatementsAreDistinct' /\ AnsweredReferencesAreTaken'
    BY <2>1 DEF WorkflowSerial, EventsAndStatementsAreDistinct, AnsweredReferencesAreTaken
  <2> QED
    BY <2>1, <2>2, <2>3 DEF WorkflowSerial, Fresh
<1>9. CASE UNCHANGED workflowVars
  BY <1>9 DEF workflowVars, WorkflowSerial, Fresh, IsFree, EventsAndStatementsAreDistinct,
              AnsweredReferencesAreTaken
<1> QED
  BY <1>1, <1>2, <1>3, <1>4, <1>5, <1>6, <1>7, <1>8, <1>9 DEF WorkflowNext

LEMMA WorkflowSerialHolds == WorkflowSpec => []WorkflowSerial
<1>1. WorkflowInit => WorkflowSerial
  BY DEF WorkflowInit, WorkflowSerial, IsFree, EventsAndStatementsAreDistinct,
         AnsweredReferencesAreTaken
<1> QED
  BY <1>1, WorkflowStepKeepsSerial, ChainsHold, PTL DEF WorkflowSpec

\* As long as requests do not overlap, events and statements have references of their
\* own: reference_exists is asked before each of them is saved.
THEOREM DistinctWhenSerial == WorkflowSpec => []EventsAndStatementsAreDistinct
<1>1. WorkflowSerial => EventsAndStatementsAreDistinct
  BY DEF WorkflowSerial
<1> QED
  BY <1>1, WorkflowSerialHolds, PTL

\* As long as requests do not overlap, an answered instruction keeps its reference,
\* which reference_exists then finds in the answer.
THEOREM TakenWhenSerial == WorkflowSpec => []AnsweredReferencesAreTaken
<1>1. WorkflowSerial => AnsweredReferencesAreTaken
  BY DEF WorkflowSerial
<1> QED
  BY <1>1, WorkflowSerialHolds, PTL

--------------------------------------------------------------------------------
(***************************************************************************)
(* Cancelling and rebooking, for every number of references and messages.  *)
(***************************************************************************)
\* The messages are numbered from 1 to how many they are.
LEMMA MessageShape ==
    ASSUME SettlementTypeOK
    PROVE  /\ Saved \in 0 .. MaxMessages
           /\ Ids = 1 .. Saved
           /\ IsFiniteSet(Ids)
           /\ message \in [1 .. Saved -> Message]
<1>1. PICK n \in 0 .. MaxMessages : message \in [1 .. n -> Message]
  BY DEF SettlementTypeOK
<1>2. n \in Nat /\ MaxMessages \in Nat
  BY SettlementBounds
<1>3. Ids = 1 .. n
  BY <1>1 DEF Ids
<1>4. Saved = n
  BY <1>2, <1>3, FS_Interval DEF Saved
<1>5. IsFiniteSet(Ids)
  BY <1>2, <1>3, FS_Interval
<1> QED
  BY <1>1, <1>3, <1>4, <1>5

\* What saving a message does to the messages there are.
LEMMA SettlementSaveShape ==
    ASSUME SettlementTypeOK, NEW kind, NEW parent, NEW ref, Save(kind, parent, ref)
    PROVE  /\ Saved + 1 \in 1 .. MaxMessages /\ Saved + 1 \notin Ids
           /\ Ids' = Ids \cup {Saved + 1}
           /\ message'[Saved + 1] = [kind |-> kind, parent |-> parent, ref |-> ref]
           /\ \A m \in Ids : message'[m] = message[m]
<1> USE MessageShape
<1>1. Saved + 1 \in 1 .. MaxMessages /\ Saved + 1 \notin 1 .. Saved /\ Saved \in Nat
  BY SettlementBounds DEF Save
<1>2. Ids' = 1 .. Saved + 1
  BY DEF Save, Ids
<1>3. \A m \in 1 .. Saved : m \in 1 .. Saved + 1 /\ m # Saved + 1
  BY <1>1
<1>4. Saved + 1 \in 1 .. Saved + 1 /\ 1 .. Saved + 1 = (1 .. Saved) \cup {Saved + 1}
  BY <1>1
<1> QED
  BY <1>1, <1>2, <1>3, <1>4 DEF Save

\* What saving a message does to the children of any other.
LEMMA SaveChildren ==
    ASSUME SettlementTypeOK, NEW kind, NEW parent, NEW ref, Save(kind, parent, ref),
           NEW i, NEW kinds
    PROVE  /\ parent = i /\ kind \in kinds =>
                  Children(i, kinds)' = Children(i, kinds) \cup {Saved + 1}
           /\ ~(parent = i /\ kind \in kinds) => Children(i, kinds)' = Children(i, kinds)
<1> DEFINE row == [kind |-> kind, parent |-> parent, ref |-> ref]
<1>1. row.kind = kind /\ row.parent = parent
  OBVIOUS
<1>2. Children(i, kinds)' = {m \in Ids' : message'[m].parent = i /\ message'[m].kind \in kinds}
  BY DEF Children
<1>3. /\ Ids' = Ids \cup {Saved + 1} /\ message'[Saved + 1] = row
      /\ \A m \in Ids : message'[m] = message[m]
  BY SettlementSaveShape
<1> HIDE DEF row
<1>4. Children(i, kinds)' = {m \in Ids : message[m].parent = i /\ message[m].kind \in kinds}
          \cup {m \in {Saved + 1} : parent = i /\ kind \in kinds}
  BY <1>1, <1>2, <1>3
<1> QED
  BY <1>4 DEF Children

LEMMA ChildrenFinite ==
    ASSUME SettlementTypeOK, NEW i, NEW kinds
    PROVE  IsFiniteSet(Children(i, kinds)) /\ Children(i, kinds) \subseteq Ids
<1>1. Children(i, kinds) \in SUBSET Ids
  BY DEF Children
<1> QED
  BY <1>1, MessageShape, FS_Subset

--------------------------------------------------------------------------------
(***************************************************************************)
(* Types.                                                                  *)
(***************************************************************************)

LEMMA SettlementInitType == SettlementInit => SettlementTypeOK
<1> SUFFICES ASSUME SettlementInit PROVE SettlementTypeOK
  OBVIOUS
<1>1. message \in [1 .. 0 -> Message] /\ 0 \in 0 .. MaxMessages
  BY SettlementBounds DEF SettlementInit
<1>2. client \in [Clients -> ClientRow]
  BY SettlementBounds DEF SettlementInit, NoClient, ClientRow
<1> QED
  BY <1>1, <1>2 DEF SettlementInit, SettlementTypeOK

\* Saving what has the type of a message keeps the type of the messages.
LEMMA SaveType ==
    ASSUME SettlementTypeOK, NEW kind \in Kinds, NEW parent \in 0 .. MaxMessages,
           NEW ref \in References \cup {Synthetic}, Save(kind, parent, ref)
    PROVE  \E n \in 0 .. MaxMessages : message' \in [1 .. n -> Message]
<1>1. Saved + 1 \in 0 .. MaxMessages /\ Saved \in Nat /\ message \in [1 .. Saved -> Message]
  BY MessageShape, SettlementBounds DEF Save
<1>2. [kind |-> kind, parent |-> parent, ref |-> ref] \in Message
  BY DEF Message
<1>3. message' \in [1 .. Saved + 1 -> Message]
  BY <1>1, <1>2 DEF Save
<1> QED
  BY <1>1, <1>3

\* Every step keeps the types.
LEMMA StepType == SettlementTypeOK /\ [SettlementNext]_settlementVars => SettlementTypeOK'
<1> SUFFICES ASSUME SettlementTypeOK, [SettlementNext]_settlementVars PROVE SettlementTypeOK'
  OBVIOUS
<1>0. /\ client \in [Clients -> ClientRow] /\ overlapped \in BOOLEAN
      /\ \E n \in 0 .. MaxMessages : message \in [1 .. n -> Message]
  BY DEF SettlementTypeOK
<1>1. Ids = 1 .. Saved /\ Saved \in 0 .. MaxMessages /\ MaxMessages \in Nat
  BY MessageShape, SettlementBounds
<1>2. \A i \in Ids : i \in 0 .. MaxMessages
  BY <1>1
<1>3. Instructions \cup Responses \cup Amendments = Kinds
  BY DEF Kinds
<1>4. /\ "instruction" \in Kinds /\ "cancellation" \in Kinds /\ "command" \in Kinds
      /\ "accepted" \in Kinds /\ "replacement" \in Kinds
  BY DEF Kinds, Instructions, Responses, Amendments
<1>5. NoClient \in ClientRow
  BY <1>1 DEF NoClient, ClientRow
<1>6. \A q \in Clients : Leaves(q) => client' \in [Clients -> ClientRow]
  BY <1>0, <1>5 DEF Leaves
<1>7. Overlaps => overlapped' \in BOOLEAN
  BY DEF Overlaps
<1>8. \A q \in Clients : /\ client[q].original \in 0 .. MaxMessages
                         /\ client[q].canc \in 0 .. MaxMessages
                         /\ client[q].ref \in References \cup {Synthetic}
                         /\ client[q].next \in References \cup {Synthetic}
  BY <1>0 DEF ClientRow
<1>9. CASE UNCHANGED settlementVars
  BY <1>9 DEF settlementVars, SettlementTypeOK
<1>10. ASSUME NEW ref \in References \cup {Synthetic}, Instruct(ref) PROVE SettlementTypeOK'
  <2>1. 0 \in 0 .. MaxMessages
    BY <1>1
  <2>2. \E n \in 0 .. MaxMessages : message' \in [1 .. n -> Message]
    BY <1>10, <1>4, <2>1, SaveType DEF Instruct
  <2> QED
    BY <1>0, <1>7, <1>10, <2>2 DEF Instruct, SettlementTypeOK
<1>11. ASSUME NEW i \in Ids, NEW kind \in Responses, NEW ref \in References \cup {Synthetic},
             Respond(i, kind, ref)
      PROVE  SettlementTypeOK'
  <2>1. kind \in Kinds /\ i \in 0 .. MaxMessages
    BY <1>2, <1>3
  <2>2. \E n \in 0 .. MaxMessages : message' \in [1 .. n -> Message]
    BY <1>11, <2>1, SaveType DEF Respond
  <2> QED
    BY <1>0, <1>7, <1>11, <2>2 DEF Respond, SettlementTypeOK
<1>12. ASSUME NEW q \in Clients, NEW o \in Ids, NEW ref \in References \cup {Synthetic},
              CheckCancellation(q, o, ref)
       PROVE  SettlementTypeOK'
  <2>1. [NoClient EXCEPT !.step = "cancel", !.original = o, !.ref = ref] \in ClientRow
    BY <1>2, <1>5 DEF ClientRow
  <2> QED
    BY <1>0, <1>7, <1>12, <2>1 DEF CheckCancellation, Enters, SettlementTypeOK
<1>13. ASSUME NEW q \in Clients, NEW o \in Ids, NEW ref \in References, CheckCommand(q, o, ref)
       PROVE  SettlementTypeOK'
  <2>1. [NoClient EXCEPT !.step = "command", !.original = o, !.ref = ref] \in ClientRow
    BY <1>2, <1>5 DEF ClientRow
  <2> QED
    BY <1>0, <1>7, <1>13, <2>1 DEF CheckCommand, Enters, SettlementTypeOK
<1>14. ASSUME NEW q \in Clients, NEW o \in Ids, NEW ref \in References, NEW next \in References,
              Decide(q, o, ref, next)
       PROVE  SettlementTypeOK'
  <2>1. [NoClient EXCEPT !.step = "request", !.original = o, !.ref = ref, !.next = next]
            \in ClientRow
    BY <1>2, <1>5 DEF ClientRow
  <2> QED
    BY <1>0, <1>7, <1>14, <2>1 DEF Decide, Enters, SettlementTypeOK
<1>15. ASSUME NEW q \in Clients, SaveCancellation(q) PROVE SettlementTypeOK'
  <2>1. \E n \in 0 .. MaxMessages : message' \in [1 .. n -> Message]
    BY <1>15, <1>4, <1>8, SaveType DEF SaveCancellation
  <2> QED
    BY <1>0, <1>6, <1>15, <2>1 DEF SaveCancellation, SettlementTypeOK
<1>16. ASSUME NEW q \in Clients, SaveCommand(q) PROVE SettlementTypeOK'
  <2>1. \E n \in 0 .. MaxMessages : message' \in [1 .. n -> Message]
    BY <1>16, <1>4, <1>8, SaveType DEF SaveCommand
  <2> QED
    BY <1>0, <1>6, <1>16, <2>1 DEF SaveCommand, SettlementTypeOK
<1>17. ASSUME NEW q \in Clients, CheckRebook(q) PROVE SettlementTypeOK'
  <2>1. client' \in [Clients -> ClientRow]
    BY <1>0, <1>17 DEF CheckRebook, Advances, ClientRow
  <2> QED
    BY <1>0, <1>17, <2>1 DEF CheckRebook, SettlementTypeOK
<1>18. ASSUME NEW q \in Clients, SaveRebookCancellation(q) PROVE SettlementTypeOK'
  <2>1. \E n \in 0 .. MaxMessages : message' \in [1 .. n -> Message]
    BY <1>18, <1>4, <1>8, SaveType DEF SaveRebookCancellation
  <2>2. Saved + 1 \in 0 .. MaxMessages
    BY <1>1, <1>18 DEF SaveRebookCancellation, Save
  <2>3. client' \in [Clients -> ClientRow]
    <3>1. client' = [client EXCEPT ![q] = [client[q] EXCEPT !.step = "accept", !.canc = Saved + 1]]
      BY <1>18 DEF SaveRebookCancellation
    <3>2. client[q] \in ClientRow
      BY <1>0
    <3>3. [client[q] EXCEPT !.step = "accept", !.canc = Saved + 1] \in ClientRow
      BY <2>2, <3>2 DEF ClientRow
    <3> QED
      BY <1>0, <3>1, <3>3
  <2> QED
    BY <1>0, <1>18, <2>1, <2>3 DEF SaveRebookCancellation, SettlementTypeOK
<1>19. ASSUME NEW q \in Clients, AcceptRebook(q) PROVE SettlementTypeOK'
  <2>1. \E n \in 0 .. MaxMessages : message' \in [1 .. n -> Message]
    BY <1>19, <1>4, <1>8, SaveType DEF AcceptRebook, AcceptedBy
  <2>2. client' \in [Clients -> ClientRow]
    BY <1>0, <1>19 DEF AcceptRebook, Advances, ClientRow
  <2> QED
    BY <1>0, <1>19, <2>1, <2>2 DEF AcceptRebook, SettlementTypeOK
<1>20. ASSUME NEW q \in Clients, Rebook(q) PROVE SettlementTypeOK'
  <2>1. \E n \in 0 .. MaxMessages : message' \in [1 .. n -> Message]
    BY <1>20, <1>4, <1>8, SaveType DEF Rebook
  <2> QED
    BY <1>0, <1>6, <1>20, <2>1 DEF Rebook, SettlementTypeOK
<1>21. ASSUME NEW q \in Clients, Fails(q) PROVE SettlementTypeOK'
  BY <1>0, <1>6, <1>21 DEF Fails, SettlementTypeOK
<1> QED
  BY <1>9, <1>10, <1>11, <1>12, <1>13, <1>14, <1>15, <1>16, <1>17, <1>18, <1>19, <1>20, <1>21
     DEF SettlementNext

\* Messages, requests and their numbers keep their types, whatever the requests do
\* and wherever one of them is killed.
THEOREM SettlementTypeCorrect == SettlementSpec => []SettlementTypeOK
<1> QED
  BY SettlementInitType, StepType, PTL DEF SettlementSpec

--------------------------------------------------------------------------------
(***************************************************************************)
(* A replacement has an accepted cancellation of its own.  By itself that  *)
(* is not inductive: a request that is about to save its replacement must  *)
(* find one that no other replacement counts on.  So the cancellations of  *)
(* requests still to replace are set apart (Reserved): each belongs to one *)
(* request, and the replacements saved never outnumber the accepted        *)
(* cancellations that are not reserved.                                    *)
(***************************************************************************)

Replaces(q) == client[q].step \in {"accept", "replace"}
Accepted(o) == {c \in Children(o, {"cancellation"}) : Children(c, {"accepted"}) # {}}
Reserved(o) == {client[q].canc : q \in {p \in Clients : Replaces(p) /\ client[p].original = o}}

ParentsAreSaved == \A m \in Ids : message[m].parent \in Ids \cup {0}
OriginalsAreSaved == \A q \in Clients : ~Free(q) => client[q].original \in Ids
ReservedAreCancellations ==
    \A q \in Clients : Replaces(q) =>
        client[q].canc \in Children(client[q].original, {"cancellation"})
AcceptedBeforeReplaced ==
    \A q \in Clients : client[q].step = "replace" => Children(client[q].canc, {"accepted"}) # {}
ReservedOnce ==
    \A p, q \in Clients : Replaces(p) /\ Replaces(q) /\ p # q => client[p].canc # client[q].canc
Covered(o) == Cardinality(Children(o, {"replacement"})) <= Cardinality(Accepted(o) \ Reserved(o))

RebookInv ==
    /\ SettlementTypeOK
    /\ ParentsAreSaved /\ OriginalsAreSaved
    /\ ReservedAreCancellations /\ AcceptedBeforeReplaced /\ ReservedOnce
    /\ \A o \in Ids : Covered(o)

LEMMA AcceptedFinite ==
    ASSUME SettlementTypeOK, NEW o
    PROVE  /\ IsFiniteSet(Accepted(o)) /\ IsFiniteSet(Accepted(o) \ Reserved(o))
           /\ Accepted(o) \subseteq Ids
<1>1. /\ Accepted(o) \in SUBSET Children(o, {"cancellation"})
      /\ Accepted(o) \ Reserved(o) \in SUBSET Children(o, {"cancellation"})
  BY DEF Accepted
<1> QED
  BY <1>1, ChildrenFinite, FS_Subset

LEMMA AcceptedFiniteNext ==
    ASSUME SettlementTypeOK', NEW o
    PROVE  IsFiniteSet((Accepted(o) \ Reserved(o))')
<1>1. PICK n \in 0 .. MaxMessages : message' \in [1 .. n -> Message]
  BY DEF SettlementTypeOK
<1>2. IsFiniteSet(1 .. n)
  BY <1>1, SettlementBounds, FS_Interval
<1>3. (Accepted(o) \ Reserved(o))' \in SUBSET (1 .. n)
  BY <1>1 DEF Accepted, Children, Ids
<1> QED
  BY <1>2, <1>3, FS_Subset

\* An instruction stays covered when it is not replaced once more and none of the
\* unreserved accepted cancellations is lost.
LEMMA StillCovered ==
    ASSUME SettlementTypeOK, SettlementTypeOK', NEW o, Covered(o),
           Children(o, {"replacement"})' = Children(o, {"replacement"}),
           Accepted(o) \ Reserved(o) \subseteq (Accepted(o) \ Reserved(o))'
    PROVE  Covered(o)'
<1>1. IsFiniteSet((Accepted(o) \ Reserved(o))')
  BY AcceptedFiniteNext
<1>2. /\ Cardinality(Accepted(o) \ Reserved(o)) \in Nat
      /\ Cardinality((Accepted(o) \ Reserved(o))') \in Nat
      /\ Cardinality(Children(o, {"replacement"})) \in Nat
  BY <1>1, AcceptedFinite, ChildrenFinite, FS_CardinalityType
<1>3. Cardinality(Accepted(o) \ Reserved(o)) <= Cardinality((Accepted(o) \ Reserved(o))')
  BY <1>1, FS_Subset
<1> QED
  BY <1>2, <1>3 DEF Covered

\* Saving a message that is not a replacement covers as much as before, when no more
\* than that message is newly reserved.
LEMMA OtherSaveCovers ==
    ASSUME RebookInv, SettlementTypeOK', NEW kind \in Kinds \ {"replacement"},
           NEW parent \in Ids \cup {0}, NEW ref, Save(kind, parent, ref),
           \A o \in Ids : Reserved(o)' \subseteq Reserved(o) \cup {Saved + 1}
    PROVE  \A o \in Ids' : Covered(o)'
<1> SUFFICES ASSUME NEW n, n = Saved + 1 PROVE \A o \in Ids' : Covered(o)'
  OBVIOUS
<1>1. SettlementTypeOK
  BY DEF RebookInv
<1>2. Ids' = Ids \cup {n} /\ n \notin Ids
  BY <1>1, SettlementSaveShape
<1>3. ASSUME NEW o \in Ids PROVE Covered(o)'
  <2>1. Children(o, {"replacement"})' = Children(o, {"replacement"})
    BY <1>1, SaveChildren
  <2>2. Children(o, {"cancellation"}) \subseteq Children(o, {"cancellation"})'
    BY <1>1, SaveChildren
  <2>3. \A c : Children(c, {"accepted"}) \subseteq Children(c, {"accepted"})'
    BY <1>1, SaveChildren
  <2>4. Accepted(o) \subseteq Accepted(o)'
    BY <2>2, <2>3 DEF Accepted
  <2>5. n \notin Accepted(o)
    BY <1>1, <1>2, AcceptedFinite
  <2>6. Accepted(o) \ Reserved(o) \subseteq (Accepted(o) \ Reserved(o))'
    BY <2>4, <2>5
  <2> QED
    BY <1>1, <2>1, <2>6, StillCovered DEF RebookInv
<1>4. Covered(n)'
  <2>1. \A m \in Ids : message[m].parent # n
    BY <1>1, <1>2, MessageShape DEF RebookInv, ParentsAreSaved
  <2>2. Children(n, {"replacement"}) = {}
    BY <2>1 DEF Children
  <2>2a. Children(n, {"replacement"})' = {}
    BY <1>1, <2>2, SaveChildren
  <2>3. Cardinality((Accepted(n) \ Reserved(n))') \in Nat
    BY AcceptedFiniteNext, FS_CardinalityType
  <2>4. Cardinality(Children(n, {"replacement"})') = 0
    BY <2>2a, FS_EmptySet
  <2> QED
    BY <2>3, <2>4 DEF Covered
<1> QED
  BY <1>2, <1>3, <1>4

\* Saving a message under one that is there keeps the parents saved.
LEMMA SaveKeepsParents ==
    ASSUME RebookInv, NEW kind, NEW parent \in Ids \cup {0}, NEW ref, Save(kind, parent, ref)
    PROVE  ParentsAreSaved'
<1>1. SettlementTypeOK
  BY DEF RebookInv
<1>2. \A m \in Ids : message[m].parent \in Ids \cup {0}
  BY DEF RebookInv, ParentsAreSaved
<1>3. /\ Ids' = Ids \cup {Saved + 1}
      /\ message'[Saved + 1] = [kind |-> kind, parent |-> parent, ref |-> ref]
      /\ \A m \in Ids : message'[m] = message[m]
  BY <1>1, SettlementSaveShape
<1>4. message'[Saved + 1].parent = parent
  BY <1>3
<1> QED
  BY <1>2, <1>3, <1>4 DEF ParentsAreSaved

\* What a request carries about the messages stays true when a message is saved.
LEMMA SaveKeepsCarried ==
    ASSUME RebookInv, NEW kind, NEW parent, NEW ref, Save(kind, parent, ref), NEW q \in Clients
    PROVE  /\ client[q].original \in Ids => client[q].original \in Ids'
           /\ \A o, c : c \in Children(o, {"cancellation"}) =>
                   c \in Children(o, {"cancellation"})'
           /\ \A c : Children(c, {"accepted"}) # {} => Children(c, {"accepted"})' # {}
<1>1. SettlementTypeOK
  BY DEF RebookInv
<1>2. Ids' = Ids \cup {Saved + 1}
  BY <1>1, SettlementSaveShape
<1>3. \A o, kinds : Children(o, kinds) \subseteq Children(o, kinds)'
  BY <1>1, SaveChildren
<1> QED
  BY <1>2, <1>3

\* A step that saves nothing and reserves nothing more keeps the invariant.
LEMMA QuietKeeps ==
    ASSUME RebookInv, SettlementTypeOK', message' = message,
           \A q \in Clients : ~Free(q)' => client'[q].original \in Ids,
           \A q \in Clients : Replaces(q)' => client'[q] = client[q]
    PROVE  RebookInv'
<1>1. Ids' = Ids /\ \A i, kinds : Children(i, kinds)' = Children(i, kinds)
  BY DEF Ids, Children
<1>2. ParentsAreSaved' /\ OriginalsAreSaved'
  BY <1>1 DEF RebookInv, ParentsAreSaved, OriginalsAreSaved
<1>3. \A q \in Clients : Replaces(q)' => Replaces(q)
  BY DEF Replaces
<1>4. ReservedAreCancellations'
  BY <1>1, <1>3 DEF RebookInv, ReservedAreCancellations
<1>5. AcceptedBeforeReplaced'
  BY <1>1, <1>3 DEF RebookInv, AcceptedBeforeReplaced, Replaces
<1>6. ReservedOnce'
  BY <1>3 DEF RebookInv, ReservedOnce
<1>7. ASSUME NEW o \in Ids PROVE Covered(o)'
  <2>1. Reserved(o)' \subseteq Reserved(o)
    BY <1>3 DEF Reserved
  <2>2. Accepted(o)' = Accepted(o)
    BY <1>1 DEF Accepted
  <2> QED
    BY <1>1, <2>1, <2>2, StillCovered DEF RebookInv
<1> QED
  BY <1>1, <1>2, <1>4, <1>5, <1>6, <1>7 DEF RebookInv

\* Saving a message that is not a replacement keeps the invariant, when no request
\* comes to reserve anything by it.
LEMMA PlainSaveKeeps ==
    ASSUME RebookInv, SettlementTypeOK', NEW kind \in Kinds \ {"replacement"},
           NEW parent \in Ids \cup {0}, NEW ref, Save(kind, parent, ref),
           \A q \in Clients : ~Free(q)' => client'[q] = client[q]
    PROVE  RebookInv'
<1>1. \A q \in Clients : ~Free(q)' => ~Free(q)
  BY DEF Free
<1>2. \A q \in Clients : Replaces(q)' => Replaces(q) /\ ~Free(q)'
  BY DEF Replaces, Free
<1>3. OriginalsAreSaved'
  BY <1>1, SaveKeepsCarried DEF RebookInv, OriginalsAreSaved
<1>4. ReservedAreCancellations'
  BY <1>2, SaveKeepsCarried DEF RebookInv, ReservedAreCancellations
<1>5. AcceptedBeforeReplaced'
  BY <1>2, SaveKeepsCarried DEF RebookInv, AcceptedBeforeReplaced, Replaces
<1>6. ReservedOnce'
  BY <1>2 DEF RebookInv, ReservedOnce
<1>7. \A o \in Ids : Reserved(o)' \subseteq Reserved(o)
  BY <1>2 DEF Reserved
<1> QED
  BY <1>3, <1>4, <1>5, <1>6, <1>7, SaveKeepsParents, OtherSaveCovers DEF RebookInv

\* The request that rebooks saves its cancellation, which from then on it reserves.
LEMMA CancellationKeeps ==
    ASSUME RebookInv, SettlementTypeOK', NEW q \in Clients, SaveRebookCancellation(q)
    PROVE  RebookInv'
<1> SUFFICES ASSUME NEW n, n = Saved + 1, NEW o, o = client[q].original PROVE RebookInv'
  OBVIOUS
<1>1. SettlementTypeOK /\ client \in [Clients -> ClientRow]
  BY DEF RebookInv, SettlementTypeOK
<1>2. /\ client[q].step = "rebook" /\ Save("cancellation", o, client[q].ref)
      /\ client' = [client EXCEPT ![q].step = "accept", ![q].canc = n]
  BY DEF SaveRebookCancellation
<1>3. o \in Ids /\ "cancellation" \in Kinds \ {"replacement"}
  BY <1>2 DEF RebookInv, OriginalsAreSaved, Free, Kinds, Amendments
<1>4. /\ client'[q].step = "accept" /\ client'[q].canc = n /\ client'[q].original = o
      /\ \A p \in Clients \ {q} : client'[p] = client[p]
  BY <1>1, <1>2 DEF ClientRow
<1>5. \A p \in Clients \ {q} : Replaces(p)' => Replaces(p)
  BY <1>4 DEF Replaces
<1>6. n \notin Ids /\ n \in Children(o, {"cancellation"})'
  <2>1. Saved + 1 \notin Ids
    BY <1>1, <1>2, SettlementSaveShape
  <2>2. Children(o, {"cancellation"})' = Children(o, {"cancellation"}) \cup {Saved + 1}
    BY <1>1, <1>2, SaveChildren
  <2> QED
    BY <2>1, <2>2
<1>7. OriginalsAreSaved'
  BY <1>2, <1>3, <1>4, SaveKeepsCarried DEF RebookInv, OriginalsAreSaved, Free
<1>8. ReservedAreCancellations'
  BY <1>2, <1>4, <1>5, <1>6, SaveKeepsCarried DEF RebookInv, ReservedAreCancellations
<1>9. AcceptedBeforeReplaced'
  BY <1>2, <1>4, SaveKeepsCarried DEF RebookInv, AcceptedBeforeReplaced
<1>10. \A p \in Clients : Replaces(p) => client[p].canc \in Ids
  BY DEF RebookInv, ReservedAreCancellations, Children
<1>11. ReservedOnce'
  BY <1>4, <1>5, <1>6, <1>10 DEF RebookInv, ReservedOnce
<1>12. \A i \in Ids : Reserved(i)' \subseteq Reserved(i) \cup {n}
  BY <1>4, <1>5 DEF Reserved
<1>13. ParentsAreSaved' /\ \A i \in Ids' : Covered(i)'
  BY <1>2, <1>3, <1>12, SaveKeepsParents, OtherSaveCovers
<1> QED
  BY <1>7, <1>8, <1>9, <1>11, <1>13 DEF RebookInv

\* It accepts that cancellation.
LEMMA AcceptanceKeeps ==
    ASSUME RebookInv, SettlementTypeOK', NEW q \in Clients, AcceptRebook(q)
    PROVE  RebookInv'
<1> SUFFICES ASSUME NEW c, c = client[q].canc PROVE RebookInv'
  OBVIOUS
<1>1. SettlementTypeOK /\ client \in [Clients -> ClientRow]
  BY DEF RebookInv, SettlementTypeOK
<1>2. /\ client[q].step = "accept" /\ Save("accepted", c, Synthetic)
      /\ client' = [client EXCEPT ![q].step = "replace"]
  BY DEF AcceptRebook, AcceptedBy, Advances
<1>3. c \in Ids /\ "accepted" \in Kinds \ {"replacement"}
  BY <1>2 DEF RebookInv, ReservedAreCancellations, Replaces, Children, Kinds, Responses
<1>4. /\ client'[q].step = "replace" /\ client'[q].canc = c
      /\ client'[q].original = client[q].original
      /\ \A p \in Clients \ {q} : client'[p] = client[p]
  BY <1>1, <1>2 DEF ClientRow
<1>5. /\ \A p \in Clients : Replaces(p)' => Replaces(p)
      /\ \A p \in Clients : client'[p].canc = client[p].canc
                            /\ client'[p].original = client[p].original
  BY <1>2, <1>4 DEF Replaces
<1>6. Children(c, {"accepted"})' # {}
  BY <1>1, <1>2, SaveChildren
<1>7. OriginalsAreSaved'
  BY <1>2, <1>4, SaveKeepsCarried DEF RebookInv, OriginalsAreSaved, Free
<1>8. ReservedAreCancellations'
  BY <1>2, <1>5, SaveKeepsCarried DEF RebookInv, ReservedAreCancellations
<1>9. AcceptedBeforeReplaced'
  BY <1>2, <1>4, <1>6, SaveKeepsCarried DEF RebookInv, AcceptedBeforeReplaced
<1>10. ReservedOnce'
  BY <1>5 DEF RebookInv, ReservedOnce
<1>11. \A i \in Ids : Reserved(i)' \subseteq Reserved(i)
  BY <1>5 DEF Reserved
<1>12. ParentsAreSaved' /\ \A i \in Ids' : Covered(i)'
  BY <1>2, <1>3, <1>11, SaveKeepsParents, OtherSaveCovers
<1> QED
  BY <1>7, <1>8, <1>9, <1>10, <1>12 DEF RebookInv

\* It saves the replacement: one more of them, and one more accepted cancellation
\* that nothing reserves any longer.
LEMMA ReplacementKeeps ==
    ASSUME RebookInv, SettlementTypeOK', NEW q \in Clients, Rebook(q)
    PROVE  RebookInv'
<1> SUFFICES ASSUME NEW n, n = Saved + 1, NEW o, o = client[q].original,
                    NEW c, c = client[q].canc
             PROVE  RebookInv'
  OBVIOUS
<1>1. SettlementTypeOK /\ client \in [Clients -> ClientRow]
  BY DEF RebookInv, SettlementTypeOK
<1>2. /\ client[q].step = "replace" /\ Replaces(q)
      /\ Save("replacement", o, client[q].next)
      /\ client' = [client EXCEPT ![q] = NoClient]
  BY DEF Rebook, Leaves, Replaces
<1>3. /\ Free(q)' /\ ~Replaces(q)'
      /\ \A p \in Clients \ {q} : client'[p] = client[p]
  BY <1>1, <1>2 DEF NoClient, Free, Replaces
<1>4. \A p \in Clients : Replaces(p)' => Replaces(p) /\ client'[p] = client[p]
  BY <1>3 DEF Replaces
<1>5. o \in Ids /\ c \in Children(o, {"cancellation"}) /\ Children(c, {"accepted"}) # {}
  BY <1>2 DEF RebookInv, OriginalsAreSaved, ReservedAreCancellations, AcceptedBeforeReplaced, Free
<1>6. /\ n \notin Ids /\ Ids' = Ids \cup {n}
      /\ \A i : Children(i, {"cancellation"})' = Children(i, {"cancellation"})
      /\ \A i : Children(i, {"accepted"})' = Children(i, {"accepted"})
      /\ Children(o, {"replacement"})' = Children(o, {"replacement"}) \cup {n}
      /\ \A i : i # o => Children(i, {"replacement"})' = Children(i, {"replacement"})
  <2>1. Saved + 1 \notin Ids /\ Ids' = Ids \cup {Saved + 1}
    BY <1>1, <1>2, SettlementSaveShape
  <2>2. /\ \A i : Children(i, {"cancellation"})' = Children(i, {"cancellation"})
        /\ \A i : Children(i, {"accepted"})' = Children(i, {"accepted"})
    BY <1>1, <1>2, SaveChildren
  <2>3. /\ Children(o, {"replacement"})' = Children(o, {"replacement"}) \cup {Saved + 1}
        /\ \A i : i # o => Children(i, {"replacement"})' = Children(i, {"replacement"})
    BY <1>1, <1>2, SaveChildren
  <2> QED
    BY <2>1, <2>2, <2>3
<1>7. ParentsAreSaved'
  BY <1>2, <1>5, SaveKeepsParents
<1>8. OriginalsAreSaved'
  BY <1>3, <1>6 DEF RebookInv, OriginalsAreSaved, Free
<1>9. ReservedAreCancellations' /\ AcceptedBeforeReplaced' /\ ReservedOnce'
  BY <1>4, <1>6
     DEF RebookInv, ReservedAreCancellations, AcceptedBeforeReplaced, ReservedOnce, Replaces
<1>10. \A i : Accepted(i)' = Accepted(i)
  BY <1>6 DEF Accepted
<1>11. \A i : Reserved(i)' \subseteq Reserved(i)
  BY <1>4 DEF Reserved
<1>12. ASSUME NEW i \in Ids \ {o} PROVE Covered(i)'
  BY <1>1, <1>6, <1>10, <1>11, StillCovered DEF RebookInv
<1>13. Covered(n)'
  <2>1. \A m \in Ids : message[m].parent # n
    BY <1>1, <1>6, MessageShape DEF RebookInv, ParentsAreSaved
  <2>2. Children(n, {"replacement"}) = {}
    BY <2>1 DEF Children
  <2>3. Children(n, {"replacement"})' = {}
    BY <1>5, <1>6, <2>2
  <2>4. Cardinality(Children(n, {"replacement"})') = 0
    BY <2>3, FS_EmptySet
  <2>5. Cardinality((Accepted(n) \ Reserved(n))') \in Nat
    BY AcceptedFiniteNext, FS_CardinalityType
  <2> QED
    BY <2>4, <2>5 DEF Covered
<1>14. Covered(o)'
  <2>1. c \in Accepted(o) /\ c \in Reserved(o)
    BY <1>2, <1>5 DEF Accepted, Reserved
  <2>2. c \notin Reserved(o)'
    BY <1>2, <1>3, <1>4 DEF RebookInv, ReservedOnce, Reserved
  <2>3. (Accepted(o) \ Reserved(o)) \cup {c} \in SUBSET (Accepted(o) \ Reserved(o))'
    BY <1>10, <1>11, <2>1, <2>2
  <2>4. IsFiniteSet(Accepted(o) \ Reserved(o)) /\ IsFiniteSet((Accepted(o) \ Reserved(o))')
    BY <1>1, AcceptedFinite, AcceptedFiniteNext
  <2>5. Cardinality((Accepted(o) \ Reserved(o)) \cup {c}) = Cardinality(Accepted(o) \ Reserved(o)) + 1
    BY <2>1, <2>4, FS_AddElement
  <2>6. Cardinality((Accepted(o) \ Reserved(o)) \cup {c})
            <= Cardinality((Accepted(o) \ Reserved(o))')
    BY <2>3, <2>4, FS_Subset
  <2>7. IsFiniteSet(Children(o, {"replacement"})) /\ n \notin Children(o, {"replacement"})
    BY <1>1, <1>6, ChildrenFinite
  <2>8. Cardinality(Children(o, {"replacement"})') = Cardinality(Children(o, {"replacement"})) + 1
    BY <1>6, <2>7, FS_AddElement
  <2>9. /\ Cardinality(Children(o, {"replacement"})) \in Nat
        /\ Cardinality(Accepted(o) \ Reserved(o)) \in Nat
        /\ Cardinality((Accepted(o) \ Reserved(o))') \in Nat
    BY <2>4, <2>7, FS_CardinalityType
  <2>10. Cardinality(Children(o, {"replacement"})) <= Cardinality(Accepted(o) \ Reserved(o))
    BY <1>5 DEF RebookInv, Covered
  <2> QED
    BY <2>5, <2>6, <2>8, <2>9, <2>10 DEF Covered
<1> QED
  BY <1>6, <1>7, <1>8, <1>9, <1>12, <1>13, <1>14 DEF RebookInv

\* Every step keeps the invariant.
LEMMA StepKeepsRebook == RebookInv /\ [SettlementNext]_settlementVars => RebookInv'
<1> SUFFICES ASSUME RebookInv, [SettlementNext]_settlementVars PROVE RebookInv'
  OBVIOUS
<1>1. SettlementTypeOK /\ client \in [Clients -> ClientRow]
  BY DEF RebookInv, SettlementTypeOK
<1>2. SettlementTypeOK'
  BY <1>1, StepType
<1>3. \A q \in Clients : ~Free(q) => client[q].original \in Ids
  BY DEF RebookInv, OriginalsAreSaved
<1>4. ASSUME NEW q \in Clients, Leaves(q)
      PROVE  \A p \in Clients : ~Free(p)' => client'[p] = client[p]
  BY <1>1, <1>4 DEF Leaves, NoClient, Free
<1>5. ASSUME NEW q \in Clients, NEW row, row.step \notin {"accept", "replace"},
             row.original \in Ids, Enters(q, row), message' = message
      PROVE  RebookInv'
  <2>1. client'[q] = row /\ \A p \in Clients \ {q} : client'[p] = client[p]
    BY <1>1, <1>5 DEF Enters
  <2>2. \A p \in Clients : ~Free(p)' => client'[p].original \in Ids
    BY <1>3, <1>5, <2>1 DEF Free
  <2>3. \A p \in Clients : Replaces(p)' => client'[p] = client[p]
    BY <1>5, <2>1 DEF Replaces
  <2> QED
    BY <1>2, <1>5, <2>2, <2>3, QuietKeeps
<1>6. CASE UNCHANGED settlementVars
  BY <1>2, <1>3, <1>6, QuietKeeps DEF settlementVars, Free
<1>7. ASSUME NEW ref \in References \cup {Synthetic}, Instruct(ref) PROVE RebookInv'
  <2>1. "instruction" \in Kinds \ {"replacement"} /\ 0 \in Ids \cup {0}
    BY DEF Kinds, Instructions
  <2> QED
    BY <1>2, <1>7, <2>1, PlainSaveKeeps DEF Instruct
<1>8. ASSUME NEW i \in Ids, NEW kind \in Responses, NEW ref \in References \cup {Synthetic},
             Respond(i, kind, ref)
      PROVE  RebookInv'
  <2>1. kind \in Kinds \ {"replacement"} /\ i \in Ids \cup {0}
    BY DEF Kinds, Responses
  <2> QED
    BY <1>2, <1>8, <2>1, PlainSaveKeeps DEF Respond
<1>9. ASSUME NEW q \in Clients, NEW o \in Ids, NEW ref \in References \cup {Synthetic},
             CheckCancellation(q, o, ref)
      PROVE  RebookInv'
  <2> DEFINE row == [NoClient EXCEPT !.step = "cancel", !.original = o, !.ref = ref]
  <2>1. row.step = "cancel" /\ row.original = o
    BY DEF NoClient
  <2>2. Enters(q, row) /\ message' = message
    BY <1>9 DEF CheckCancellation
  <2> HIDE DEF row
  <2> QED
    BY <1>5, <2>1, <2>2
<1>10. ASSUME NEW q \in Clients, NEW o \in Ids, NEW ref \in References, CheckCommand(q, o, ref)
       PROVE  RebookInv'
  <2> DEFINE row == [NoClient EXCEPT !.step = "command", !.original = o, !.ref = ref]
  <2>1. row.step = "command" /\ row.original = o
    BY DEF NoClient
  <2>2. Enters(q, row) /\ message' = message
    BY <1>10 DEF CheckCommand
  <2> HIDE DEF row
  <2> QED
    BY <1>5, <2>1, <2>2
<1>11. ASSUME NEW q \in Clients, NEW o \in Ids, NEW ref \in References, NEW next \in References,
              Decide(q, o, ref, next)
       PROVE  RebookInv'
  <2> DEFINE row == [NoClient EXCEPT !.step = "request", !.original = o, !.ref = ref,
                                     !.next = next]
  <2>1. row.step = "request" /\ row.original = o
    BY DEF NoClient
  <2>2. Enters(q, row) /\ message' = message
    BY <1>11 DEF Decide
  <2> HIDE DEF row
  <2> QED
    BY <1>5, <2>1, <2>2
<1>12. ASSUME NEW q \in Clients, SaveCancellation(q) PROVE RebookInv'
  <2>1. client[q].original \in Ids /\ "cancellation" \in Kinds \ {"replacement"}
    BY <1>3, <1>12 DEF SaveCancellation, Free, Kinds, Amendments
  <2> QED
    BY <1>2, <1>4, <1>12, <2>1, PlainSaveKeeps DEF SaveCancellation
<1>13. ASSUME NEW q \in Clients, SaveCommand(q) PROVE RebookInv'
  <2>1. client[q].original \in Ids /\ "command" \in Kinds \ {"replacement"}
    BY <1>3, <1>13 DEF SaveCommand, Free, Kinds, Amendments
  <2> QED
    BY <1>2, <1>4, <1>13, <2>1, PlainSaveKeeps DEF SaveCommand
<1>14. ASSUME NEW q \in Clients, CheckRebook(q) PROVE RebookInv'
  <2>1. /\ client[q].step = "request" /\ message' = message
        /\ client'[q].step = "rebook" /\ client'[q].original = client[q].original
        /\ \A p \in Clients \ {q} : client'[p] = client[p]
    BY <1>1, <1>14 DEF CheckRebook, Advances, ClientRow
  <2>2. \A p \in Clients : ~Free(p)' => client'[p].original \in Ids
    BY <1>3, <2>1 DEF Free
  <2>3. \A p \in Clients : Replaces(p)' => client'[p] = client[p]
    BY <2>1 DEF Replaces
  <2> QED
    BY <1>2, <2>1, <2>2, <2>3, QuietKeeps
<1>15. ASSUME NEW q \in Clients, Fails(q) PROVE RebookInv'
  <2>1. \A p \in Clients : ~Free(p)' => client'[p] = client[p]
    BY <1>4, <1>15 DEF Fails
  <2>2. \A p \in Clients : Replaces(p)' => ~Free(p)'
    BY DEF Replaces, Free
  <2>3. \A p \in Clients : ~Free(p)' => client'[p].original \in Ids
    BY <1>3, <2>1 DEF Free
  <2> QED
    BY <1>2, <1>15, <2>1, <2>2, <2>3, QuietKeeps DEF Fails
<1> QED
  BY <1>2, <1>6, <1>7, <1>8, <1>9, <1>10, <1>11, <1>12, <1>13, <1>14, <1>15,
     CancellationKeeps, AcceptanceKeeps, ReplacementKeeps
     DEF SettlementNext

LEMMA InitRebook == SettlementInit => RebookInv
<1> SUFFICES ASSUME SettlementInit PROVE RebookInv
  OBVIOUS
<1>1. Ids = {} /\ \A q \in Clients : client[q].step = "idle"
  BY DEF SettlementInit, Ids, NoClient
<1> QED
  BY <1>1, SettlementInitType DEF RebookInv, ParentsAreSaved, OriginalsAreSaved, ReservedAreCancellations,
     AcceptedBeforeReplaced, ReservedOnce, Replaces, Free

\* However requests interleave and wherever one is killed between two messages, an
\* instruction never has more replacements than accepted cancellations.
THEOREM RebookingIsCancelled == SettlementSpec => []RebookedWasCancelled
<1>1. RebookInv => RebookedWasCancelled
  <2> SUFFICES ASSUME RebookInv, NEW o \in Ids
               PROVE  Cardinality(Children(o, {"replacement"})) <= Cardinality(Accepted(o))
    BY DEF RebookedWasCancelled, Accepted
  <2>1. /\ SettlementTypeOK
        /\ Cardinality(Children(o, {"replacement"})) <= Cardinality(Accepted(o) \ Reserved(o))
    BY DEF RebookInv, Covered
  <2>2. Cardinality(Accepted(o) \ Reserved(o)) <= Cardinality(Accepted(o))
    BY <2>1, AcceptedFinite, FS_Subset
  <2>3. /\ Cardinality(Children(o, {"replacement"})) \in Nat
        /\ Cardinality(Accepted(o) \ Reserved(o)) \in Nat /\ Cardinality(Accepted(o)) \in Nat
    BY <2>1, AcceptedFinite, ChildrenFinite, FS_CardinalityType
  <2> QED
    BY <2>1, <2>2, <2>3
<1> QED
  BY <1>1, InitRebook, StepKeepsRebook, PTL DEF SettlementSpec

--------------------------------------------------------------------------------
(***************************************************************************)
(* As long as requests do not overlap.  What a request has read when it    *)
(* comes to save is still so, because the messages saved since are its own *)
(* (Prepared).                                                             *)
(***************************************************************************)

Closed(c) == Children(c, {"accepted", "rejected"}) # {}
AtMostOneActive ==
    \A o \in Ids : \A c, d \in Children(o, {"cancellation"}) : c # d => Closed(c) \/ Closed(d)
MayRepeat(m, kind, parent, ref) ==
    \/ ref = Synthetic
    \/ kind = "replacement" /\ message[m].kind = "cancellation" /\ parent = message[m].parent
ReferencesNew ==
    \A m, n \in Ids :
        m < n /\ message[n].kind \in Amendments /\ message[n].ref = message[m].ref
            => MayRepeat(m, message[n].kind, message[n].parent, message[n].ref)

Prepared(q) ==
    /\ client[q].step \in {"cancel", "rebook"} => ~HasActiveCancellation(client[q].original)
    /\ client[q].step \in {"cancel", "command", "rebook"} => ~ReferenceExists(client[q].ref)
    /\ client[q].step \in {"request", "rebook"} => ~ReferenceExists(client[q].next)
    /\ Replaces(q) =>
           \A m \in Ids : message[m].ref = client[q].next /\ client[q].next # Synthetic
                             => m = client[q].canc
OneAtATime == \A p, q \in Clients : p # q => Free(p) \/ Free(q)
SettlementSerial ==
    ~overlapped => /\ OneAtATime /\ \A q \in Clients : Prepared(q)
                   /\ AtMostOneActive /\ ReferencesNew
SerialInv == RebookInv /\ SettlementSerial

\* A message whose reference may be that of an earlier one, and that is not a second
\* active cancellation, keeps both facts about all messages.
LEMMA SaveKeepsPairs ==
    ASSUME RebookInv, AtMostOneActive, ReferencesNew,
           NEW kind, NEW parent \in Ids \cup {0}, NEW ref, Save(kind, parent, ref),
           kind = "cancellation" => ~HasActiveCancellation(parent),
           kind \in Amendments =>
               \A m \in Ids : message[m].ref = ref => MayRepeat(m, kind, parent, ref)
    PROVE  AtMostOneActive' /\ ReferencesNew'
<1> SUFFICES ASSUME NEW n, n = Saved + 1 PROVE AtMostOneActive' /\ ReferencesNew'
  OBVIOUS
<1>1. SettlementTypeOK /\ Ids = 1 .. Saved /\ Saved \in Nat
  BY MessageShape, SettlementBounds DEF RebookInv
<1>2. /\ Ids' = Ids \cup {n} /\ n \notin Ids
      /\ message'[n] = [kind |-> kind, parent |-> parent, ref |-> ref]
      /\ \A m \in Ids : message'[m] = message[m]
  BY <1>1, SettlementSaveShape
<1>3. \A c : Closed(c) => Closed(c)'
  BY <1>1, SaveChildren DEF Closed
<1>4. ASSUME NEW o \in Ids',
             NEW c \in Children(o, {"cancellation"})', NEW d \in Children(o, {"cancellation"})',
             c # d
      PROVE  Closed(c)' \/ Closed(d)'
  <2>1. CASE parent = o /\ kind = "cancellation"
    <3>1. Children(o, {"cancellation"})' = Children(o, {"cancellation"}) \cup {n}
      BY <1>1, <2>1, SaveChildren
    <3>2. \A e \in Children(o, {"cancellation"}) : Closed(e)
      BY <2>1 DEF HasActiveCancellation, Closed
    <3> QED
      BY <1>3, <1>4, <3>1, <3>2
  <2>2. CASE ~(parent = o /\ kind = "cancellation")
    <3>1. Children(o, {"cancellation"})' = Children(o, {"cancellation"})
      BY <1>1, <2>2, SaveChildren
    <3>2. o \in Ids
      <4>1. ASSUME o = n PROVE Children(o, {"cancellation"}) = {}
        BY <1>1, <1>2, <4>1 DEF RebookInv, ParentsAreSaved, Children
      <4> QED
        BY <1>2, <1>4, <3>1, <4>1
    <3> QED
      BY <1>3, <1>4, <3>1, <3>2 DEF AtMostOneActive
  <2> QED
    BY <2>1, <2>2
<1>5. ASSUME NEW m \in Ids', NEW k \in Ids', m < k, message'[k].kind \in Amendments,
             message'[k].ref = message'[m].ref
      PROVE  MayRepeat(m, message[k].kind, message[k].parent, message[k].ref)'
  <2>1. m \in Ids
    BY <1>1, <1>2, <1>5
  <2>2. CASE k \in Ids
    BY <1>2, <1>5, <2>1, <2>2 DEF ReferencesNew, MayRepeat
  <2>3. CASE k = n
    <3>1. message'[k].kind = kind /\ message'[k].parent = parent /\ message'[k].ref = ref
      BY <1>2, <2>3
    <3>2. message'[m] = message[m] /\ MayRepeat(m, kind, parent, ref)
      BY <1>2, <1>5, <2>1, <3>1
    <3> QED
      BY <3>1, <3>2 DEF MayRepeat
  <2> QED
    BY <1>2, <2>2, <2>3
<1>6. AtMostOneActive'
  BY <1>4 DEF AtMostOneActive
<1>7. ReferencesNew'
  BY <1>5 DEF ReferencesNew
<1> QED
  BY <1>6, <1>7

\* A step of one request, alone: the others are not in progress, before and after.
LEMMA AloneKeeps ==
    ASSUME SerialInv, ~overlapped, NEW q \in Clients,
           \A p \in Clients \ {q} : client'[p] = client[p] /\ Free(p)
    PROVE  OneAtATime' /\ \A p \in Clients \ {q} : Prepared(p)'
  BY DEF OneAtATime, Free, Prepared, Replaces

LEMMA Alone ==
    ASSUME SerialInv, ~overlapped, NEW q \in Clients, ~Free(q)
    PROVE  /\ \A p \in Clients \ {q} : Free(p)
           /\ Prepared(q) /\ AtMostOneActive /\ ReferencesNew
  BY DEF SerialInv, SettlementSerial, OneAtATime

\* A request that starts while none is in progress, having read the messages.
LEMMA EntryKeeps ==
    ASSUME SerialInv, NEW q \in Clients, NEW row, Enters(q, row), UNCHANGED message,
           row.step \in {"cancel", "command", "request"},
           row.step = "cancel" => ~HasActiveCancellation(row.original),
           row.step \in {"cancel", "command"} => ~ReferenceExists(row.ref),
           row.step = "request" => ~ReferenceExists(row.next)
    PROVE  SettlementSerial'
<1> SUFFICES ASSUME ~overlapped' PROVE OneAtATime' /\ (\A p \in Clients : Prepared(p)')
                                        /\ AtMostOneActive' /\ ReferencesNew'
  BY DEF SettlementSerial
<1>1. ~overlapped /\ \A p \in Clients : Free(p)
  BY DEF Enters, Overlaps
<1>2. client'[q] = row /\ \A p \in Clients \ {q} : client'[p] = client[p]
  BY DEF SerialInv, RebookInv, SettlementTypeOK, Enters
<1>3. /\ Ids' = Ids /\ \A i, kinds : Children(i, kinds)' = Children(i, kinds)
      /\ \A i : HasActiveCancellation(i)' = HasActiveCancellation(i)
      /\ \A ref : ReferenceExists(ref)' = ReferenceExists(ref)
  BY DEF Ids, Children, HasActiveCancellation, ReferenceExists
<1>4. AtMostOneActive' /\ ReferencesNew'
  BY <1>1, <1>3 DEF SerialInv, SettlementSerial, AtMostOneActive, ReferencesNew, Closed, MayRepeat
<1>5. ~HasActiveCancellation(client[q].original)' \/ row.step # "cancel"
  BY <1>2 DEF HasActiveCancellation, Children, Ids
<1>6. ~ReferenceExists(client[q].ref)' \/ row.step \notin {"cancel", "command"}
  BY <1>2 DEF ReferenceExists, Ids
<1>7. ~ReferenceExists(client[q].next)' \/ row.step # "request"
  BY <1>2 DEF ReferenceExists, Ids
<1>8. Prepared(q)'
  BY <1>2, <1>5, <1>6, <1>7 DEF Prepared, Replaces
<1>9. OneAtATime' /\ \A p \in Clients \ {q} : Prepared(p)'
  BY <1>1, <1>2, AloneKeeps
<1> QED
  BY <1>4, <1>8, <1>9

\* A request that saves what it was about to and is done.
LEMMA DepartureKeeps ==
    ASSUME SerialInv, ~overlapped, NEW q \in Clients, ~Free(q), Leaves(q),
           NEW kind, NEW parent \in Ids \cup {0}, NEW ref, Save(kind, parent, ref),
           kind = "cancellation" => ~HasActiveCancellation(parent),
           kind \in Amendments =>
               \A m \in Ids : message[m].ref = ref => MayRepeat(m, kind, parent, ref)
    PROVE  OneAtATime' /\ (\A p \in Clients : Prepared(p)') /\ AtMostOneActive' /\ ReferencesNew'
<1>1. client'[q] = NoClient /\ \A p \in Clients \ {q} : client'[p] = client[p]
  BY DEF SerialInv, RebookInv, SettlementTypeOK, Leaves
<1>2. Prepared(q)'
  BY <1>1 DEF NoClient, Prepared, Replaces
<1>3. OneAtATime' /\ \A p \in Clients \ {q} : Prepared(p)'
  BY <1>1, Alone, AloneKeeps
<1>4. AtMostOneActive' /\ ReferencesNew'
  BY Alone, SaveKeepsPairs DEF SerialInv
<1> QED
  BY <1>2, <1>3, <1>4

\* Every step keeps what holds while requests do not overlap.
LEMMA SettlementStepKeepsSerial == SerialInv /\ [SettlementNext]_settlementVars => SerialInv'
<1> SUFFICES ASSUME SerialInv, [SettlementNext]_settlementVars PROVE SerialInv'
  OBVIOUS
<1>1. /\ RebookInv /\ RebookInv' /\ SettlementSerial
      /\ SettlementTypeOK /\ client \in [Clients -> ClientRow]
  BY StepKeepsRebook DEF SerialInv, RebookInv, SettlementTypeOK
<1>2. \A q \in Clients : ~Free(q) => client[q].original \in Ids
  BY <1>1 DEF RebookInv, OriginalsAreSaved
<1> SUFFICES ASSUME ~overlapped'
             PROVE  OneAtATime' /\ (\A p \in Clients : Prepared(p)')
                    /\ AtMostOneActive' /\ ReferencesNew'
  BY <1>1 DEF SerialInv, SettlementSerial
<1>3. ASSUME NEW kind \in Kinds \ Amendments, NEW parent \in Ids \cup {0}, NEW ref,
             Save(kind, parent, ref), Overlaps, UNCHANGED client
      PROVE  OneAtATime' /\ (\A p \in Clients : Prepared(p)')
             /\ AtMostOneActive' /\ ReferencesNew'
  <2>1. ~overlapped /\ \A p \in Clients : Free(p)
    BY <1>3 DEF Overlaps
  <2>2. kind # "cancellation"
    BY <1>3 DEF Amendments
  <2>3. AtMostOneActive' /\ ReferencesNew'
    BY <1>1, <1>3, <2>1, <2>2, SaveKeepsPairs DEF SettlementSerial
  <2> QED
    BY <1>3, <2>1, <2>3 DEF OneAtATime, Prepared, Replaces, Free
<1>4. CASE UNCHANGED settlementVars
  BY <1>1, <1>4 DEF settlementVars, SettlementSerial, OneAtATime, Prepared, Replaces, Free, AtMostOneActive,
     ReferencesNew, MayRepeat, Closed, HasActiveCancellation, ReferenceExists, Children, Ids
<1>5. ASSUME NEW ref \in References \cup {Synthetic}, Instruct(ref)
      PROVE  OneAtATime' /\ (\A p \in Clients : Prepared(p)')
             /\ AtMostOneActive' /\ ReferencesNew'
  <2>1. "instruction" \in Kinds \ Amendments
    BY DEF Kinds, Instructions, Amendments
  <2> QED
    BY <1>3, <1>5, <2>1 DEF Instruct
<1>6. ASSUME NEW i \in Ids, NEW kind \in Responses, NEW ref \in References \cup {Synthetic},
             Respond(i, kind, ref)
      PROVE  OneAtATime' /\ (\A p \in Clients : Prepared(p)')
             /\ AtMostOneActive' /\ ReferencesNew'
  <2>1. kind \in Kinds \ Amendments
    BY DEF Kinds, Responses, Amendments
  <2> QED
    BY <1>3, <1>6, <2>1 DEF Respond
<1>7. ASSUME NEW q \in Clients, NEW o \in Ids, NEW ref \in References \cup {Synthetic},
             CheckCancellation(q, o, ref)
      PROVE  SettlementSerial'
  <2> DEFINE row == [NoClient EXCEPT !.step = "cancel", !.original = o, !.ref = ref]
  <2>1. row.step = "cancel" /\ row.original = o /\ row.ref = ref
    BY DEF NoClient
  <2>2. /\ Enters(q, row) /\ UNCHANGED message
        /\ ~HasActiveCancellation(o) /\ ~ReferenceExists(ref)
    BY <1>7 DEF CheckCancellation
  <2> HIDE DEF row
  <2> QED
    BY <2>1, <2>2, EntryKeeps
<1>8. ASSUME NEW q \in Clients, NEW o \in Ids, NEW ref \in References, CheckCommand(q, o, ref)
      PROVE  SettlementSerial'
  <2> DEFINE row == [NoClient EXCEPT !.step = "command", !.original = o, !.ref = ref]
  <2>1. row.step = "command" /\ row.ref = ref
    BY DEF NoClient
  <2>2. Enters(q, row) /\ UNCHANGED message /\ ~ReferenceExists(ref)
    BY <1>8 DEF CheckCommand
  <2> HIDE DEF row
  <2> QED
    BY <2>1, <2>2, EntryKeeps
<1>9. ASSUME NEW q \in Clients, NEW o \in Ids, NEW ref \in References, NEW next \in References,
             Decide(q, o, ref, next)
      PROVE  SettlementSerial'
  <2> DEFINE row == [NoClient EXCEPT !.step = "request", !.original = o, !.ref = ref,
                                     !.next = next]
  <2>1. row.step = "request" /\ row.next = next
    BY DEF NoClient
  <2>2. Enters(q, row) /\ UNCHANGED message /\ ~ReferenceExists(next)
    BY <1>9 DEF Decide
  <2> HIDE DEF row
  <2> QED
    BY <2>1, <2>2, EntryKeeps
<1>10. ASSUME NEW q \in Clients, SaveCancellation(q)
       PROVE  OneAtATime' /\ (\A p \in Clients : Prepared(p)')
              /\ AtMostOneActive' /\ ReferencesNew'
  <2>1. ~Free(q) /\ ~overlapped /\ client[q].step = "cancel"
    BY <1>10 DEF SaveCancellation, Free
  <2>2. ~HasActiveCancellation(client[q].original) /\ ~ReferenceExists(client[q].ref)
    BY <2>1, Alone DEF Prepared
  <2>3. \A m \in Ids : message[m].ref = client[q].ref
            => MayRepeat(m, "cancellation", client[q].original, client[q].ref)
    BY <2>2 DEF ReferenceExists, MayRepeat
  <2> QED
    BY <1>2, <1>10, <2>1, <2>2, <2>3, DepartureKeeps DEF SaveCancellation
<1>11. ASSUME NEW q \in Clients, SaveCommand(q)
       PROVE  OneAtATime' /\ (\A p \in Clients : Prepared(p)')
              /\ AtMostOneActive' /\ ReferencesNew'
  <2>1. ~Free(q) /\ ~overlapped /\ client[q].step = "command"
    BY <1>11 DEF SaveCommand, Free
  <2>2. ~ReferenceExists(client[q].ref)
    BY <2>1, Alone DEF Prepared
  <2>3. \A m \in Ids : message[m].ref = client[q].ref
            => MayRepeat(m, "command", client[q].original, client[q].ref)
    BY <2>2 DEF ReferenceExists, MayRepeat
  <2> QED
    BY <1>2, <1>11, <2>1, <2>3, DepartureKeeps DEF SaveCommand
<1>12. ASSUME NEW q \in Clients, CheckRebook(q)
       PROVE  OneAtATime' /\ (\A p \in Clients : Prepared(p)')
              /\ AtMostOneActive' /\ ReferencesNew'
  <2>1. ~Free(q) /\ ~overlapped /\ client[q].step = "request" /\ UNCHANGED message
    BY <1>12 DEF CheckRebook, Free
  <2>2. /\ client'[q].step = "rebook" /\ client'[q].original = client[q].original
        /\ client'[q].ref = client[q].ref /\ client'[q].next = client[q].next
        /\ \A p \in Clients \ {q} : client'[p] = client[p]
    BY <1>1, <1>12 DEF CheckRebook, Advances, ClientRow
  <2>3. /\ ~HasActiveCancellation(client[q].original) /\ ~ReferenceExists(client[q].ref)
        /\ ~ReferenceExists(client[q].next)
    BY <1>12, <2>1, Alone DEF CheckRebook, Prepared
  <2>4. Prepared(q)'
    BY <2>1, <2>2, <2>3
       DEF Prepared, Replaces, HasActiveCancellation, ReferenceExists, Children, Ids
  <2>5. OneAtATime' /\ \A p \in Clients \ {q} : Prepared(p)'
    BY <2>1, <2>2, Alone, AloneKeeps
  <2>6. AtMostOneActive' /\ ReferencesNew'
    BY <2>1, Alone DEF AtMostOneActive, ReferencesNew, MayRepeat, Closed, Children, Ids
  <2> QED
    BY <2>4, <2>5, <2>6
<1>13. ASSUME NEW q \in Clients, SaveRebookCancellation(q)
       PROVE  OneAtATime' /\ (\A p \in Clients : Prepared(p)')
              /\ AtMostOneActive' /\ ReferencesNew'
  <2>1. /\ ~Free(q) /\ ~overlapped /\ client[q].step = "rebook"
        /\ Save("cancellation", client[q].original, client[q].ref)
    BY <1>13 DEF SaveRebookCancellation, Free
  <2>2. /\ client'[q].step = "accept" /\ client'[q].canc = Saved + 1
        /\ client'[q].next = client[q].next
        /\ \A p \in Clients \ {q} : client'[p] = client[p]
    BY <1>1, <1>13 DEF SaveRebookCancellation, ClientRow
  <2>3. /\ ~HasActiveCancellation(client[q].original) /\ ~ReferenceExists(client[q].ref)
        /\ ~ReferenceExists(client[q].next)
    BY <2>1, Alone DEF Prepared
  <2>4. \A m \in Ids : message[m].ref = client[q].ref
            => MayRepeat(m, "cancellation", client[q].original, client[q].ref)
    BY <2>3 DEF ReferenceExists, MayRepeat
  <2>5. AtMostOneActive' /\ ReferencesNew'
    BY <1>1, <1>2, <2>1, <2>3, <2>4, Alone, SaveKeepsPairs
  <2>6. Ids' = Ids \cup {Saved + 1} /\ \A m \in Ids : message'[m] = message[m]
    BY <1>1, <2>1, SettlementSaveShape
  <2>7. Prepared(q)'
    BY <2>2, <2>3, <2>6 DEF Prepared, ReferenceExists
  <2>8. OneAtATime' /\ \A p \in Clients \ {q} : Prepared(p)'
    BY <2>1, <2>2, Alone, AloneKeeps
  <2> QED
    BY <2>5, <2>7, <2>8
<1>14. ASSUME NEW q \in Clients, AcceptRebook(q)
       PROVE  OneAtATime' /\ (\A p \in Clients : Prepared(p)')
              /\ AtMostOneActive' /\ ReferencesNew'
  <2>1. /\ ~Free(q) /\ ~overlapped /\ client[q].step = "accept" /\ Replaces(q)
        /\ Save("accepted", client[q].canc, Synthetic)
    BY <1>14 DEF AcceptRebook, AcceptedBy, Free, Replaces
  <2>2. /\ client'[q].step = "replace" /\ client'[q].canc = client[q].canc
        /\ client'[q].next = client[q].next
        /\ \A p \in Clients \ {q} : client'[p] = client[p]
    BY <1>1, <1>14 DEF AcceptRebook, Advances, ClientRow
  <2>3. \A m \in Ids : message[m].ref = client[q].next /\ client[q].next # Synthetic
                          => m = client[q].canc
    BY <2>1, Alone DEF Prepared
  <2>4. client[q].canc \in Ids /\ "accepted" \notin Amendments
    BY <1>1, <2>1 DEF RebookInv, ReservedAreCancellations, Children, Amendments
  <2>5. AtMostOneActive' /\ ReferencesNew'
    BY <1>1, <2>1, <2>4, Alone, SaveKeepsPairs
  <2>6. /\ Ids' = Ids \cup {Saved + 1} /\ \A m \in Ids : message'[m] = message[m]
        /\ message'[Saved + 1] = [kind |-> "accepted", parent |-> client[q].canc, ref |-> Synthetic]
    BY <1>1, <2>1, SettlementSaveShape
  <2>7. message'[Saved + 1].ref = Synthetic
    BY <2>6
  <2>8. Prepared(q)'
    BY <2>2, <2>3, <2>6, <2>7 DEF Prepared
  <2>9. OneAtATime' /\ \A p \in Clients \ {q} : Prepared(p)'
    BY <2>1, <2>2, Alone, AloneKeeps
  <2> QED
    BY <2>5, <2>8, <2>9
<1>15. ASSUME NEW q \in Clients, Rebook(q)
       PROVE  OneAtATime' /\ (\A p \in Clients : Prepared(p)')
              /\ AtMostOneActive' /\ ReferencesNew'
  <2>1. ~Free(q) /\ ~overlapped /\ Replaces(q)
    BY <1>15 DEF Rebook, Free, Replaces
  <2>2. client[q].canc \in Children(client[q].original, {"cancellation"})
    BY <1>1, <2>1 DEF RebookInv, ReservedAreCancellations
  <2>3. \A m \in Ids : message[m].ref = client[q].next
            => MayRepeat(m, "replacement", client[q].original, client[q].next)
    BY <2>1, <2>2, Alone DEF Prepared, Children, MayRepeat
  <2> QED
    BY <1>2, <1>15, <2>1, <2>3, DepartureKeeps DEF Rebook
<1>16. ASSUME NEW q \in Clients, Fails(q)
       PROVE  OneAtATime' /\ (\A p \in Clients : Prepared(p)')
              /\ AtMostOneActive' /\ ReferencesNew'
  <2>1. ~Free(q) /\ ~overlapped /\ UNCHANGED message
    BY <1>16 DEF Fails
  <2>2. client'[q] = NoClient /\ \A p \in Clients \ {q} : client'[p] = client[p]
    BY <1>1, <1>16 DEF Fails, Leaves
  <2>3. Prepared(q)'
    BY <2>2 DEF Prepared, Replaces, NoClient
  <2>4. OneAtATime' /\ \A p \in Clients \ {q} : Prepared(p)'
    BY <2>1, <2>2, Alone, AloneKeeps
  <2>5. AtMostOneActive' /\ ReferencesNew'
    BY <2>1, Alone DEF AtMostOneActive, ReferencesNew, MayRepeat, Closed, Children, Ids
  <2> QED
    BY <2>3, <2>4, <2>5
<1> QED
  BY <1>4, <1>5, <1>6, <1>7, <1>8, <1>9, <1>10, <1>11, <1>12, <1>13, <1>14, <1>15, <1>16
     DEF SettlementNext, SettlementSerial

LEMMA SettlementSerialHolds == SettlementSpec => []SerialInv
<1>1. SettlementInit => SettlementSerial
  BY DEF SettlementInit, SettlementSerial, OneAtATime, Prepared, AtMostOneActive, ReferencesNew, Replaces,
     Free, NoClient, Ids
<1>2. SettlementInit => SerialInv
  BY <1>1, InitRebook DEF SerialInv
<1> QED
  BY <1>2, SettlementStepKeepsSerial, PTL DEF SettlementSpec

\* While requests do not overlap, has_active_cancellation keeps an instruction from
\* having two cancellations that are neither accepted nor rejected.
THEOREM CancelledOnce == SettlementSpec => []OneActiveCancellation
<1>1. SerialInv => OneActiveCancellation
  BY DEF SerialInv, SettlementSerial, AtMostOneActive, Closed, OneActiveCancellation
<1> QED
  BY <1>1, SettlementSerialHolds, PTL

\* While requests do not overlap, sender_reference_exists keeps an amendment from
\* taking a reference in use, but for the one that cancel_and_rebook accepts twice.
THEOREM AmendmentsAreNew == SettlementSpec => []AmendmentReferencesAreNew
<1>1. SerialInv => AmendmentReferencesAreNew
  BY DEF SerialInv, SettlementSerial, ReferencesNew, MayRepeat, AmendmentReferencesAreNew
<1> QED
  BY <1>1, SettlementSerialHolds, PTL

--------------------------------------------------------------------------------
(***************************************************************************)
(* Nothing is rebooked in a settled timeline.  The timeline of a message   *)
(* is that of its root, found from parent to parent; parents are earlier   *)
(* messages and never change, so the root exists, there is one, and a      *)
(* message keeps it.                                                       *)
(***************************************************************************)

\* A set of numbers that is not empty has a smallest one.
LEMMA SmallestNumber ==
    ASSUME NEW S \in SUBSET Nat, S # {}
    PROVE  \E p \in S : \A q \in S : p <= q
<1> DEFINE Below(x) == {y \in S : y <= x}
           W == {Below(x) : x \in S}
<1>1. W \in SUBSET FiniteSubsetsOf(S)
  <2>1. ASSUME NEW x \in S PROVE Below(x) \in FiniteSubsetsOf(S)
    <3>0. S \subseteq Nat
      OBVIOUS
    <3>1. Below(x) \in SUBSET (0 .. x) /\ Below(x) \in SUBSET S
      <4>1. ASSUME NEW y \in S, y <= x PROVE y \in 0 .. x
        BY <2>1, <3>0, <4>1
      <4> QED
        BY <4>1
    <3>2. IsFiniteSet(0 .. x)
      <4>1. 0 \in Int /\ x \in Int
        OBVIOUS
      <4> QED
        BY <4>1, FS_Interval
    <3>3. IsFiniteSet(Below(x))
      BY <3>1, <3>2, FS_Subset
    <3> QED
      BY <3>1, <3>3 DEF FiniteSubsetsOf
  <2> QED
    BY <2>1
<1>2. W # {}
  OBVIOUS
<1>3. IsWellFoundedOn(StrictSubsetOrdering(S), FiniteSubsetsOf(S))
  BY FS_StrictSubsetOrderingWellFounded
<1>4. PICK B \in W : \A C \in W : <<C, B>> \notin StrictSubsetOrdering(S)
  <2> HIDE DEF W
  <2> QED
    BY <1>1, <1>2, <1>3, WFMin
<1>5. PICK p \in S : B = Below(p)
  OBVIOUS
<1>6. ASSUME NEW q \in S, q < p PROVE FALSE
  <2>1. Below(q) \in W /\ Below(q) \subseteq B /\ p \in B /\ p \notin Below(q)
    <3>1. p \in Nat /\ q \in Nat /\ S \subseteq Nat
      OBVIOUS
    <3>2. p \in Below(p) /\ p \notin Below(q)
      BY <1>6, <3>1
    <3>3. \A y \in S : y <= q => y <= p
      BY <1>6, <3>1
    <3>4. Below(q) \subseteq Below(p)
      BY <3>3
    <3> QED
      BY <1>5, <3>2, <3>4
  <2>2. Below(q) \in SUBSET S /\ B \in SUBSET S /\ Below(q) # B
    BY <1>5, <2>1
  <2>3. <<Below(q), B>> \in StrictSubsetOrdering(S)
    BY <2>1, <2>2 DEF StrictSubsetOrdering
  <2> QED
    BY <1>4, <2>1, <2>3
<1> QED
  BY <1>6

\* r takes every number up to N to the one where following parent from it ends.
RootsOf(r, N, parent) == \A i \in 1 .. N : r[i] = IF parent[i] = 0 THEN i ELSE r[parent[i]]

\* Roots exist: for the numbers up to m, by adding m to those up to m - 1.
LEMMA RootsExist ==
    ASSUME NEW N \in Nat, NEW parent \in [1 .. N -> 0 .. N], \A i \in 1 .. N : parent[i] < i
    PROVE  \E r \in [1 .. N -> 1 .. N] : RootsOf(r, N, parent)
<1> DEFINE P(m) == \E r \in [1 .. m -> 1 .. N] : RootsOf(r, m, parent)
           Bad == {m \in 0 .. N : ~P(m)}
<1>1. P(0)
  <2> DEFINE r == [i \in 1 .. 0 |-> 1]
  <2>1. r \in [1 .. 0 -> 1 .. N]
    OBVIOUS
  <2>2. RootsOf(r, 0, parent)
    BY DEF RootsOf
  <2> QED
    BY <2>1, <2>2
<1>2. ASSUME NEW m \in 1 .. N, P(m - 1) PROVE P(m)
  <2>1. PICK f \in [1 .. m - 1 -> 1 .. N] : RootsOf(f, m - 1, parent)
    BY <1>2
  <2> DEFINE r == [i \in 1 .. m |-> IF i # m THEN f[i]
                                   ELSE IF parent[m] = 0 THEN m ELSE f[parent[m]]]
  <2>2. \A i \in 1 .. m :
           /\ i # m => i \in 1 .. m - 1
           /\ parent[i] # 0 =>
                 parent[i] \in 1 .. m - 1 /\ parent[i] \in 1 .. m /\ parent[i] # m
    OBVIOUS
  <2>3. r \in [1 .. m -> 1 .. N]
    BY <2>1, <2>2
  <2>4. ASSUME NEW i \in 1 .. m PROVE r[i] = IF parent[i] = 0 THEN i ELSE r[parent[i]]
    <3>1. parent[i] # 0 => r[parent[i]] = f[parent[i]]
      BY <2>2
    <3>2. CASE i = m
      BY <3>1, <3>2
    <3>3. CASE i # m
      <4>1. r[i] = f[i] /\ i \in 1 .. m - 1
        BY <2>2, <3>3
      <4> QED
        BY <2>1, <3>1, <4>1 DEF RootsOf
    <3> QED
      BY <3>2, <3>3
  <2>5. RootsOf(r, m, parent)
    <3> HIDE DEF r
    <3> QED
      BY <2>4 DEF RootsOf
  <2> QED
    BY <2>3, <2>5
<1>3. Bad = {}
  <2> SUFFICES ASSUME Bad # {} PROVE FALSE
    OBVIOUS
  <2>1. PICK m \in Bad : \A q \in Bad : m <= q
    <3>1. Bad \in SUBSET Nat
      OBVIOUS
    <3> HIDE DEF Bad
    <3> QED
      BY <3>1, SmallestNumber
  <2>2. m \in 0 .. N /\ ~P(m)
    BY DEF Bad
  <2> HIDE DEF P
  <2>a. m # 0
    BY <1>1, <2>2
  <2>3. m \in 1 .. N /\ m - 1 \in 0 .. N /\ ~(m <= m - 1)
    BY <2>2, <2>a
  <2>4. P(m - 1)
    BY <2>1, <2>3 DEF Bad
  <2> QED
    BY <1>2, <2>2, <2>3, <2>4
<1> HIDE DEF P
<1>4. ASSUME ~P(N) PROVE FALSE
  <2>1. N \in Bad
    BY <1>4
  <2> QED
    BY <1>3, <2>1
<1>5. P(N)
  BY <1>4
<1> QED
  BY <1>5 DEF P

\* There is one root of each number.
LEMMA RootsAgree ==
    ASSUME NEW N \in Nat, NEW parent, \A i \in 1 .. N : parent[i] \in 0 .. N /\ parent[i] < i,
           NEW r, NEW f, RootsOf(r, N, parent), RootsOf(f, N, parent)
    PROVE  \A i \in 1 .. N : r[i] = f[i]
<1> DEFINE Bad == {i \in 1 .. N : r[i] # f[i]}
<1> SUFFICES ASSUME Bad # {} PROVE FALSE
  OBVIOUS
<1>1. PICK i \in Bad : \A j \in Bad : i <= j
  <2>1. Bad \in SUBSET Nat
    OBVIOUS
  <2> HIDE DEF Bad
  <2> QED
    BY <2>1, SmallestNumber
<1>2. i \in 1 .. N /\ r[i] # f[i]
  BY DEF Bad
<1>3. parent[i] # 0 => r[parent[i]] = f[parent[i]]
  <2>1. ASSUME parent[i] # 0 PROVE parent[i] \in 1 .. N /\ ~(i <= parent[i])
    BY <1>2, <2>1
  <2> QED
    BY <1>1, <2>1
<1> QED
  BY <1>2, <1>3 DEF RootsOf

\* Parents are earlier, and Root is the root that there is.
Earlier == \A m \in Ids : message[m].parent \in Nat /\ message[m].parent < m

LEMMA RootRule ==
    SettlementTypeOK /\ Earlier =>
        \A i \in Ids : /\ Root[i] \in Ids
                       /\ Root[i] = IF message[i].parent = 0 THEN i ELSE Root[message[i].parent]
<1> SUFFICES ASSUME SettlementTypeOK, Earlier
             PROVE  \A i \in Ids : /\ Root[i] \in Ids
                                   /\ Root[i] = IF message[i].parent = 0 THEN i
                                                ELSE Root[message[i].parent]
  OBVIOUS
<1> DEFINE parent == [i \in Ids |-> message[i].parent]
           Eq(f) == [i \in Ids |-> IF message[i].parent = 0 THEN i ELSE f[message[i].parent]]
<1>1. Saved \in Nat /\ Ids = 1 .. Saved
  BY MessageShape, SettlementBounds
<1>2. \A i \in 1 .. Saved : message[i].parent \in 0 .. Saved /\ message[i].parent < i
  BY <1>1 DEF Earlier
<1>3. parent \in [1 .. Saved -> 0 .. Saved] /\ \A i \in 1 .. Saved : parent[i] < i
  BY <1>1, <1>2
<1>4. PICK g \in [1 .. Saved -> 1 .. Saved] : RootsOf(g, Saved, parent)
  <2> HIDE DEF parent
  <2> QED
    BY <1>1, <1>3, RootsExist
<1>5. g = Eq(g)
  BY <1>1, <1>4 DEF RootsOf
<1>6. Root = CHOOSE f : f = Eq(f)
  BY DEF Root
<1>7. Root = Eq(Root)
  BY <1>5, <1>6
<1> HIDE DEF Eq
<1>8. \A i \in Ids : Root[i] = Eq(Root)[i]
  BY <1>7
<1>9. \A i \in Ids : Root[i] = IF message[i].parent = 0 THEN i ELSE Root[message[i].parent]
  BY <1>8 DEF Eq
<1>10. RootsOf(Root, Saved, parent)
  BY <1>1, <1>9 DEF RootsOf
<1>11. \A i \in 1 .. Saved : Root[i] = g[i]
  <2>1. \A i \in 1 .. Saved : parent[i] \in 0 .. Saved /\ parent[i] < i
    BY <1>3
  <2> HIDE DEF parent
  <2> QED
    BY <1>1, <1>4, <1>10, <2>1, RootsAgree
<1> QED
  BY <1>1, <1>4, <1>9, <1>11

LEMMA RootRuleNext ==
    (SettlementTypeOK /\ Earlier =>
        \A i \in Ids : /\ Root[i] \in Ids
                       /\ Root[i] = IF message[i].parent = 0 THEN i ELSE Root[message[i].parent])'
  BY RootRule, PTL

\* Saving a message leaves every root as it was; the new one has its parent's.
LEMMA SaveRoots ==
    ASSUME SettlementTypeOK, SettlementTypeOK', Earlier,
           NEW kind, NEW parent \in Ids \cup {0}, NEW ref, Save(kind, parent, ref)
    PROVE  /\ Earlier'
           /\ \A m \in Ids : Root'[m] = Root[m]
           /\ parent # 0 => Root'[Saved + 1] = Root[parent]
<1> SUFFICES ASSUME NEW n, n = Saved + 1
             PROVE  /\ Earlier' /\ \A m \in Ids : Root'[m] = Root[m]
                    /\ parent # 0 => Root'[n] = Root[parent]
  OBVIOUS
<1>1. Saved \in Nat /\ Ids = 1 .. Saved
  BY MessageShape, SettlementBounds
<1>2. /\ Ids' = Ids \cup {n} /\ n \notin Ids
      /\ message'[n] = [kind |-> kind, parent |-> parent, ref |-> ref]
      /\ \A m \in Ids : message'[m] = message[m]
  BY SettlementSaveShape
<1>2a. message'[n].parent = parent
  BY <1>2
<1>3. Earlier'
  BY <1>1, <1>2, <1>2a DEF Earlier
<1>4. \A i \in Ids' : Root'[i] = IF message'[i].parent = 0 THEN i ELSE Root'[message'[i].parent]
  BY <1>3, RootRuleNext
<1>5. \A m \in Ids : Root'[m] = Root[m]
  <2>0. SUFFICES ASSUME NEW p, p = [i \in Ids |-> message[i].parent],
                        NEW f, f = Root', NEW g, g = Root, NEW N, N = Saved
                 PROVE  \A m \in Ids : f[m] = g[m]
    OBVIOUS
  <2>1. N \in Nat /\ \A i \in 1 .. N : p[i] \in 0 .. N /\ p[i] < i
    BY <1>1, <2>0 DEF Earlier
  <2>2. RootsOf(g, N, p)
    BY <1>1, <2>0, RootRule DEF RootsOf
  <2>3. RootsOf(f, N, p)
    <3>1. \A i \in 1 .. N : f[i] = IF p[i] = 0 THEN i ELSE f[p[i]]
      BY <1>1, <1>2, <1>4, <2>0
    <3> QED
      BY <3>1 DEF RootsOf
  <2>4. \A i \in 1 .. N : f[i] = g[i]
    BY <2>1, <2>2, <2>3, RootsAgree
  <2> QED
    BY <1>1, <2>0, <2>4
<1>6. ASSUME parent # 0 PROVE Root'[n] = Root[parent]
  <2>1. parent \in Ids /\ Root'[n] = Root'[parent]
    BY <1>2, <1>2a, <1>4, <1>6
  <2> QED
    BY <1>5, <2>1
<1> QED
  BY <1>3, <1>5, <1>6

\* The decision to rebook was taken, and the replacement is not saved yet.
Past(q) == client[q].step \in {"request", "rebook", "accept", "replace"}
Unsettled(o) == \A m \in Ids : message[m].kind = "full" => Root[m] # Root[o]
NotRebooked ==
    \A m, n \in Ids : message[m].kind = "full" /\ message[n].kind = "replacement" /\ m < n
                          => Root[m] # Root[n]
SettledInv ==
    /\ Earlier
    /\ ~overlapped => NotRebooked /\ \A q \in Clients : Past(q) => Unsettled(client[q].original)

\* A step saves nothing, or a message under one that is there: a confirmation when no
\* request is in progress, a replacement of what a request past its decision carries.
LEMMA StepSaves ==
    ASSUME RebookInv, SettlementNext, ~overlapped'
    PROVE  /\ ~overlapped
           /\ \/ UNCHANGED message
              \/ \E kind \in Kinds, parent \in Ids \cup {0}, ref \in References \cup {Synthetic} :
                    /\ Save(kind, parent, ref)
                    /\ kind = "full" => \A q \in Clients : ~Past(q)'
                    /\ kind = "replacement" =>
                          \E q \in Clients : Past(q) /\ parent = client[q].original /\ parent \in Ids
<1> DEFINE Saves == \E kind \in Kinds, parent \in Ids \cup {0}, ref \in References \cup {Synthetic} :
                    /\ Save(kind, parent, ref)
                    /\ kind = "full" => \A q \in Clients : ~Past(q)'
                    /\ kind = "replacement" =>
                          \E q \in Clients : Past(q) /\ parent = client[q].original /\ parent \in Ids
<1>1. /\ client \in [Clients -> ClientRow] /\ SettlementTypeOK
      /\ \A q \in Clients : ~Free(q) => client[q].original \in Ids
      /\ \A q \in Clients : client[q].step = "accept" => client[q].canc \in Ids
  BY DEF RebookInv, SettlementTypeOK, OriginalsAreSaved, ReservedAreCancellations, Replaces, Children
<1>2. \A q \in Clients : client[q].ref \in References \cup {Synthetic}
                         /\ client[q].next \in References \cup {Synthetic}
  BY <1>1 DEF ClientRow
<1>3. /\ "instruction" \in Kinds /\ "cancellation" \in Kinds /\ "command" \in Kinds
      /\ "accepted" \in Kinds /\ "replacement" \in Kinds /\ Responses \subseteq Kinds
  BY DEF Kinds, Instructions, Responses, Amendments
<1>4. ASSUME NEW ref \in References \cup {Synthetic}, Instruct(ref) PROVE ~overlapped /\ Saves
  BY <1>3, <1>4 DEF Instruct, Overlaps
<1>5. ASSUME NEW i \in Ids, NEW kind \in Responses, NEW ref \in References \cup {Synthetic},
             Respond(i, kind, ref)
      PROVE  ~overlapped /\ Saves
  <2>1. Save(kind, i, ref) /\ ~overlapped /\ \A q \in Clients : ~Past(q)'
    BY <1>5 DEF Respond, Overlaps, Free, Past
  <2>2. kind # "replacement"
    BY DEF Responses
  <2> QED
    BY <1>3, <2>1, <2>2
<1>6. ASSUME NEW q \in Clients, SaveCancellation(q) PROVE ~overlapped /\ Saves
  BY <1>1, <1>2, <1>3, <1>6 DEF SaveCancellation, Free
<1>7. ASSUME NEW q \in Clients, SaveCommand(q) PROVE ~overlapped /\ Saves
  BY <1>1, <1>2, <1>3, <1>7 DEF SaveCommand, Free
<1>8. ASSUME NEW q \in Clients, SaveRebookCancellation(q) PROVE ~overlapped /\ Saves
  BY <1>1, <1>2, <1>3, <1>8 DEF SaveRebookCancellation, Free
<1>9. ASSUME NEW q \in Clients, AcceptRebook(q) PROVE ~overlapped /\ Saves
  BY <1>1, <1>3, <1>9 DEF AcceptRebook, AcceptedBy
<1>10. ASSUME NEW q \in Clients, Rebook(q) PROVE ~overlapped /\ Saves
  BY <1>1, <1>2, <1>3, <1>10 DEF Rebook, Free, Past
<1>11. ASSUME NEW q \in Clients, CheckRebook(q) \/ Fails(q) PROVE ~overlapped /\ UNCHANGED message
  BY <1>11 DEF CheckRebook, Fails
<1>12. ASSUME NEW q \in Clients, NEW o \in Ids, NEW ref, NEW next,
              CheckCancellation(q, o, ref) \/ CheckCommand(q, o, ref) \/ Decide(q, o, ref, next)
       PROVE  ~overlapped /\ UNCHANGED message
  BY <1>12 DEF CheckCancellation, CheckCommand, Decide, Enters, Overlaps
<1> QED
  BY <1>4, <1>5, <1>6, <1>7, <1>8, <1>9, <1>10, <1>11, <1>12 DEF SettlementNext

\* A request is past its decision because it was, or because it has just decided.
LEMMA StepDecides ==
    ASSUME RebookInv, SettlementNext, NEW q \in Clients, Past(q)'
    PROVE  \/ Past(q) /\ client'[q].original = client[q].original /\ client[q].original \in Ids
           \/ UNCHANGED message /\ client'[q].original \in Ids /\ ~FullySettled(client'[q].original)
<1>1. /\ client \in [Clients -> ClientRow] /\ NoClient \in ClientRow
      /\ Past(q) => client[q].original \in Ids
  BY SettlementBounds
     DEF RebookInv, SettlementTypeOK, OriginalsAreSaved, Free, Past, NoClient, ClientRow
<1>2. CASE client'[q] = client[q]
  BY <1>1, <1>2 DEF Past
<1>4. ASSUME NEW p \in Clients,
             SaveCancellation(p) \/ SaveCommand(p) \/ Rebook(p) \/ Fails(p)
      PROVE  client'[q] = client[q]
  <2>1. Leaves(p)
    BY <1>4 DEF SaveCancellation, SaveCommand, Rebook, Fails
  <2> QED
    BY <1>1, <2>1 DEF Leaves, Past, NoClient
<1>5. ASSUME NEW p \in Clients, CheckRebook(p) \/ SaveRebookCancellation(p) \/ AcceptRebook(p)
      PROVE  Past(q) /\ client'[q].original = client[q].original
  BY <1>1, <1>5 DEF CheckRebook, SaveRebookCancellation, AcceptRebook, Advances, Past, ClientRow
<1>6. ASSUME NEW p \in Clients, NEW o \in Ids, NEW ref,
             CheckCancellation(p, o, ref) \/ CheckCommand(p, o, ref)
      PROVE  client'[q] = client[q]
  <2>1. CASE p = q
    <3>1. ASSUME CheckCancellation(p, o, ref) PROVE client'[q].step = "cancel"
      <4> DEFINE row == [NoClient EXCEPT !.step = "cancel", !.original = o, !.ref = ref]
      <4>1. Enters(q, row)
        BY <2>1, <3>1 DEF CheckCancellation
      <4>2. client'[q] = row
        BY <1>1, <4>1 DEF Enters
      <4>3. row.step = "cancel"
        BY DEF NoClient
      <4> QED
        BY <4>2, <4>3
    <3>2. ASSUME CheckCommand(p, o, ref) PROVE client'[q].step = "command"
      <4> DEFINE row == [NoClient EXCEPT !.step = "command", !.original = o, !.ref = ref]
      <4>1. Enters(q, row)
        BY <2>1, <3>2 DEF CheckCommand
      <4>2. client'[q] = row
        BY <1>1, <4>1 DEF Enters
      <4>3. row.step = "command"
        BY DEF NoClient
      <4> QED
        BY <4>2, <4>3
    <3>3. client'[q].step \in {"cancel", "command"}
      BY <1>6, <3>1, <3>2
    <3> QED
      BY <3>3 DEF Past
  <2>2. CASE p # q
    BY <1>1, <1>6, <2>2 DEF CheckCancellation, CheckCommand, Enters
  <2> QED
    BY <2>1, <2>2
<1>7. ASSUME NEW p \in Clients, NEW o \in Ids, NEW ref, NEW next, Decide(p, o, ref, next)
      PROVE  \/ client'[q] = client[q]
             \/ UNCHANGED message /\ client'[q].original \in Ids /\ ~FullySettled(client'[q].original)
  BY <1>1, <1>7 DEF Decide, Enters, NoClient, ClientRow
<1>8. ASSUME NEW ref, NEW i, NEW kind, Instruct(ref) \/ Respond(i, kind, ref) PROVE client'[q] = client[q]
  BY <1>8 DEF Instruct, Respond
<1> QED
  BY <1>1, <1>2, <1>4, <1>5, <1>6, <1>7, <1>8 DEF SettlementNext

\* What a step saves is under a message that is there.
LEMMA StepParents ==
    ASSUME RebookInv, SettlementNext
    PROVE  \/ UNCHANGED message
           \/ \E kind \in Kinds, parent \in Ids \cup {0}, ref \in References \cup {Synthetic} :
                 Save(kind, parent, ref)
<1> DEFINE Saves == \E kind \in Kinds, parent \in Ids \cup {0}, ref \in References \cup {Synthetic} :
                        Save(kind, parent, ref)
<1>1. /\ \A q \in Clients : ~Free(q) => client[q].original \in Ids
      /\ \A q \in Clients : client[q].step = "accept" => client[q].canc \in Ids
      /\ \A q \in Clients : client[q].ref \in References \cup {Synthetic}
                          /\ client[q].next \in References \cup {Synthetic}
  BY DEF RebookInv, SettlementTypeOK, OriginalsAreSaved, ReservedAreCancellations, Replaces,
         Children, ClientRow
<1>2. /\ "instruction" \in Kinds /\ "cancellation" \in Kinds /\ "command" \in Kinds
      /\ "accepted" \in Kinds /\ "replacement" \in Kinds /\ Responses \subseteq Kinds
  BY DEF Kinds, Instructions, Responses, Amendments
<1>3. ASSUME NEW ref \in References \cup {Synthetic}, Instruct(ref) PROVE Saves
  BY <1>2, <1>3 DEF Instruct
<1>4. ASSUME NEW i \in Ids, NEW kind \in Responses, NEW ref \in References \cup {Synthetic},
             Respond(i, kind, ref)
      PROVE  Saves
  BY <1>2, <1>4 DEF Respond
<1>5. ASSUME NEW q \in Clients, SaveCancellation(q) \/ SaveCommand(q) \/ SaveRebookCancellation(q)
      PROVE  Saves
  BY <1>1, <1>2, <1>5 DEF SaveCancellation, SaveCommand, SaveRebookCancellation, Free
<1>6. ASSUME NEW q \in Clients, AcceptRebook(q) \/ Rebook(q) PROVE Saves
  BY <1>1, <1>2, <1>6 DEF AcceptRebook, AcceptedBy, Rebook, Free
<1>7. ASSUME NEW q \in Clients, CheckRebook(q) \/ Fails(q) PROVE UNCHANGED message
  BY <1>7 DEF CheckRebook, Fails
<1>8. ASSUME NEW q \in Clients, NEW o \in Ids, NEW ref, NEW next,
             CheckCancellation(q, o, ref) \/ CheckCommand(q, o, ref) \/ Decide(q, o, ref, next)
      PROVE  UNCHANGED message
  BY <1>8 DEF CheckCancellation, CheckCommand, Decide
<1> QED
  BY <1>3, <1>4, <1>5, <1>6, <1>7, <1>8 DEF SettlementNext

LEMMA StepSettled ==
    RebookInv /\ SettledInv /\ [SettlementNext]_settlementVars => SettledInv'
<1> SUFFICES ASSUME RebookInv, SettledInv, [SettlementNext]_settlementVars PROVE SettledInv'
  OBVIOUS
<1>1. SettlementTypeOK /\ SettlementTypeOK' /\ Earlier
  BY StepType DEF RebookInv, SettledInv
<1>2. ASSUME UNCHANGED message
      PROVE  /\ Earlier' /\ Root' = Root /\ (NotRebooked => NotRebooked')
             /\ \A o : Unsettled(o) => Unsettled(o)'
  <2>1. Ids' = Ids /\ Root' = Root
    BY <1>2 DEF Ids, Root
  <2> QED
    BY <1>1, <1>2, <2>1 DEF Earlier, NotRebooked, Unsettled
<1>3. CASE UNCHANGED settlementVars
  <2>1. UNCHANGED <<message, client, overlapped>>
    BY <1>3 DEF settlementVars
  <2>2. \A q \in Clients : Past(q)' => Past(q) /\ client'[q].original = client[q].original
    BY <2>1 DEF Past
  <2> QED
    BY <1>2, <2>1, <2>2 DEF SettledInv
<1>4. ASSUME NEW kind \in Kinds, NEW parent \in Ids \cup {0},
             NEW ref \in References \cup {Synthetic},
             Save(kind, parent, ref)
      PROVE  Earlier'
  BY <1>1, <1>4, SaveRoots
<1>5. ASSUME SettlementNext PROVE Earlier'
  BY <1>2, <1>4, <1>5, StepParents
<1>6. ASSUME SettlementNext, ~overlapped'
      PROVE  NotRebooked' /\ \A q \in Clients : Past(q)' => Unsettled(client[q].original)'
  <2>1. ~overlapped
    BY <1>6, StepSaves
  <2>2. NotRebooked /\ \A q \in Clients : Past(q) => Unsettled(client[q].original)
    BY <2>1 DEF SettledInv
  <2>3. \A o : ~FullySettled(o) => Unsettled(o)
    BY DEF FullySettled, Timeline, Unsettled
  <2>4. CASE UNCHANGED message
    <3>1. ASSUME NEW q \in Clients, Past(q)', NEW o, o = client'[q].original PROVE Unsettled(o)'
      <4>1. Unsettled(o)
        BY <1>6, <2>2, <2>3, <3>1, StepDecides
      <4> QED
        BY <1>2, <2>4, <4>1
    <3>2. \A q \in Clients : Past(q)' => Unsettled(client[q].original)'
      BY <3>1 DEF Unsettled
    <3> QED
      BY <1>2, <2>2, <2>4, <3>2
  <2>5. ASSUME NEW kind \in Kinds, NEW parent \in Ids \cup {0},
               NEW ref \in References \cup {Synthetic},
               Save(kind, parent, ref),
               kind = "full" => \A q \in Clients : ~Past(q)',
               kind = "replacement" =>
                   \E q \in Clients : Past(q) /\ parent = client[q].original /\ parent \in Ids
        PROVE  NotRebooked' /\ \A q \in Clients : Past(q)' => Unsettled(client[q].original)'
    <3> SUFFICES ASSUME NEW n, n = Saved + 1
                 PROVE  NotRebooked' /\ \A q \in Clients : Past(q)' => Unsettled(client[q].original)'
      OBVIOUS
    <3>1. /\ \A m \in Ids : Root'[m] = Root[m]
          /\ parent # 0 => Root'[n] = Root[parent]
      BY <1>1, <2>5, SaveRoots
    <3>2. /\ Ids' = Ids \cup {n} /\ n \notin Ids
          /\ message'[n] = [kind |-> kind, parent |-> parent, ref |-> ref]
          /\ \A m \in Ids : message'[m] = message[m]
      BY <1>1, <2>5, SettlementSaveShape
    <3>3. message'[n].kind = kind
      BY <3>2
    <3>4. Ids = 1 .. Saved /\ Saved \in Nat /\ n \in Nat
      BY <1>1, MessageShape, SettlementBounds
    <3>5. \A m, k \in Ids' : m < k => m \in Ids
      BY <3>2, <3>4
    <3>6. ASSUME NEW m \in Ids', NEW k \in Ids', message'[m].kind = "full",
                 message'[k].kind = "replacement", m < k
          PROVE  Root'[m] # Root'[k]
      <4>1. m \in Ids /\ message[m].kind = "full" /\ Root'[m] = Root[m]
        BY <3>1, <3>2, <3>5, <3>6
      <4>2. CASE k \in Ids
        BY <2>2, <3>1, <3>2, <3>6, <4>1, <4>2 DEF NotRebooked
      <4>3. CASE k = n
        <5>1. PICK q \in Clients : Past(q) /\ parent = client[q].original /\ parent \in Ids
          BY <2>5, <3>3, <3>6, <4>3
        <5>2. Root[m] # Root[parent] /\ parent # 0
          BY <2>2, <3>4, <4>1, <5>1 DEF Unsettled
        <5> QED
          BY <3>1, <4>1, <4>3, <5>2
      <4> QED
        BY <3>2, <4>2, <4>3
    <3>7. ASSUME NEW q \in Clients, Past(q)', NEW o, o = client'[q].original, NEW m \in Ids',
                 message'[m].kind = "full"
          PROVE  Root'[m] # Root'[o]
      <4>1. message' # message
        BY <1>1, <2>5, SettlementSaveShape DEF Ids
      <4>2. o \in Ids /\ Unsettled(o)
        BY <1>6, <2>2, <3>7, <4>1, StepDecides
      <4>3. m \in Ids
        BY <2>5, <3>2, <3>3, <3>7
      <4> QED
        BY <3>1, <3>2, <3>7, <4>2, <4>3 DEF Unsettled
    <3>8. NotRebooked'
      BY <3>6 DEF NotRebooked
    <3>9. \A q \in Clients : Past(q)' => Unsettled(client[q].original)'
      BY <3>7 DEF Unsettled
    <3> QED
      BY <3>8, <3>9
  <2> QED
    BY <1>6, <2>4, <2>5, StepSaves
<1> QED
  BY <1>3, <1>5, <1>6 DEF SettledInv

\* While requests do not overlap, nothing is rebooked once a full confirmation is
\* anywhere in its timeline, however many amendments the timeline has.
THEOREM SettledStays == SettlementSpec => []SettledIsNotRebooked
<1>1. SettlementInit => SettledInv
  BY DEF SettlementInit, SettledInv, Earlier, NotRebooked, Past, NoClient, Ids
<1>2. SettledInv => SettledIsNotRebooked
  BY DEF SettledInv, NotRebooked, SettledIsNotRebooked
<1> QED
  BY <1>1, <1>2, InitRebook, StepKeepsRebook, StepSettled, PTL DEF SettlementSpec

================================================================================

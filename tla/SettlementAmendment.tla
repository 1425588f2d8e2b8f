---------------------------- MODULE SettlementAmendment ----------------------------
(***************************************************************************)
(* Cancelling and rebooking settlement instructions:                       *)
(* workflows/settlement_processing.py and services/lifecycle.py over the   *)
(* messages of persistence/repository.py.  A message is never changed once *)
(* saved.  Each request is a thread; nothing is locked between its reads   *)
(* and its save, and each message is saved in a transaction of its own, so *)
(* a request can fail or be killed between two messages.                   *)
(***************************************************************************)
EXTENDS Naturals, FiniteSets

CONSTANTS
    Clients,     \* requests that can be in progress at once
    References,  \* sender references that callers choose from
    Synthetic,   \* a generated reference, distinct from every other
    MaxMessages, \* bound on the messages saved
    MaxInstructions, \* bound on those that are new instructions
    OwnReference \* bound: the kinds of responses that callers give a reference to, the others
                 \* being synthetic; nothing looks at the kind of message that has one

ASSUME SettlementBounds == MaxMessages \in Nat /\ MaxInstructions \in Nat

VARIABLES
    message,     \* the saved messages, in the order of created_at
    client,      \* what each request carries
    overlapped   \* whether two requests were ever in progress at once

settlementVars == <<message, client, overlapped>>

\* an instruction is MT540-MT543 with function NEWM, a replacement included;
\* "full" is a full confirmation, "other" any other status or confirmation
Instructions == {"instruction", "replacement"}
Responses == {"full", "accepted", "rejected", "other"}
Amendments == {"cancellation", "replacement", "command"}
Kinds == Instructions \cup Responses \cup Amendments

Message == [kind : Kinds, parent : 0 .. MaxMessages, ref : References \cup {Synthetic}]
ClientRow == [step : {"idle", "cancel", "request", "rebook", "accept", "replace", "command"},
              original : 0 .. MaxMessages, canc : 0 .. MaxMessages,
              ref : References \cup {Synthetic}, next : References \cup {Synthetic}]
NoClient == [step |-> "idle", original |-> 0, canc |-> 0, ref |-> Synthetic, next |-> Synthetic]

Ids == DOMAIN message
Saved == Cardinality(Ids)

SettlementTypeOK ==
    /\ \E n \in 0 .. MaxMessages : message \in [1 .. n -> Message]
    /\ client \in [Clients -> ClientRow]
    /\ overlapped \in BOOLEAN

SettlementInit ==
    /\ message = [i \in 1 .. 0 |-> [kind |-> "instruction", parent |-> 0, ref |-> Synthetic]]
    /\ client = [q \in Clients |-> NoClient]
    /\ overlapped = FALSE

--------------------------------------------------------------------------------
Save(kind, parent, ref) ==
    /\ Saved < MaxMessages
    /\ message' = [i \in 1 .. Saved + 1 |->
                     IF i = Saved + 1 THEN [kind |-> kind, parent |-> parent, ref |-> ref]
                                      ELSE message[i]]

Children(i, kinds) == {m \in Ids : message[m].parent = i /\ message[m].kind \in kinds}

\* has_active_cancellation
FaultAnyOutcomeSettles(o) ==
    /\ Children(o, {"cancellation"}) # {}
    /\ \A c \in Children(o, {"cancellation"}) : Children(c, {"accepted", "rejected"}) = {}
HasActiveCancellation(o) ==
    \E c \in Children(o, {"cancellation"}) : Children(c, {"accepted", "rejected"}) = {}

\* sender_reference_exists
FaultLooksAtInstructions(ref) ==
    \E m \in Ids : message[m].ref = ref /\ message[m].kind = "instruction"
ReferenceExists(ref) == ref # Synthetic /\ \E m \in Ids : message[m].ref = ref

\* the root of a timeline, and the messages in it
Root[i \in Ids] == IF message[i].parent = 0 THEN i ELSE Root[message[i].parent]
Timeline(o) == {m \in Ids : Root[m] = Root[o]}
FaultForgetsSettlement(o) == \E m \in Timeline(o) : message[m].kind = "accepted"
FullySettled(o) == \E m \in Timeline(o) : message[m].kind = "full"

\* _original_instruction
IsOriginal(o) == o \in Ids /\ message[o].kind \in Instructions

Free(q) == client[q].step = "idle"
Overlaps == overlapped' = (overlapped \/ \E p \in Clients : ~Free(p))
Enters(q, row) ==
    /\ client' = [client EXCEPT ![q] = row]
    /\ Overlaps
Leaves(q) == client' = [client EXCEPT ![q] = NoClient]
Advances(q, step) == client' = [client EXCEPT ![q].step = step]

--------------------------------------------------------------------------------
\* GenerationService.generate: a new instruction, under any reference
Instruct(ref) ==
    /\ Cardinality(Children(0, {"instruction"})) < MaxInstructions
    /\ Save("instruction", 0, ref)
    /\ Overlaps /\ UNCHANGED client

\* generate_response: to an instruction or to a cancellation request; it reads only
\* the message it responds to, which never changes, and takes any reference
Respond(i, kind, ref) ==
    /\ i \in Ids /\ message[i].kind \in Instructions \cup {"cancellation"}
    /\ ref # Synthetic <=> kind \in OwnReference
    /\ Save(kind, i, ref)
    /\ Overlaps /\ UNCHANGED client

\* cancellation
CheckCancellation(q, o, ref) ==
    /\ IsOriginal(o) /\ ~HasActiveCancellation(o) /\ ~ReferenceExists(ref)
    /\ Enters(q, [NoClient EXCEPT !.step = "cancel", !.original = o, !.ref = ref])
    /\ UNCHANGED message
SaveCancellation(q) ==
    /\ client[q].step = "cancel"
    /\ Save("cancellation", client[q].original, client[q].ref)
    /\ Leaves(q)
    /\ UNCHANGED overlapped

\* command: the MT530 priority change
CheckCommand(q, o, ref) ==
    /\ IsOriginal(o) /\ ref # Synthetic /\ ~ReferenceExists(ref)
    /\ Enters(q, [NoClient EXCEPT !.step = "command", !.original = o, !.ref = ref])
    /\ UNCHANGED message
SaveCommand(q) ==
    /\ client[q].step = "command"
    /\ Save("command", client[q].original, client[q].ref)
    /\ Leaves(q)
    /\ UNCHANGED overlapped

\* cancel_and_rebook: the decision and the replacement's reference ...
Decide(q, o, ref, next) ==
    /\ IsOriginal(o) /\ ~FullySettled(o)
    /\ {ref, next} \subseteq References /\ ~ReferenceExists(next)
    /\ Enters(q, [NoClient EXCEPT !.step = "request", !.original = o,
                                  !.ref = ref, !.next = next])
    /\ UNCHANGED message
\* ... the guards of its own cancellation ...
CheckRebook(q) ==
    /\ client[q].step = "request"
    /\ ~HasActiveCancellation(client[q].original) /\ ~ReferenceExists(client[q].ref)
    /\ Advances(q, "rebook")
    /\ UNCHANGED <<message, overlapped>>
\* ... the cancellation, its acceptance, and the replacement
SaveRebookCancellation(q) ==
    /\ client[q].step = "rebook"
    /\ Save("cancellation", client[q].original, client[q].ref)
    /\ client' = [client EXCEPT ![q].step = "accept", ![q].canc = Saved + 1]
    /\ UNCHANGED overlapped
FaultAcceptsTheOriginal(q) == client[q].original
AcceptedBy(q) == client[q].canc
AcceptRebook(q) ==
    /\ client[q].step = "accept"
    /\ Save("accepted", AcceptedBy(q), Synthetic)
    /\ Advances(q, "replace")
    /\ UNCHANGED overlapped
Rebook(q) ==
    /\ client[q].step = "replace"
    /\ Save("replacement", client[q].original, client[q].next)
    /\ Leaves(q)
    /\ UNCHANGED overlapped

\* a guard fails, the replacement does not validate, or the process is killed
Fails(q) ==
    /\ ~Free(q)
    /\ Leaves(q)
    /\ UNCHANGED <<message, overlapped>>

SettlementNext ==
    \/ \E ref \in References \cup {Synthetic} :
          Instruct(ref) \/ \E i \in Ids, kind \in Responses : Respond(i, kind, ref)
    \/ \E q \in Clients :
          \/ /\ Free(q)
             /\ \E o \in Ids :
                   \/ \E ref \in References \cup {Synthetic} : CheckCancellation(q, o, ref)
                   \/ \E ref \in References : CheckCommand(q, o, ref)
                   \/ \E ref, next \in References : Decide(q, o, ref, next)
          \/ SaveCancellation(q) \/ SaveCommand(q)
          \/ CheckRebook(q) \/ SaveRebookCancellation(q) \/ AcceptRebook(q) \/ Rebook(q)
          \/ Fails(q)

SettlementSpec == SettlementInit /\ [][SettlementNext]_settlementVars

--------------------------------------------------------------------------------
\* Every replacement of an instruction has an accepted cancellation of its own, in
\* whatever way requests interleave and wherever they are killed: the cancellation
\* and its acceptance are saved before the replacement (cancel_and_rebook).
RebookedWasCancelled ==
    \A o \in Ids :
        Cardinality(Children(o, {"replacement"})) <=
            Cardinality({c \in Children(o, {"cancellation"}) : Children(c, {"accepted"}) # {}})

\* As long as requests do not overlap, an instruction has at most one cancellation
\* that is neither accepted nor rejected (has_active_cancellation).
OneActiveCancellation ==
    ~overlapped =>
        \A o \in Ids : \A c, d \in Children(o, {"cancellation"}) :
            c # d => Children(c, {"accepted", "rejected"}) # {} \/ Children(d, {"accepted", "rejected"}) # {}

\* As long as requests do not overlap, the reference of an amendment is not that of
\* an earlier message, except that cancel_and_rebook accepts one reference for both
\* its cancellation and its replacement.
AmendmentReferencesAreNew ==
    ~overlapped =>
        \A m, n \in Ids :
            m < n /\ message[n].kind \in Amendments /\ message[n].ref = message[m].ref
                => \/ message[n].ref = Synthetic
                   \/ message[n].kind = "replacement" /\ message[m].kind = "cancellation"
                      /\ message[n].parent = message[m].parent

\* As long as requests do not overlap, nothing is rebooked once a full confirmation
\* is anywhere in its timeline, be it of the instruction that it replaces or of
\* another replacement (amendment_decision).
SettledIsNotRebooked ==
    ~overlapped =>
        \A m, n \in Ids : message[m].kind = "full" /\ message[n].kind = "replacement" /\ m < n
                              => Root[m] # Root[n]

================================================================================

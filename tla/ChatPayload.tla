---------------------------- MODULE ChatPayload ----------------------------
(***************************************************************************)
(* A chat message on its way from the request to the record: chatSend's    *)
(* checks (handlers_chat.go), the payload Send builds (chat/api.go) and    *)
(* the checks every replica repeats on the change (chat/handler.go).       *)
(* A string is its size: empty, within its limit, or longer.               *)
(***************************************************************************)
EXTENDS Naturals

Empty == 0
Fits == 1
Long == 2
Size == {Empty, Fits, Long}

CONSTANT Absent  \* a key that is not there

VARIABLES
    request,  \* the body of the request
    outcome   \* where the message got

vars == <<request, outcome>>

(* One attachment stands for all of them: their number is a Size as well.   *)
Agents == {Absent} \cup [name : Size, debugLink : Size, outcome : Size]
Contexts == {Absent} \cup [spaceId : Size, objectId : Size, view : Size]
Controls == {Absent} \cup [kind : Size]
Attachments == [count : Size, id : {"legal", "illegal"}, type : Size, link : Size]

Plain ==
    [text |-> Fits, reply |-> Empty, agent |-> Absent, context |-> Absent, control |-> Absent,
     attachments |-> [count |-> Empty, id |-> "legal", type |-> Fits, link |-> Fits]]

(* Every content with every number of attachments and control, and each     *)
(* other group in every shape.                                              *)
Requests ==
    {[Plain EXCEPT !.text = t, !.attachments.count = n, !.control = k, !.reply = r] :
        t \in Size, n \in Size, k \in Controls, r \in Size}
    \cup {[Plain EXCEPT !.agent = a] : a \in Agents}
    \cup {[Plain EXCEPT !.context = c] : c \in Contexts}
    \cup {[Plain EXCEPT !.attachments = a, !.text = t] : a \in Attachments, t \in Size}

-----------------------------------------------------------------------------
(* The HTTP layer's checks: presence and limits, group by group.            *)
WithinLimits(sizes) == \A s \in sizes : s # Long

ValidAgentRequest(a) ==
    a # Absent => a.name # Empty /\ WithinLimits({a.name, a.debugLink, a.outcome})

ValidContextRequest(c) ==
    c # Absent => c.spaceId # Empty /\ WithinLimits({c.spaceId, c.objectId, c.view})

ValidControlRequest(c) == c # Absent => c.kind = Fits

ValidAttachmentId(id) == id = "legal"

ValidAttachmentsRequest(a) ==
    a.count # Empty =>
        a.count = Fits /\ ValidAttachmentId(a.id) /\ a.type = Fits /\ a.link = Fits

(* chatSend: a message needs text, an attachment or a control signal.       *)
ChatSendAccepts(r) ==
    /\ r.text # Empty \/ r.attachments.count # Empty \/ r.control # Absent
    /\ WithinLimits({r.text, r.reply})
    /\ ValidAgentRequest(r.agent) /\ ValidAttachmentsRequest(r.attachments)
    /\ ValidContextRequest(r.context) /\ ValidControlRequest(r.control)

-----------------------------------------------------------------------------
(* Send: an optional value that is empty is not a key of the payload.       *)
Optional(size) == IF size = Empty THEN Absent ELSE size

SendPayload(r) ==
    [text |-> r.text,
     reply |-> Optional(r.reply),
     agent |-> IF r.agent = Absent THEN Absent
               ELSE [r.agent EXCEPT !.debugLink = Optional(@), !.outcome = Optional(@)],
     attachments |-> IF r.attachments.count = Empty THEN Absent ELSE r.attachments,
     context |-> IF r.context = Absent THEN Absent
                 ELSE [r.context EXCEPT !.objectId = Optional(@), !.view = Optional(@)],
     control |-> r.control]

-----------------------------------------------------------------------------
(* The handler's checks: a string that is there is neither empty nor long.  *)
WellSized(size) == size \in {Absent, Fits}

ValidAgent(a) == a # Absent => a.name = Fits /\ WellSized(a.debugLink) /\ WellSized(a.outcome)
ValidContext(c) == c # Absent => c.spaceId = Fits /\ WellSized(c.objectId) /\ WellSized(c.view)
ValidControl(c) == c # Absent => c.kind = Fits

ValidAttachmentEntry(a) == a.type = Fits /\ a.link = Fits
ValidAttachments(a) ==
    a # Absent => a.count = Fits /\ ValidAttachmentId(a.id) /\ ValidAttachmentEntry(a)

(* Mutant of ValidateCreatePayload: only text is content.                   *)
ValidateCreatePayloadText(p) ==
    /\ WithinLimits({p.text}) /\ WellSized(p.reply)
    /\ ValidAgent(p.agent) /\ ValidAttachments(p.attachments)
    /\ ValidContext(p.context) /\ ValidControl(p.control)
    /\ p.text # Empty \/ p.control # Absent

ValidateCreatePayload(p) ==
    /\ WithinLimits({p.text}) /\ WellSized(p.reply)
    /\ ValidAgent(p.agent) /\ ValidAttachments(p.attachments)
    /\ ValidContext(p.context) /\ ValidControl(p.control)
    /\ p.text # Empty \/ p.attachments # Absent \/ p.control # Absent

-----------------------------------------------------------------------------
Init == request \in Requests /\ outcome = "received"

(* chatSend up to chat.Send, and the apply of the change it writes.         *)
ChatSend ==
    /\ outcome = "received" /\ UNCHANGED request
    /\ outcome' = IF ChatSendAccepts(request) THEN "sent" ELSE "refused"

BeforeCreate ==
    /\ outcome = "sent" /\ UNCHANGED request
    /\ outcome' = IF ValidateCreatePayload(SendPayload(request)) THEN "created" ELSE "rejected"

Next == ChatSend \/ BeforeCreate

Spec == Init /\ [][Next]_vars

-----------------------------------------------------------------------------
(* A request the HTTP layer lets through is never rejected by the handler   *)
(* (which a client would see as an internal error), and one it refuses is   *)
(* one the handler would have rejected: the two lists of checks agree.      *)
ChecksAgree ==
    /\ outcome # "rejected"
    /\ outcome = "refused" => ~ValidateCreatePayload(SendPayload(request))
=============================================================================

------------------------------ MODULE Requests ------------------------------
(***************************************************************************)
(* What happens to a request on its way, part by part: whose it is         *)
(* (Tenancy), what its SQL may read (Guard), how many rows a preview has   *)
(* (Preview), how long a stream may be asked for (Tickets), how a result   *)
(* is streamed out (ResultStream), which staged object an ingest reads     *)
(* (Staging), and which columns a write may leave (Shapes).  The parts     *)
(* share no state, and each knows of the ones before it only that they let *)
(* the request pass; so a behaviour is one of a single part, while the     *)
(* others rest.                                                            *)
(***************************************************************************)
EXTENDS Tenancy, Guard, Preview, Tickets, ResultStream, Staging, Shapes

VARIABLE part   \* the part that is at work

requestVars == <<part, tenancyVars, guardVars, previewVars, ticketVars, streamVars,
                 stagingVars, shapeVars>>

SomeConfig == CHOOSE c \in Config : TRUE
SomeCaller == CHOOSE c \in Caller : TRUE
SomeAsk == CHOOSE a \in Ask : TRUE

TenancyRests == config = SomeConfig /\ caller = SomeCaller /\ door = "proxy" /\ tenant = {}
GuardRests == query = NoSelect /\ guarded = NotGuarded /\ answer = NoAnswer
PreviewRests == ask = SomeAsk /\ sent = {} /\ reply = NoReply
TicketRests == now = 0 /\ skew = 0 /\ ticket = NoTicket /\ heard = NothingHeard
StreamRests ==
    /\ pc = "new" /\ consumer = "get" /\ conn = "none" /\ started = FALSE /\ object = "none"
    /\ rows = 0 /\ fetched = 0 /\ written = 0
StagingRests == uploads = {} /\ store = <<>> /\ load = NoLoad
ShapesRest ==
    /\ dataset = NoDataset /\ source = <<>> /\ writer = <<>>
    /\ made = 0 /\ changes = 0

RequestInit ==
    \/ /\ part = "tenancy" /\ TenancyInit
       /\ GuardRests /\ PreviewRests /\ TicketRests
       /\ StreamRests /\ StagingRests /\ ShapesRest
    \/ /\ part = "guard" /\ GuardInit
       /\ TenancyRests /\ PreviewRests /\ TicketRests
       /\ StreamRests /\ StagingRests /\ ShapesRest
    \/ /\ part = "preview" /\ PreviewInit
       /\ TenancyRests /\ GuardRests /\ TicketRests
       /\ StreamRests /\ StagingRests /\ ShapesRest
    \/ /\ part = "ticket" /\ TicketInit
       /\ TenancyRests /\ GuardRests /\ PreviewRests
       /\ StreamRests /\ StagingRests /\ ShapesRest
    \/ /\ part = "stream" /\ StreamInit
       /\ TenancyRests /\ GuardRests /\ PreviewRests
       /\ TicketRests /\ StagingRests /\ ShapesRest
    \/ /\ part = "staging" /\ StagingInit
       /\ TenancyRests /\ GuardRests /\ PreviewRests
       /\ TicketRests /\ StreamRests /\ ShapesRest
    \/ /\ part = "shapes" /\ ShapeInit
       /\ TenancyRests /\ GuardRests /\ PreviewRests
       /\ TicketRests /\ StreamRests /\ StagingRests

RequestNext ==
    /\ UNCHANGED part
    /\ \/ /\ part = "tenancy" /\ TenancyNext
          /\ UNCHANGED <<guardVars, previewVars, ticketVars,
                      streamVars, stagingVars, shapeVars>>
       \/ /\ part = "guard" /\ GuardNext
          /\ UNCHANGED <<tenancyVars, previewVars, ticketVars,
                      streamVars, stagingVars, shapeVars>>
       \/ /\ part = "preview" /\ PreviewNext
          /\ UNCHANGED <<tenancyVars, guardVars, ticketVars,
                      streamVars, stagingVars, shapeVars>>
       \/ /\ part = "ticket" /\ TicketNext
          /\ UNCHANGED <<tenancyVars, guardVars, previewVars,
                      streamVars, stagingVars, shapeVars>>
       \/ /\ part = "stream" /\ StreamNext
          /\ UNCHANGED <<tenancyVars, guardVars, previewVars,
                      ticketVars, stagingVars, shapeVars>>
       \/ /\ part = "staging" /\ StagingNext
          /\ UNCHANGED <<tenancyVars, guardVars, previewVars,
                      ticketVars, streamVars, shapeVars>>
       \/ /\ part = "shapes" /\ ShapeNext
          /\ UNCHANGED <<tenancyVars, guardVars, previewVars,
                      ticketVars, streamVars, stagingVars>>

RequestSpec == RequestInit /\ [][RequestNext]_requestVars
=============================================================================

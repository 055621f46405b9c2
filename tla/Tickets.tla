------------------------------ MODULE Tickets ------------------------------
(***************************************************************************)
(* The life of a Flight ticket (data_plane/tickets.py): stream_dataset and *)
(* open_ingest_stream sign one (server.py), get_flight_info verifies it    *)
(* and signs another, do_get and do_put verify it.  The MCP server and the *)
(* Flight server are pods with a clock each, and both drop the fraction of *)
(* the second.  The signature is taken to be unforgeable.                  *)
(***************************************************************************)
EXTENDS Integers

CONSTANTS
    Ttl,        \* settings.flight_ticket_ttl_seconds
    Ticks,      \* bound: moments of a second that are told apart
    MaxSkew,    \* bound: ticks between the clocks of the two servers
    MaxTime     \* bound: ticks that pass

ASSUME TicketAssumption ==
    Ttl \in Nat /\ Ticks \in Nat \ {0} /\ MaxSkew \in Nat /\ MaxTime \in Nat

VARIABLES
  now,      \* time on the clock of the MCP server, in ticks
  skew,     \* by how much the clock of the Flight server is ahead
  ticket,   \* the client's newest ticket: its exp, and when and by whom it was signed
  heard     \* what the Flight server last said of it, and when

ticketVars == <<now, skew, ticket, heard>>

NoTicket == [exp |-> 0, at |-> 0, by |-> "none"]

NothingHeard == [at |-> 0, says |-> "none"]

TicketInit ==
    /\ now = MaxSkew /\ skew \in -MaxSkew .. MaxSkew
    /\ ticket = NoTicket /\ heard = NothingHeard

Tick == now < MaxTime /\ now' = now + 1 /\ UNCHANGED <<skew, ticket, heard>>

\* What a server's clock says.
Clock(server) == IF server = "mcp" THEN now ELSE now + skew

\* int(time.time())
Seconds(server) == Clock(server) \div Ticks

\* sign, on either server.
Signed(server) == [exp |-> Seconds(server) + Ttl, at |-> now, by |-> server]

\* verify
Expired == ticket.exp < Seconds("flight")

OpenStream ==
    /\ ticket = NoTicket
    /\ ticket' = Signed("mcp")
    /\ UNCHANGED <<now, skew, heard>>

\* Mutant: a new signature with the old expiry.
ReissueSame == [Signed("flight") EXCEPT !.exp = ticket.exp]

\* get_flight_info signs the command again, and not the envelope.
Reissue == Signed("flight")

\* The Flight server refuses the client's ticket.
Deny ==
    /\ ticket # NoTicket /\ Expired
    /\ heard' = [at |-> now, says |-> "no"]
    /\ UNCHANGED <<now, skew, ticket>>

GetInfo ==
    /\ ticket # NoTicket /\ ~Expired
    /\ ticket' = Reissue /\ heard' = NothingHeard
    /\ UNCHANGED <<now, skew>>

\* do_get or do_put.  A ticket may be used more than once.
Redeem ==
    /\ ticket # NoTicket /\ ~Expired
    /\ heard' = [at |-> now, says |-> "yes"]
    /\ UNCHANGED <<now, skew, ticket>>

TicketNext == Tick \/ OpenStream \/ Deny \/ GetInfo \/ Redeem

TicketSpec == TicketInit /\ [][TicketNext]_ticketVars
-----------------------------------------------------------------------------
\* How far the clocks that signed and verify may be apart.
Apart == IF ticket.by = "mcp" THEN MaxSkew ELSE 0

\* A client may use its ticket for Ttl seconds: none is refused before that,
\* and none taken a second or more after it, but for the skew between the
\* servers that signed and verify it, and whatever fractions of a second they
\* dropped; a ticket from get_flight_info has the full time anew.
TicketsLastTheirTime ==
    LET age == heard.at - ticket.at
    IN  /\ heard.says = "no" => age > Ttl * Ticks - Apart
        /\ heard.says = "yes" => age < (Ttl + 1) * Ticks + Apart
=============================================================================

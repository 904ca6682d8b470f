------------------------------ MODULE NtpClient ------------------------------
(***************************************************************************)
(* One NtpClient (ntp_client.hpp), its core and its UDP transport, against *)
(* a network that loses, delays, duplicates and misdelivers datagrams and  *)
(* servers of every state of mind. Timestamps travel as NTP writes them:   *)
(* 32-bit seconds since 1900 that wrap, and fractions of a second that are *)
(* no whole number of microseconds.                                        *)
(***************************************************************************)
EXTENDS Integers, FiniteSets

CONSTANTS
    US_PER_SEC, FRAC_PER_SEC,   \* parts of a second: 10^6 and 2^32
    ERA,                        \* seconds a 32-bit counter can hold: 2^32
    NTP_TIMESTAMP_DELTA,        \* seconds from 1900 to 1970
    Ports,                      \* the ports the system gives to sockets
    Leads,                      \* by how much the servers' clocks may be ahead of ours
    Errors,                     \* how far clocks may be off that are not to be trusted
    Start,                      \* when the model begins, in microseconds since 1970
    MaxTime, MaxWire            \* bounds of the model: the clock, datagrams under way

ASSUME UnitsAssumption ==
    /\ US_PER_SEC \in Nat \ {0} /\ FRAC_PER_SEC \in Nat \ {0}
    /\ US_PER_SEC <= FRAC_PER_SEC
    /\ ERA \in Nat \ {0} /\ NTP_TIMESTAMP_DELTA \in Nat

\* The model begins after 1970 by every clock and ends within an era of it.
ASSUME ClockAssumption ==
    /\ Start \in Nat /\ MaxTime \in Nat /\ Start <= MaxTime
    /\ Leads \subseteq Int /\ Errors \subseteq Nat
    /\ \A lead \in Leads : /\ Start + lead >= 0
                           /\ \A e \in Errors \cup {0} : MaxTime + lead + e < ERA * US_PER_SEC
    /\ MaxTime < ERA * US_PER_SEC

VARIABLES
    now,                 \* now_realtime_us(): anchored once, it never steps
    lead,                \* how much the honest servers' clocks are ahead of it
    wire,                \* datagrams under way, and requests the servers work on
    pc,                  \* where query() is
    socket, request,     \* its port, and the time the request was stamped with
    reply,               \* what recvfrom() wrote
    m_offset_us, m_delay_us, m_stratum, m_is_success, last_error_code

transaction == <<socket, request, reply>>
measured == <<m_offset_us, m_delay_us, m_stratum, m_is_success>>
vars == <<now, lead, wire, pc, transaction, measured, last_error_code>>
-----------------------------------------------------------------------------
(* ntp_packet.hpp *)

\* fill_client_packet(): the casts to uint32_t wrap the seconds, the fraction is
\* rounded down.
ToNtp(us) == [sec  |-> (us \div US_PER_SEC + NTP_TIMESTAMP_DELTA) % ERA,
              frac |-> ((us % US_PER_SEC) * FRAC_PER_SEC) \div US_PER_SEC]

ntp_frac_to_us(frac) == (frac * US_PER_SEC) \div FRAC_PER_SEC

UnixUs(ts) == (ts.sec - NTP_TIMESTAMP_DELTA) * US_PER_SEC + ntp_frac_to_us(ts.frac)

\* Defective: seconds before 1970 are taken for what they are not.
AnyTime(ts) == TRUE

\* ntp_ts_to_unix_us() fails before 1970, which is also how the next era reads.
IsUnixTime(ts) == ts.sec >= NTP_TIMESTAMP_DELTA

\* C++ division by two, towards zero.
Half(n) == IF n >= 0 THEN n \div 2 ELSE -((-n) \div 2)

\* What parse_server_packet() tests before it looks at the times.
HeaderError(header) ==
    IF header.mode # 4            THEN "NTP_E_BAD_MODE"    ELSE
    IF header.vn \notin 3..4      THEN "NTP_E_BAD_VERSION" ELSE
    IF header.li = 3              THEN "NTP_E_BAD_LI"      ELSE
    IF header.stratum = 0         THEN "NTP_E_KOD"         ELSE
    IF header.stratum >= 16       THEN "NTP_E_BAD_STRATUM" ELSE "none"

Nothing == [kind |-> "none"]   \* what is not assigned, or out of scope

Failure(error) == [ok |-> FALSE, error |-> error, offset |-> 0, delay |-> 0, stratum |-> -1]

Measured(t1, t2, t3, t4, stratum) ==
    IF t3 < t2 \/ (t4 - t1) - (t3 - t2) < 0
    THEN Failure("NTP_E_BAD_TS")
    ELSE [ok |-> TRUE, error |-> "none", offset |-> Half((t2 - t1) + (t3 - t4)),
          delay |-> (t4 - t1) - (t3 - t2), stratum |-> stratum]

\* The first of the four times is the one in the packet, not the one the client
\* remembers: an answer to an earlier request is measured as what it is.
parse_server_packet(pkt, arrival) ==
    IF HeaderError(pkt.header) # "none"
    THEN Failure(HeaderError(pkt.header))
    ELSE IF \A ts \in {pkt.orig, pkt.recv, pkt.tx} : IsUnixTime(ts)
    THEN Measured(UnixUs(pkt.orig), UnixUs(pkt.recv), UnixUs(pkt.tx), arrival, pkt.header.stratum)
    ELSE Failure("NTP_E_BAD_TS")
-----------------------------------------------------------------------------
(* The servers and the network, which are not part of the library *)

\* A server that is synchronised, one that is not and says so, a kiss of death,
\* and what is no NTP server.
Good == [mode |-> 4, vn |-> 3, li |-> 0, stratum |-> 2]
Headers == {Good} \cup {[Good EXCEPT !.mode = 3], [Good EXCEPT !.vn = 2], [Good EXCEPT !.li = 3],
                        [Good EXCEPT !.stratum = 0], [Good EXCEPT !.stratum = 16]}

Request(port, stamp)         == [kind |-> "request", port |-> port, orig |-> stamp]
Taken(req, header, recv)     == [kind |-> "taken", port |-> req.port, orig |-> req.orig, header |-> header, recv |-> recv]
Reply(taken, tx)             == [kind |-> "reply", port |-> taken.port, orig |-> taken.orig, header |-> taken.header,
                                 recv |-> taken.recv, tx |-> tx]
Of(kind) == {item \in wire : item.kind = kind}

\* A server takes a request. The clock of one that is not synchronised is off;
\* that of any other may be set back before it answers.
ServerReceives ==
    \E req \in Of("request"), header \in Headers, e \in Errors \cup {0} :
        /\ e = 0 => header = Good
        /\ wire' = (wire \ {req}) \cup {Taken(req, header, ToNtp(now + lead + e))}
        /\ UNCHANGED <<now, lead, pc, transaction, measured, last_error_code>>

ServerReplies ==
    \E taken \in Of("taken"), e \in Errors \cup {0} :
        /\ e = 0 <=> taken.header = Good
        /\ wire' = (wire \ {taken}) \cup {Reply(taken, ToNtp(now + lead + e))}
        /\ UNCHANGED <<now, lead, pc, transaction, measured, last_error_code>>

Lose ==
    \E item \in wire :
        /\ wire' = wire \ {item}
        /\ UNCHANGED <<now, lead, pc, transaction, measured, last_error_code>>

Tick ==
    /\ now < MaxTime
    /\ now' = now + 1
    /\ UNCHANGED <<lead, wire, pc, transaction, measured, last_error_code>>
-----------------------------------------------------------------------------
(* query() *)

Init ==
    /\ now = Start
    /\ lead \in Leads
    /\ wire = {}
    /\ pc = "new"
    /\ socket = Nothing /\ request = Nothing /\ reply = Nothing
    /\ m_offset_us = 0 /\ m_delay_us = 0 /\ m_stratum = -1 /\ m_is_success = FALSE
    /\ last_error_code = "none"

\* The request is stamped before the host name is resolved: the time that takes
\* counts as a part of the way to the server.
Query ==
    /\ pc \in {"new", "idle"}
    /\ pc' = "resolving"
    /\ request' = ToNtp(now)
    /\ last_error_code' = "none"
    /\ UNCHANGED <<now, lead, wire, socket, reply, measured>>

\* A new socket for every query. Its port may have been an earlier one's.
Send ==
    /\ pc = "resolving"
    /\ Cardinality(wire) < MaxWire
    /\ \E port \in Ports : /\ socket' = port
                           /\ wire' = wire \cup {Request(port, request)}
    /\ pc' = "waiting"
    /\ UNCHANGED <<now, lead, request, reply, measured, last_error_code>>

\* The end of query(), which stores what it has found out. A failure keeps the
\* offset that was measured before.
Store(result) ==
    /\ pc' = "idle"
    /\ socket' = Nothing /\ request' = Nothing /\ reply' = Nothing
    /\ last_error_code' = result.error
    /\ m_offset_us' = IF result.ok THEN result.offset ELSE m_offset_us
    /\ m_delay_us' = result.delay
    /\ m_stratum' = result.stratum
    /\ m_is_success' = result.ok

\* No socket, no such host, nothing sent, nothing received in time, or a datagram
\* that is too short. errno need not have been set: the core makes -1 of 0.
TransactFails ==
    /\ pc \in {"resolving", "waiting"}
    /\ \E errno \in {"errno", "none"} : Store(Failure(IF errno = "none" THEN "-1" ELSE errno))
    /\ UNCHANGED <<now, lead, wire>>

\* The first datagram that reaches the port, whosoever it is. It may come again.
Receive ==
    /\ pc = "waiting"
    /\ \E datagram \in Of("reply") :
         /\ datagram.port = socket
         /\ reply' = datagram
         /\ wire' \in {wire, wire \ {datagram}}
    /\ pc' = "received"
    /\ UNCHANGED <<now, lead, socket, request, measured, last_error_code>>

\* The time of arrival is read after the datagram has arrived.
Parse ==
    /\ pc = "received"
    /\ Store(parse_server_packet(reply, now))
    /\ UNCHANGED <<now, lead, wire>>

Next ==
    \/ Query \/ Send \/ TransactFails \/ Receive \/ Parse
    \/ ServerReceives \/ ServerReplies \/ Lose \/ Tick

Spec == Init /\ [][Next]_vars
-----------------------------------------------------------------------------
\* Between two queries the fields tell whether the last one succeeded, and why
\* not; and if it did, the offset is wrong by no more than half the delay, but
\* for the rounding of three timestamps and of one division: whichever request
\* the answer belongs to, however long it took each way, and in the next era.
Rounding == 3
AnswerIsTrusted ==
    pc = "idle" =>
      IF m_is_success
      THEN /\ last_error_code = "none" /\ m_stratum \in 1..15
           /\ 2 * (m_offset_us - lead) <= m_delay_us + Rounding
           /\ 2 * (lead - m_offset_us) <= m_delay_us + Rounding
      ELSE last_error_code # "none" /\ m_delay_us = 0 /\ m_stratum = -1
=============================================================================

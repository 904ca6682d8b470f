---------------------------- MODULE NtpClientProofs ----------------------------
(***************************************************************************)
(* For any units, clocks and errors: what query() stores is to be trusted. *)
(* Every time that is measured with was written by a clock of known lead,  *)
(* and what is read of it is late by less than two microseconds, or not    *)
(* read at all.                                                            *)
(***************************************************************************)
EXTENDS NtpClient, TLAPS

\* The times a counter of ERA seconds tells apart, when it starts in 1970.
Times == 0 .. (ERA * US_PER_SEC - 1)

\* ts was written by a client at us, at some time of this run.
Stamped(ts, us) == us \in Start .. now /\ ts = ToNtp(us)

\* A server that is to be trusted wrote ts when our clock, for all it knows,
\* was at us.
Written(ts, us) == us \in Int /\ us + lead \in Times /\ ts = ToNtp(us + lead)

\* What is under way was sent with a stamp of ours, and if a server that is to
\* be trusted took it, it took it no earlier and answered no later than now.
GenuineReply(item) ==
    /\ item.kind = "reply" /\ item.header \in Headers
    /\ item.header = Good => \E sent, received, replied \in Int :
          /\ Stamped(item.orig, sent) /\ Written(item.recv, received) /\ Written(item.tx, replied)
          /\ sent <= received /\ replied <= now

GenuineTaken(item) ==
    /\ item.kind = "taken" /\ item.header \in Headers
    /\ item.header = Good => \E sent, received \in Int :
          Stamped(item.orig, sent) /\ Written(item.recv, received) /\ sent <= received

GenuineRequest(item) ==
    item.kind = "request" /\ \E sent \in Int : Stamped(item.orig, sent)

Genuine(item) == GenuineRequest(item) \/ GenuineTaken(item) \/ GenuineReply(item)

ClientTypes ==
    /\ now \in Start .. MaxTime /\ lead \in Leads
    /\ pc \in {"new", "idle", "resolving", "waiting", "received"}

IInv ==
    /\ ClientTypes
    /\ \A item \in wire : Genuine(item)
    /\ pc = "resolving" => \E sent \in Int : Stamped(request, sent)
    /\ pc = "received" => GenuineReply(reply)
    /\ AnswerIsTrusted

-----------------------------------------------------------------------------
\* What is read of a time: the same, or one microsecond less.
ReadOf(read, us) == read \in {us - 1, us}

\* A fraction of a second that is written and read again is the same, or one
\* microsecond earlier.
LEMMA FractionRoundTrip ==
    ASSUME NEW r \in 0 .. (US_PER_SEC - 1)
    PROVE  LET frac == (r * FRAC_PER_SEC) \div US_PER_SEC
           IN  /\ frac \in Nat
               /\ ntp_frac_to_us(frac) \in {r - 1, r}
<1> DEFINE U == US_PER_SEC
           F == FRAC_PER_SEC
           frac == (r * F) \div U
           us == (frac * U) \div F
<1>0. U \in Nat /\ F \in Nat /\ 1 <= U /\ U <= F /\ r \in Nat
  BY UnitsAssumption
<1>1. r * F \in Nat
  BY <1>0, SMT
<1> HIDE DEF U, F
<1>2. frac \in Int /\ frac * U <= r * F /\ r * F < frac * U + U
  BY <1>0, <1>1, SMT
<1>3. frac \in Nat
  BY <1>0, <1>1, <1>2, SMT
<1> HIDE DEF frac
<1>4. frac * U \in Nat
  BY <1>0, <1>3, SMT
<1>5. us \in Int /\ us * F <= frac * U /\ frac * U < us * F + F
  BY <1>0, <1>4, SMT
<1> HIDE DEF us
<1>6. us * F <= r * F
  BY <1>0, <1>1, <1>2, <1>4, <1>5, SMT
<1>7. us <= r
  BY <1>0, <1>5, <1>6, SMT
<1>8. (r - 1) * F < (us + 1) * F
  <2>1. (r - 1) * F = r * F - F /\ (us + 1) * F = us * F + F
    BY <1>0, <1>5, SMT
  <2>2. us * F \in Int /\ r * F \in Int /\ frac * U \in Int
    BY <1>0, <1>1, <1>4, <1>5, SMT
  <2> QED
    BY <1>0, <1>2, <1>5, <2>1, <2>2, SMT
<1>9. r - 1 < us + 1
  BY <1>0, <1>5, <1>8, SMT
<1> QED
  BY <1>0, <1>3, <1>5, <1>7, <1>9, SMT DEF ntp_frac_to_us, frac, us, U, F

\* The seconds of a time in the era that began in 1970 are read as they were, or
\* as seconds before 1970.
LEMMA SecondsRoundTrip ==
    ASSUME NEW s \in 0 .. (ERA - 1),
           (s + NTP_TIMESTAMP_DELTA) % ERA >= NTP_TIMESTAMP_DELTA
    PROVE  ((s + NTP_TIMESTAMP_DELTA) % ERA) - NTP_TIMESTAMP_DELTA = s
<1> DEFINE D == NTP_TIMESTAMP_DELTA
<1>1. ERA \in Nat /\ ERA >= 1 /\ D \in Nat /\ s \in Nat /\ s < ERA
  BY UnitsAssumption, SMT
<1> HIDE DEF D
<1>2. CASE s + D < ERA
  <2>1. (s + D) % ERA = s + D
    BY <1>1, <1>2, SMT
  <2> QED
    BY <2>1, <1>1, SMT DEF D
<1>3. CASE s + D >= ERA
  <2> DEFINE k == (s + D) \div ERA
             m == (s + D) % ERA
  <2>1. k \in Int /\ m \in 0 .. (ERA - 1) /\ s + D = ERA * k + m
    BY <1>1, SMT
  <2> HIDE DEF k, m
  <2>2. k >= 1
    BY <1>1, <1>3, <2>1, SMT
  <2>3. ERA * k >= ERA
    BY <1>1, <2>1, <2>2, SMT
  <2>4. m <= s + D - ERA
    BY <1>1, <2>1, <2>3, SMT
  <2>5. m < D
    BY <1>1, <2>1, <2>4, SMT
  <2> QED
    BY <1>1, <2>1, <2>5, SMT DEF D, m
<1> QED
  BY <1>1, <1>2, <1>3, SMT

\* What is read of a timestamp is the time it was written at, or one microsecond
\* less: in the next era nothing is read at all.
LEMMA TimestampRoundTrip ==
    ASSUME NEW us \in Times, IsUnixTime(ToNtp(us))
    PROVE  ReadOf(UnixUs(ToNtp(us)), us)
<1> DEFINE U == US_PER_SEC
           s == us \div U
           r == us % U
           frac == (r * FRAC_PER_SEC) \div U
<1>1. U \in Nat /\ U >= 1 /\ ERA \in Nat /\ ERA >= 1
  BY UnitsAssumption
<1>2. us \in Nat /\ us < ERA * U
  BY <1>1, SMT DEF Times
<1> HIDE DEF U
<1>3. s \in Nat /\ r \in 0 .. (U - 1) /\ us = s * U + r
  BY <1>1, <1>2, SMT
<1>4. frac \in Nat /\ ntp_frac_to_us(frac) \in {r - 1, r}
  BY <1>3, FractionRoundTrip DEF U
<1>5. ToNtp(us) = [sec |-> (s + NTP_TIMESTAMP_DELTA) % ERA, frac |-> frac]
  BY DEF ToNtp, U
<1> HIDE DEF s, r, frac
<1>6. s < ERA
  <2>1. s * U < ERA * U
    BY <1>1, <1>2, <1>3, SMT
  <2> QED
    BY <1>1, <1>3, <2>1, SMT
<1>7. ((s + NTP_TIMESTAMP_DELTA) % ERA) - NTP_TIMESTAMP_DELTA = s
  <2>1. (s + NTP_TIMESTAMP_DELTA) % ERA >= NTP_TIMESTAMP_DELTA
    BY <1>5 DEF IsUnixTime
  <2>2. s \in 0 .. (ERA - 1)
    BY <1>1, <1>3, <1>6, SMT
  <2> QED
    BY <2>1, <2>2, SecondsRoundTrip
<1>8. UnixUs(ToNtp(us)) = s * U + ntp_frac_to_us(frac)
  BY <1>5, <1>7 DEF UnixUs, U
<1>9. s * U \in Int
  BY <1>1, <1>3, SMT
<1> QED
  BY <1>3, <1>4, <1>8, <1>9, SMT DEF ReadOf

\* What query() may store, when trusted servers are that much ahead.
Storable(result, ahead) ==
    IF result.ok
    THEN /\ result.error = "none" /\ result.stratum \in 1..15
         /\ 2 * (result.offset - ahead) <= result.delay + Rounding
         /\ 2 * (ahead - result.offset) <= result.delay + Rounding
    ELSE result.error # "none" /\ result.delay = 0 /\ result.stratum = -1

\* The arithmetic of RFC 5905, with every time rounded down: a leaves and t4
\* arrives by our clock, b and c are when the server read its own.
LEMMA MeasuredIsStorable ==
    ASSUME NEW a \in Int, NEW b \in Int, NEW c \in Int, NEW t4 \in Int, NEW ahead \in Int,
           NEW t1, NEW t2, NEW t3, ReadOf(t1, a), ReadOf(t2, b), ReadOf(t3, c),
           NEW stratum \in 1..15,
           a + ahead <= b, c <= t4 + ahead
    PROVE  Storable(Measured(t1, t2, t3, t4, stratum), ahead)
<1> DEFINE sum == (t2 - t1) + (t3 - t4)
           delay == (t4 - t1) - (t3 - t2)
<1>1. t1 \in Int /\ t2 \in Int /\ t3 \in Int /\ sum \in Int /\ delay \in Int
  BY SMT DEF ReadOf
<1>2. Half(sum) \in Int /\ 2 * Half(sum) \in {sum - 1, sum, sum + 1}
  <2> HIDE DEF sum
  <2> QED
    BY <1>1, SMT DEF Half
<1>3. 2 * (Half(sum) - ahead) <= delay + 3 /\ 2 * (ahead - Half(sum)) <= delay + 3
  <2> DEFINE h == Half(sum)
  <2> HIDE DEF h
  <2> QED
    BY <1>1, <1>2, SMT DEF h, ReadOf
<1>4. CASE t3 < t2 \/ delay < 0
  BY <1>4 DEF Measured, Failure, Storable
<1>5. CASE ~(t3 < t2 \/ delay < 0)
  <2>1. Measured(t1, t2, t3, t4, stratum) =
          [ok |-> TRUE, error |-> "none", offset |-> Half(sum), delay |-> delay, stratum |-> stratum]
    BY <1>5 DEF Measured
  <2> QED
    BY <1>3, <2>1 DEF Storable, Rounding
<1> QED
  BY <1>4, <1>5

-----------------------------------------------------------------------------
\* The clocks of a run stay within the era, and an error only moves them on.
LEMMA ClocksInEra ==
    ASSUME ClientTypes, NEW e \in Errors \cup {0}
    PROVE  /\ now \in Nat /\ lead \in Int /\ e \in Nat /\ Start \in Nat
           /\ now + lead + e \in Times
           /\ \A us \in Start .. now : us \in Times
<1>1. Start \in Nat /\ MaxTime \in Nat /\ lead \in Int /\ e \in Nat /\ Start + lead >= 0
  BY ClockAssumption DEF ClientTypes
<1>2. MaxTime + lead + e < ERA * US_PER_SEC /\ MaxTime < ERA * US_PER_SEC
  BY ClockAssumption DEF ClientTypes
<1>3. now \in Int /\ Start <= now /\ now <= MaxTime
  BY <1>1 DEF ClientTypes
<1>4. ERA * US_PER_SEC \in Int
  BY UnitsAssumption
<1> DEFINE end == ERA * US_PER_SEC
<1> HIDE DEF end
<1>5. now + lead + e \in 0 .. (end - 1) /\ \A us \in Start .. now : us \in 0 .. (end - 1)
  BY <1>1, <1>2, <1>3, <1>4 DEF end
<1> QED
  BY <1>1, <1>3, <1>5 DEF Times, end

\* What is genuine stays so as time passes.
LEMMA GenuineStays ==
    ASSUME ClientTypes, NEW item, now' \in Int, now' >= now, lead' = lead
    PROVE  /\ Genuine(item) => Genuine(item)'
           /\ GenuineReply(item) => GenuineReply(item)'
           /\ \A ts, us : Stamped(ts, us) => Stamped(ts, us)'
<1>1. now \in Int /\ Start \in Int
  BY ClockAssumption DEF ClientTypes
<1>2. \A ts, us : Stamped(ts, us) => Stamped(ts, us)'
  BY <1>1 DEF Stamped
<1>3. \A ts, us : Written(ts, us) => Written(ts, us)'
  BY DEF Written
<1>4. ASSUME GenuineReply(item) PROVE GenuineReply(item)'
  <2>1. CASE item.header = Good
    <3>1. PICK sent, received, replied \in Int :
             /\ Stamped(item.orig, sent) /\ Written(item.recv, received) /\ Written(item.tx, replied)
             /\ sent <= received /\ replied <= now
      BY <1>4, <2>1 DEF GenuineReply
    <3>2. replied <= now'
      BY <1>1, <3>1
    <3>3. /\ Stamped(item.orig, sent)' /\ Written(item.recv, received)' /\ Written(item.tx, replied)'
          /\ sent <= received /\ replied <= now'
      BY <1>2, <1>3, <3>1, <3>2
    <3> QED
      BY <1>4, <3>3 DEF GenuineReply
  <2> QED
    BY <1>4, <2>1 DEF GenuineReply
<1>5. ASSUME GenuineTaken(item) PROVE GenuineTaken(item)'
  BY <1>2, <1>3, <1>5 DEF GenuineTaken
<1>6. ASSUME GenuineRequest(item) PROVE GenuineRequest(item)'
  BY <1>2, <1>6 DEF GenuineRequest
<1> QED
  BY <1>2, <1>4, <1>5, <1>6 DEF Genuine

\* Only a header that is in order is measured with.
LEMMA BadHeaders ==
    ASSUME NEW header \in Headers, HeaderError(header) = "none"
    PROVE  header = Good /\ header.stratum \in 1..15
  BY DEF Headers, Good, HeaderError

\* What is parsed of a genuine answer may be stored.
LEMMA ParsedIsStorable ==
    ASSUME ClientTypes, NEW pkt, GenuineReply(pkt)
    PROVE  Storable(parse_server_packet(pkt, now), lead)
<1> DEFINE result == parse_server_packet(pkt, now)
<1>1. CASE HeaderError(pkt.header) # "none"
  BY <1>1 DEF parse_server_packet, Failure, Storable
<1>2. CASE HeaderError(pkt.header) = "none" /\ ~\A ts \in {pkt.orig, pkt.recv, pkt.tx} : IsUnixTime(ts)
  BY <1>2 DEF parse_server_packet, Failure, Storable
<1>3. CASE HeaderError(pkt.header) = "none" /\ \A ts \in {pkt.orig, pkt.recv, pkt.tx} : IsUnixTime(ts)
  <2> DEFINE t1 == UnixUs(pkt.orig)
             t2 == UnixUs(pkt.recv)
             t3 == UnixUs(pkt.tx)
  <2>1. result = Measured(t1, t2, t3, now, pkt.header.stratum)
    BY <1>3 DEF parse_server_packet
  <2>2. pkt.header = Good /\ pkt.header.stratum \in 1..15
    BY <1>3, BadHeaders DEF GenuineReply
  <2>3. PICK sent, received, replied \in Int :
           /\ Stamped(pkt.orig, sent) /\ Written(pkt.recv, received) /\ Written(pkt.tx, replied)
           /\ sent <= received /\ replied <= now
    BY <2>2 DEF GenuineReply
  <2>4. now \in Int /\ lead \in Int /\ sent \in Times
    BY <2>3, ClocksInEra DEF Stamped
  <2>5. ReadOf(t1, sent)
    BY <1>3, <2>3, <2>4, TimestampRoundTrip DEF Stamped
  <2>6. ASSUME NEW ts, NEW us, Written(ts, us), IsUnixTime(ts)
        PROVE  us + lead \in Int /\ ReadOf(UnixUs(ts), us + lead)
    BY <2>4, <2>6, TimestampRoundTrip DEF Written
  <2>7. /\ received + lead \in Int /\ ReadOf(t2, received + lead)
        /\ replied + lead \in Int /\ ReadOf(t3, replied + lead)
    BY <1>3, <2>3, <2>6
  <2>8. sent + lead <= received + lead /\ replied + lead <= now + lead
    BY <2>3, <2>4
  <2> DEFINE b == received + lead
             c == replied + lead
             stratum == pkt.header.stratum
  <2>9. /\ b \in Int /\ ReadOf(t2, b) /\ c \in Int /\ ReadOf(t3, c)
        /\ sent + lead <= b /\ c <= now + lead /\ stratum \in 1..15
    BY <2>2, <2>7, <2>8
  <2> HIDE DEF t1, t2, t3, b, c, stratum
  <2>10. Storable(Measured(t1, t2, t3, now, stratum), lead)
    BY <2>4, <2>5, <2>9, MeasuredIsStorable, Zenon
  <2> QED
    BY <2>1, <2>10 DEF stratum
<1> QED
  BY <1>1, <1>2, <1>3

\* What is stored is what was found out.
LEMMA StoreIsTrusted ==
    ASSUME NEW result, Store(result), Storable(result, lead), lead' = lead
    PROVE  AnswerIsTrusted'
<1>1. CASE result.ok
  BY <1>1 DEF Store, Storable, AnswerIsTrusted
<1>2. CASE ~result.ok
  BY <1>2 DEF Store, Storable, AnswerIsTrusted
<1> QED
  BY <1>1, <1>2

-----------------------------------------------------------------------------
\* The types of the clocks and of pc are kept.
LEMMA ClientTypesStep ==
    ASSUME ClientTypes, Next
    PROVE  /\ ClientTypes' /\ lead' = lead
           /\ now \in Int /\ now' \in Int /\ now' >= now
<1>1. Start \in Nat /\ MaxTime \in Nat /\ now \in Int
  BY ClockAssumption DEF ClientTypes
<1>2. CASE Tick
  BY <1>1, <1>2 DEF ClientTypes, Tick
<1>3. CASE Query \/ Send \/ Receive
  BY <1>1, <1>3 DEF ClientTypes, Query, Send, Receive
<1>4. CASE TransactFails \/ Parse
  BY <1>1, <1>4 DEF ClientTypes, TransactFails, Parse, Store
<1>5. CASE ServerReceives \/ ServerReplies \/ Lose
  BY <1>1, <1>5 DEF ClientTypes, ServerReceives, ServerReplies, Lose
<1> QED
  BY <1>2, <1>3, <1>4, <1>5 DEF Next

\* The network carries nothing that is not genuine, whatever it does to what it
\* carries.
LEMMA WireStep ==
    ASSUME IInv, Next
    PROVE  \A item \in wire' : Genuine(item)'
<1> USE DEF IInv
<1>1. ClientTypes /\ lead' = lead /\ now \in Int /\ now' \in Int /\ now' >= now
  BY ClientTypesStep
<1>2. ASSUME NEW item \in wire PROVE Genuine(item)'
  BY <1>1, GenuineStays
<1>3. CASE Send
  <2>1. PICK port \in Ports : wire' = wire \cup {Request(port, request)}
    BY <1>3 DEF Send
  <2>2. PICK sent \in Int : Stamped(request, sent)
    BY <1>3 DEF Send
  <2>3. Stamped(request, sent)'
    BY <1>3, <2>2 DEF Send, Stamped
  <2>4. Request(port, request).kind = "request" /\ Request(port, request).orig = request
    BY DEF Request
  <2>5. request' = request
    BY <1>3 DEF Send
  <2>6. GenuineRequest(Request(port, request))'
    BY <2>3, <2>4, <2>5 DEF GenuineRequest, Request
  <2> QED
    BY <1>2, <2>1, <2>5, <2>6 DEF Genuine, Request
<1>4. CASE ServerReceives
  <2>0. PICK req \in Of("request"), header \in Headers, e \in Errors \cup {0} :
           wire' = (wire \ {req}) \cup {Taken(req, header, ToNtp(now + lead + e))}
    BY <1>4 DEF ServerReceives
  <2>1. PICK received, recv, taken :
           /\ wire' = (wire \ {req}) \cup {taken} /\ received = now + e
           /\ recv = ToNtp(now + lead + e) /\ taken = Taken(req, header, recv)
    BY <2>0
  <2>2. req \in wire /\ req.kind = "request"
    BY DEF Of
  <2>3. PICK sent \in Int : Stamped(req.orig, sent)
    BY <2>2 DEF Genuine, GenuineRequest, GenuineTaken, GenuineReply
  <2>4. now' = now
    BY <1>4 DEF ServerReceives
  <2>5. now \in Nat /\ lead \in Int /\ e \in Nat /\ now + lead + e \in Times
    BY <1>1, ClocksInEra
  <2>6. Written(recv, received) /\ received \in Int
    <3>1. received + lead = now + lead + e /\ received \in Int
      BY <2>1, <2>5
    <3> QED
      BY <2>1, <2>5, <3>1 DEF Written
  <2>7. sent <= received
    BY <2>1, <2>3, <2>5, ClockAssumption DEF Stamped
  <2>8. Stamped(req.orig, sent)' /\ Written(recv, received)'
    BY <1>1, <2>3, <2>4, <2>6 DEF Stamped, Written
  <2>9. taken.kind = "taken" /\ taken.header = header /\ taken.orig = req.orig /\ taken.recv = recv
    BY <2>1 DEF Taken
  <2>10. GenuineTaken(taken)'
    BY <2>6, <2>7, <2>8, <2>9 DEF GenuineTaken
  <2> QED
    BY <1>2, <2>1, <2>10 DEF Genuine
<1>5. CASE ServerReplies
  <2>0. PICK taken \in Of("taken"), e \in Errors \cup {0} :
           /\ e = 0 <=> taken.header = Good
           /\ wire' = (wire \ {taken}) \cup {Reply(taken, ToNtp(now + lead + e))}
    BY <1>5 DEF ServerReplies
  <2>1. PICK tx, answer :
           /\ e = 0 <=> taken.header = Good
           /\ wire' = (wire \ {taken}) \cup {answer}
           /\ tx = ToNtp(now + lead + e) /\ answer = Reply(taken, tx)
    BY <2>0
  <2>2. taken \in wire /\ taken.kind = "taken" /\ GenuineTaken(taken)
    BY DEF Of, Genuine, GenuineRequest, GenuineReply
  <2>3. now' = now
    BY <1>5 DEF ServerReplies
  <2>4. answer.kind = "reply" /\ answer.header = taken.header /\ answer.orig = taken.orig
        /\ answer.recv = taken.recv /\ answer.tx = tx
    BY <2>1 DEF Reply
  <2>5. ASSUME taken.header = Good
        PROVE  \E sent, received, replied \in Int :
                  /\ Stamped(answer.orig, sent)' /\ Written(answer.recv, received)'
                  /\ Written(answer.tx, replied)' /\ sent <= received /\ replied <= now'
    <3>1. PICK sent, received \in Int :
             Stamped(taken.orig, sent) /\ Written(taken.recv, received) /\ sent <= received
      BY <2>2, <2>5 DEF GenuineTaken
    <3>2. e = 0
      BY <2>1, <2>5
    <3>3. now \in Nat /\ lead \in Int /\ now + lead + 0 \in Times
      BY <1>1, <3>2, ClocksInEra
    <3>4. tx = ToNtp(now + lead) /\ now + lead \in Times
      BY <2>1, <3>2, <3>3
    <3>5. Written(tx, now)'
      BY <1>1, <2>3, <3>3, <3>4 DEF Written
    <3>6. Stamped(taken.orig, sent)' /\ Written(taken.recv, received)'
      BY <1>1, <2>3, <3>1 DEF Stamped, Written
    <3> QED
      BY <1>1, <2>3, <2>4, <3>1, <3>3, <3>5, <3>6
  <2>6. GenuineReply(answer)'
    BY <2>2, <2>4, <2>5 DEF GenuineReply, GenuineTaken
  <2> QED
    BY <1>2, <2>1, <2>6 DEF Genuine
<1>6. CASE Lose \/ Tick \/ Query
  BY <1>2, <1>6 DEF Lose, Tick, Query
<1>7. CASE Receive \/ TransactFails \/ Parse
  BY <1>2, <1>7 DEF Receive, TransactFails, Parse
<1> QED
  BY <1>3, <1>4, <1>5, <1>6, <1>7 DEF Next

-----------------------------------------------------------------------------
\* The invariant holds at first: no query has ended.
LEMMA InitIsGenuine == Init => IInv
<1> SUFFICES ASSUME Init PROVE IInv
  OBVIOUS
<1>1. ClientTypes
  BY ClockAssumption DEF Init, ClientTypes
<1> QED
  BY <1>1 DEF Init, IInv, AnswerIsTrusted

\* query() keeps its request until it is sent and the answer until it is parsed.
LEMMA TransactionStep ==
    ASSUME IInv, Next
    PROVE  /\ pc' = "resolving" => \E sent \in Int : Stamped(request, sent)'
           /\ pc' = "received" => GenuineReply(reply)'
<1>1. ClientTypes /\ ClientTypes' /\ lead' = lead /\ now \in Int /\ now' \in Int /\ now' >= now
  BY ClientTypesStep DEF IInv
<1>2. CASE Query
  <2>1. now \in Int /\ request' = ToNtp(now) /\ now' = now /\ now \in Start .. now'
    BY <1>1, <1>2, ClockAssumption DEF Query, ClientTypes
  <2>2. Stamped(request, now)'
    BY <2>1 DEF Stamped
  <2>3. pc' = "resolving"
    BY <1>2 DEF Query
  <2> QED
    BY <2>1, <2>2, <2>3 DEF Stamped
<1>3. CASE Receive
  <2>1. PICK datagram \in Of("reply") : reply' = datagram
    BY <1>3 DEF Receive
  <2>2. GenuineReply(datagram)
    BY DEF IInv, Of, Genuine, GenuineRequest, GenuineTaken
  <2>3. GenuineReply(datagram)'
    BY <1>1, <2>2, GenuineStays
  <2>4. pc' = "received" /\ GenuineReply(reply)'
    BY <1>3, <2>1, <2>3 DEF Receive, GenuineReply
  <2> QED
    BY <2>4
<1>4. CASE Send \/ TransactFails \/ Parse
  BY <1>4 DEF Send, TransactFails, Parse, Store
<1>5. CASE Tick \/ ServerReceives \/ ServerReplies \/ Lose
  <2>1. pc' = pc /\ request' = request /\ reply' = reply
    BY <1>5 DEF Tick, ServerReceives, ServerReplies, Lose, transaction
  <2>2. ASSUME pc' = "resolving" PROVE \E sent \in Int : Stamped(request, sent)'
    <3>1. PICK sent \in Int : Stamped(request, sent)
      BY <2>1, <2>2 DEF IInv
    <3>2. Stamped(request, sent)'
      BY <1>1, <2>1, <3>1, ClockAssumption DEF Stamped
    <3> QED
      BY <3>2
  <2>3. ASSUME pc' = "received" PROVE GenuineReply(reply)'
    <3>1. PICK item : item = reply
      OBVIOUS
    <3>2. GenuineReply(item)
      BY <2>1, <2>3, <3>1 DEF IInv
    <3>3. GenuineReply(item)'
      BY <1>1, <3>2, GenuineStays
    <3> QED
      BY <2>1, <3>1, <3>3 DEF GenuineReply
  <2> QED
    BY <2>2, <2>3
<1> QED
  BY <1>2, <1>3, <1>4, <1>5 DEF Next

\* Only the end of a query changes the fields.
LEMMA AnswerStep ==
    ASSUME IInv, Next
    PROVE  AnswerIsTrusted'
<1>1. ClientTypes /\ lead' = lead
  BY ClientTypesStep DEF IInv
<1>2. CASE Query \/ Send \/ Receive
  BY <1>2 DEF Query, Send, Receive, AnswerIsTrusted
<1>3. CASE TransactFails
  <2>1. PICK error : error # "none" /\ Store(Failure(error))
    BY <1>3 DEF TransactFails
  <2>2. Storable(Failure(error), lead)
    BY <2>1 DEF Failure, Storable
  <2> QED
    BY <1>1, <2>1, <2>2, StoreIsTrusted
<1>4. CASE Parse
  <2>1. GenuineReply(reply) /\ Store(parse_server_packet(reply, now))
    BY <1>4 DEF Parse, IInv
  <2>2. Storable(parse_server_packet(reply, now), lead)
    BY <1>1, <2>1, ParsedIsStorable
  <2> QED
    BY <1>1, <2>1, <2>2, StoreIsTrusted
<1>5. CASE Tick \/ ServerReceives \/ ServerReplies \/ Lose
  BY <1>1, <1>5 DEF Tick, ServerReceives, ServerReplies, Lose, measured, AnswerIsTrusted, IInv
<1> QED
  BY <1>2, <1>3, <1>4, <1>5 DEF Next

\* Every step keeps the invariant.
LEMMA NextIsGenuine == IInv /\ [Next]_vars => IInv'
<1> SUFFICES ASSUME IInv, [Next]_vars PROVE IInv'
  OBVIOUS
<1>1. CASE Next
  <2>1. ClientTypes'
    BY <1>1, ClientTypesStep DEF IInv
  <2> QED
    BY <1>1, <2>1, WireStep, TransactionStep, AnswerStep DEF IInv
<1>2. CASE UNCHANGED vars
  <2>1. UNCHANGED <<now, lead, wire, pc, request, reply>>
    BY <1>2 DEF vars, transaction
  <2>2. AnswerIsTrusted'
    BY <1>2 DEF vars, transaction, measured, AnswerIsTrusted, IInv
  <2> QED
    BY <2>1, <2>2 DEF IInv, ClientTypes, Genuine, GenuineRequest, GenuineTaken, GenuineReply, Stamped, Written
<1> QED
  BY <1>1, <1>2

\* Whatever the network and the servers do, the offset that query() stores is
\* off by no more than half of the delay it stores with it, and a failure says
\* why (ntp_client.hpp, query()).
THEOREM AnswersAreTrusted == Spec => []AnswerIsTrusted
<1>1. IInv => AnswerIsTrusted
  BY DEF IInv
<1> QED
  BY <1>1, InitIsGenuine, NextIsGenuine, PTL DEF Spec
=============================================================================

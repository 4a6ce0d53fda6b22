------------------------------ MODULE Discovery ------------------------------
(***************************************************************************)
(* Service discovery: the DNS-SD client of dnssd_client.c, se_discover.c   *)
(* and the part of client_poll (client.c) that reports services.           *)
(*                                                                         *)
(* A query is sent once; what is missing from the answers is asked for by  *)
(* dnssd_followup whenever packets have arrived.  A packet that answers a  *)
(* question may be lost, late, repeated or out of order: any of Packets    *)
(* arrives any number of times once its question has been asked.           *)
(***************************************************************************)
EXTENDS Naturals, SequencesExt

CONSTANTS
    Query,     \* names se_discover may ask for
    Service, Host,
    Packets,   \* what responders send: [of, answers, extra], the question
               \* answered, the answer section and the additional records
    Null

Name == Query \cup Service \cup Host

\* A resource record: its type, its name, the name it points to (a PTR record to a
\* service, an SRV record to a host), and whether the checks on its data pass.
Record ==
    [type : {"PTR"}, name : Name, to : Service, valid : BOOLEAN]
    \cup [type : {"SRV"}, name : Name, to : Host, valid : BOOLEAN]
    \cup [type : {"TXT", "A", "AAAA"}, name : Name, to : {Null}, valid : BOOLEAN]

ASSUME PacketAssumption ==
    /\ Null \notin Service \cup Host
    /\ \A p \in Packets : /\ p.of \in Name
                          /\ p.answers \in Seq(Record) /\ p.extra \in Seq(Record)
                          /\ p.answers # <<>>

VARIABLES
    pc,        \* "poll": in event_poll, "receive": in dnssd_receive,
               \* "next": in service_next, "fault": NULL was read
    dns,       \* service, list: dns_service, the newest first, and its entries;
               \* hosts, addr: dns_host, and which of them have an address
    asked,     \* names in the questions sent
    at,        \* client_poll's s: the place in the list, 0 for NULL
    found      \* the services reported by SERVICE_FOUND, in order

vars == <<pc, dns, asked, at, found>>

Unknown == [txt |-> FALSE, srv |-> FALSE, complete |-> FALSE, seen |-> FALSE, host |-> Null]

Init ==
    /\ pc = "poll" /\ at = 0 /\ found = <<>>
    /\ dns = [list |-> <<>>, service |-> [s \in Service |-> Unknown],
              hosts |-> {}, addr |-> [h \in Host |-> FALSE]]
    /\ asked \in SUBSET Query \ {{}}

-----------------------------------------------------------------------------
(* Records. *)

\* dns_find: the first such record of the additional section.
Has(extra, name, type) == \E i \in 1 .. Len(extra) : extra[i].name = name /\ extra[i].type = type
DnsFind(extra, name, type) ==
    extra[CHOOSE i \in 1 .. Len(extra) :
             /\ extra[i].name = name /\ extra[i].type = type
             /\ \A j \in 1 .. i - 1 : ~(extra[j].name = name /\ extra[j].type = type)]

DnsTxt(d, s, r) == IF r.valid THEN [d EXCEPT !.service[s].txt = TRUE] ELSE d

HostAddress(d, h, r) == IF r.valid THEN [d EXCEPT !.addr[h] = TRUE] ELSE d

\* dns_srv: a host is attached to the service once; the address of the target
\* is an IPv6 one if there is any.
DnsSrv(d, s, r, extra) ==
    LET h  == IF d.service[s].host = Null THEN r.to ELSE d.service[s].host
        d1 == [d EXCEPT !.service[s].host = h, !.service[s].srv = TRUE,
                        !.hosts = @ \cup {h}]
    IN  IF Has(extra, r.to, "AAAA") THEN HostAddress(d1, h, DnsFind(extra, r.to, "AAAA"))
        ELSE IF Has(extra, r.to, "A") THEN HostAddress(d1, h, DnsFind(extra, r.to, "A"))
        ELSE d1

\* Mutant: a service is entered for every PTR record.
DnsPtrTwice(d, r, extra) == [d EXCEPT !.list = <<r.to>> \o @]

\* dns_ptr.
DnsPtr(d, r, extra) ==
    LET s  == r.to
        d1 == IF Contains(d.list, s) THEN d ELSE [d EXCEPT !.list = <<s>> \o @]
        d2 == IF Has(extra, s, "SRV") THEN DnsSrv(d1, s, DnsFind(extra, s, "SRV"), extra) ELSE d1
    IN  IF Has(extra, s, "TXT") THEN DnsTxt(d2, s, DnsFind(extra, s, "TXT")) ELSE d2

\* process_answers returns after the first record.
ProcessAnswers(d, answers, extra) ==
    LET r == Head(answers)
    IN  CASE r.type = "PTR" -> IF r.name \in asked THEN DnsPtr(d, r, extra) ELSE d
          [] r.type = "SRV" -> IF Contains(d.list, r.name) THEN DnsSrv(d, r.name, r, extra) ELSE d
          [] r.type = "TXT" -> IF Contains(d.list, r.name) THEN DnsTxt(d, r.name, r) ELSE d
          [] OTHER -> IF r.name \in d.hosts THEN HostAddress(d, r.name, r) ELSE d

-----------------------------------------------------------------------------
(* Events. *)

\* dnssd_packet, for each packet net_receive returns.
Packet ==
    /\ pc \in {"poll", "receive"} /\ pc' = "receive"
    /\ \E p \in Packets : /\ p.of \in asked
                          /\ dns' = ProcessAnswers(dns, p.answers, p.extra)
    /\ UNCHANGED <<asked, at, found>>

Unlocated(s) == ~dns.addr[dns.service[s].host]

\* Mutant: the TXT record is not waited for.
MissingSrv(s) == ~dns.service[s].srv

Missing(s) == ~dns.service[s].txt \/ ~dns.service[s].srv

\* Mutant: addresses are not asked for.
QuestionsNames == {s \in ToSet(dns.list) : Missing(s)}

Questions ==
    {s \in ToSet(dns.list) : Missing(s)}
    \cup {dns.service[s].host : s \in {t \in ToSet(dns.list) : Unlocated(t)}}

\* dnssd_followup reads the host of every service; then the list goes to
\* service_next.
Followup ==
    /\ pc = "receive"
    /\ \/ /\ \A s \in ToSet(dns.list) : dns.service[s].host # Null
          /\ asked' = asked \cup Questions
          /\ dns' = [dns EXCEPT !.service = [s \in Service |->
                       IF Contains(dns.list, s)
                       THEN [@[s] EXCEPT !.complete = ~Missing(s) /\ ~Unlocated(s)]
                       ELSE @[s]]]
          /\ pc' = "next" /\ at' = 1
       \/ /\ \E s \in ToSet(dns.list) : dns.service[s].host = Null
          /\ pc' = "fault" /\ UNCHANGED <<asked, dns, at>>
    /\ UNCHANGED found

Fresh(i) == dns.service[dns.list[i]].complete /\ ~dns.service[dns.list[i]].seen

\* client_poll, called again after each SERVICE_FOUND.
ServiceNext ==
    /\ pc = "next"
    /\ \/ \E i \in at .. Len(dns.list) :
             /\ i > 0 /\ Fresh(i) /\ \A j \in at .. i - 1 : ~Fresh(j)
             /\ dns' = [dns EXCEPT !.service[dns.list[i]].seen = TRUE]
             /\ found' = Append(found, dns.list[i]) /\ at' = i /\ UNCHANGED pc
       \/ /\ \A i \in at .. Len(dns.list) : ~Fresh(i)
          /\ pc' = "poll" /\ at' = 0 /\ UNCHANGED <<dns, found>>
    /\ UNCHANGED asked

Next == Packet \/ Followup \/ ServiceNext

Spec == Init /\ [][Next]_vars

\* A packet that would tell the client something new arrives again and again
\* once its question has been asked.
News(p) ==
    /\ pc \in {"poll", "receive"} /\ p.of \in asked
    /\ dns' = ProcessAnswers(dns, p.answers, p.extra) /\ dns' # dns
    /\ pc' = "receive" /\ UNCHANGED <<asked, at, found>>

FairSpec ==
    /\ Spec /\ WF_vars(Followup) /\ WF_vars(ServiceNext)
    /\ \A p \in Packets : SF_vars(News(p))

-----------------------------------------------------------------------------
(* Properties. *)

TypeOK ==
    /\ pc \in {"poll", "receive", "next", "fault"}
    /\ dns.list \in Seq(Service) /\ IsInjective(dns.list)
    /\ dns.service \in [Service -> [txt : BOOLEAN, srv : BOOLEAN, complete : BOOLEAN,
                                    seen : BOOLEAN, host : Host \cup {Null}]]
    /\ dns.hosts \subseteq Host /\ dns.addr \in [Host -> BOOLEAN]
    /\ asked \subseteq Name
    /\ at \in 0 .. Len(dns.list) + 1 /\ found \in Seq(Service)

\* A service is reported once at most, and only when its SRV and TXT records and
\* the address of its host are known: get_dcap connects to that address and port
\* and reads the path from the TXT record.
FoundUsable ==
    /\ IsInjective(found)
    /\ \A i \in 1 .. Len(found) :
          /\ dns.service[found[i]].srv /\ dns.service[found[i]].txt
          /\ dns.service[found[i]].host \in dns.hosts /\ ~Unlocated(found[i])

\* A service whose instance name is known is reported in the end.
Reported == \A s \in Service : Contains(dns.list, s) ~> Contains(found, s)
=============================================================================

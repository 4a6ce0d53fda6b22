--------------------------- MODULE Discovery_proofs ---------------------------
(***************************************************************************)
(* Services are reported once and usable, for every set of packets, in     *)
(* whatever order and however often they arrive.                           *)
(***************************************************************************)
EXTENDS Discovery, SequenceTheorems, WellFoundedInduction, TLAPS

Entry == [txt : BOOLEAN, srv : BOOLEAN, complete : BOOLEAN, seen : BOOLEAN,
          host : Host \cup {Null}]

Dns == [list : Seq(Service), service : [Service -> Entry],
        hosts : SUBSET Host, addr : [Host -> BOOLEAN]]

\* What get_dcap needs of a service.
Usable(d, s) == /\ d.service[s].srv /\ d.service[s].txt
                /\ d.service[s].host \in d.hosts /\ d.addr[d.service[s].host]

\* An entry of the list is there once.  The host of a service is a known one.
DnsOK(d) == /\ d \in Dns /\ IsInjective(d.list)
            /\ \A s \in Service : d.service[s].host \in d.hosts \cup {Null}

\* What packets do: nothing that is known is forgotten, and only dnssd_followup
\* and service_next mark a service.
Grows(d, e) ==
    /\ Len(d.list) <= Len(e.list) /\ d.hosts \subseteq e.hosts
    /\ \A h \in Host : d.addr[h] => e.addr[h]
    /\ \A s \in Service :
          /\ d.service[s].srv => e.service[s].srv
          /\ d.service[s].txt => e.service[s].txt
          /\ d.service[s].host # Null => e.service[s].host = d.service[s].host
          /\ e.service[s].complete = d.service[s].complete
          /\ e.service[s].seen = d.service[s].seen

\* A service that is marked complete can be used, and stays so.
CompleteInv == \A s \in Service : dns.service[s].complete => Usable(dns, s)

\* What was reported is marked, so that it is not reported again.
FoundInv == /\ IsInjective(found)
            /\ \A i \in 1 .. Len(found) : /\ dns.service[found[i]].seen
                                          /\ Usable(dns, found[i])

IInv == TypeOK /\ DnsOK(dns) /\ CompleteInv /\ FoundInv

-----------------------------------------------------------------------------
(* Records and what they change. *)

\* A set of numbers that is not empty has a least one.
LEMMA Least ==
  ASSUME NEW T, T \subseteq Nat, T # {}
  PROVE  \E n \in T : \A m \in T : ~(m < n)
<1>1. PICK n \in T : \A m \in T : ~(<<m, n>> \in OpToRel(<, Nat))
  BY WFMin, NatLessThanWellFounded
<1>. QED BY <1>1 DEF OpToRel

\* dns_find returns a record of the name and type it was asked for.
LEMMA FindType ==
  ASSUME NEW extra \in Seq(Record), NEW name, NEW type, Has(extra, name, type)
  PROVE  /\ DnsFind(extra, name, type) \in Record
         /\ DnsFind(extra, name, type).type = type
<1> DEFINE Fits(i) == extra[i].name = name /\ extra[i].type = type
           T == {i \in 1 .. Len(extra) : Fits(i)}
<1>1. T # {} /\ T \subseteq Nat
  BY DEF Has
<1>2. PICK n \in T : \A m \in T : ~(m < n)
  BY <1>1, Least
<1>3. \E i \in 1 .. Len(extra) : Fits(i) /\ \A j \in 1 .. i - 1 : ~Fits(j)
  <2>1. \A j \in 1 .. n - 1 : ~Fits(j)
    BY <1>2, LenProperties
  <2>. QED BY <1>2, <2>1
<1> DEFINE c == CHOOSE i \in 1 .. Len(extra) : Fits(i) /\ \A j \in 1 .. i - 1 : ~Fits(j)
<1>4. c \in 1 .. Len(extra) /\ Fits(c)
  BY <1>3
<1>5. DnsFind(extra, name, type) = extra[c]
  BY DEF DnsFind
<1>. QED BY <1>4, <1>5, ElementOfSeq

LEMMA GrowsTransitive ==
  ASSUME NEW d, NEW e, NEW f, DnsOK(d), DnsOK(e), DnsOK(f), Grows(d, e), Grows(e, f)
  PROVE  Grows(d, f)
  BY DEF Grows, DnsOK, Dns, Entry

LEMMA GrowsReflexive == ASSUME NEW d, DnsOK(d) PROVE Grows(d, d)
  BY DEF Grows, DnsOK, Dns

\* A service that can be used stays usable.
LEMMA UsableStays ==
  ASSUME NEW d, NEW e, DnsOK(d), DnsOK(e), Grows(d, e), NEW s \in Service, Usable(d, s)
  PROVE  Usable(e, s)
<1>1. d.service[s].host \in Host /\ d.service[s].host # Null
  BY PacketAssumption DEF Usable, DnsOK, Dns, PacketAssumption
<1>. QED BY <1>1 DEF Grows, Usable

LEMMA TxtGrows ==
  ASSUME NEW d, DnsOK(d), NEW s \in Service, NEW r
  PROVE  DnsOK(DnsTxt(d, s, r)) /\ Grows(d, DnsTxt(d, s, r))
<1> DEFINE d1 == [d EXCEPT !.service[s].txt = TRUE]
<1>1. [d.service EXCEPT ![s].txt = TRUE] \in [Service -> Entry]
  BY DEF DnsOK, Dns, Entry
<1>2. /\ d1 \in Dns /\ d1.list = d.list /\ d1.hosts = d.hosts /\ d1.addr = d.addr
      /\ d1.service = [d.service EXCEPT ![s].txt = TRUE]
  BY <1>1 DEF DnsOK, Dns
<1> HIDE DEF d1
<1>3. DnsOK(d1) /\ Grows(d, d1)
  BY <1>2 DEF DnsOK, Dns, Entry, Grows
<1>. QED BY <1>3, GrowsReflexive DEF DnsTxt, d1

LEMMA AddressGrows ==
  ASSUME NEW d, DnsOK(d), NEW h \in Host, NEW r
  PROVE  DnsOK(HostAddress(d, h, r)) /\ Grows(d, HostAddress(d, h, r))
  BY GrowsReflexive DEF HostAddress, DnsOK, Dns, Grows

LEMMA EntryWithHost ==
  ASSUME NEW f \in [Service -> Entry], NEW s \in Service, NEW h \in Host
  PROVE  [f EXCEPT ![s].host = h, ![s].srv = TRUE] \in [Service -> Entry]
<1>1. ASSUME NEW e \in Entry PROVE [e EXCEPT !.host = h] \in Entry
  BY DEF Entry
<1>2. ASSUME NEW e \in Entry PROVE [e EXCEPT !.srv = TRUE] \in Entry
  BY DEF Entry
<1>3. [[f[s] EXCEPT !.host = h] EXCEPT !.srv = TRUE] \in Entry
  BY <1>1, <1>2
<1>. QED BY <1>3

LEMMA SrvGrows ==
  ASSUME NEW d, DnsOK(d), NEW s \in Service, NEW r \in Record, r.type = "SRV",
         NEW extra \in Seq(Record)
  PROVE  DnsOK(DnsSrv(d, s, r, extra)) /\ Grows(d, DnsSrv(d, s, r, extra))
<1> DEFINE h  == IF d.service[s].host = Null THEN r.to ELSE d.service[s].host
           d1 == [d EXCEPT !.service[s].host = h, !.service[s].srv = TRUE,
                           !.hosts = @ \cup {h}]
<1>1. r.to \in Host
  BY DEF Record
<1>2. h \in Host
  BY <1>1 DEF DnsOK, Dns, Entry
<1> HIDE DEF h
<1>3. d.service[s].host # Null => h = d.service[s].host
  BY DEF h
<1>4. DnsOK(d1) /\ Grows(d, d1)
  <2>1. d1 \in Dns
    <3>1. d.service \in [Service -> Entry]
      BY DEF DnsOK, Dns
    <3>2. [d.service EXCEPT ![s].host = h, ![s].srv = TRUE] \in [Service -> Entry]
      BY <1>2, <3>1, EntryWithHost
    <3>. QED BY <1>2, <3>2 DEF DnsOK, Dns
  <2>2. /\ d1.list = d.list /\ d1.hosts = d.hosts \cup {h} /\ d1.addr = d.addr
        /\ \A t \in Service : t # s => d1.service[t] = d.service[t]
        /\ d1.service[s] = [d.service[s] EXCEPT !.host = h, !.srv = TRUE]
    BY DEF DnsOK, Dns, Entry
  <2>3. DnsOK(d1)
    BY <2>1, <2>2 DEF DnsOK, Dns, Entry
  <2>4. Grows(d, d1)
    BY <1>3, <2>2 DEF Grows, DnsOK, Dns, Entry
  <2>. QED BY <2>3, <2>4
<1> HIDE DEF d1
<1>5. DnsSrv(d, s, r, extra) \in {d1} \cup {HostAddress(d1, h, DnsFind(extra, r.to, t)) :
                                             t \in {"A", "AAAA"}}
  BY DEF DnsSrv, d1, h
<1>6. \A t : DnsOK(HostAddress(d1, h, t)) /\ Grows(d1, HostAddress(d1, h, t))
  BY <1>2, <1>4, AddressGrows
<1>. QED BY <1>4, <1>5, <1>6, GrowsTransitive

\* A new entry of the list goes before the others.
LEMMA EnterGrows ==
  ASSUME NEW d, DnsOK(d), NEW s \in Service, ~Contains(d.list, s)
  PROVE  /\ DnsOK([d EXCEPT !.list = <<s>> \o @])
         /\ Grows(d, [d EXCEPT !.list = <<s>> \o @])
<1> DEFINE l == <<s>> \o d.list
           e == [d EXCEPT !.list = l]
<1>1. d.list \in Seq(Service) /\ Len(d.list) \in Nat /\ IsInjective(d.list)
  BY LenProperties DEF DnsOK, Dns
<1>2. /\ l \in Seq(Service) /\ Len(l) = Len(d.list) + 1
      /\ \A i \in 1 .. Len(l) : l[i] = IF i = 1 THEN s ELSE d.list[i - 1]
  BY <1>1
<1>3. IsInjective(l)
  <2> SUFFICES ASSUME NEW i \in 1 .. Len(l), NEW j \in 1 .. Len(l), l[i] = l[j] PROVE i = j
    BY <1>2 DEF IsInjective
  <2>1. \A k \in 1 .. Len(d.list) : d.list[k] # s
    BY DEF Contains
  <2>2. \A k, m \in 1 .. Len(d.list) : d.list[k] = d.list[m] => k = m
    BY <1>1 DEF IsInjective
  <2>3. l[i] = (IF i = 1 THEN s ELSE d.list[i - 1]) /\ l[j] = (IF j = 1 THEN s ELSE d.list[j - 1])
    BY <1>2
  <2> HIDE DEF l
  <2>6. \A k \in 1 .. Len(l) : k # 1 => k - 1 \in 1 .. Len(d.list)
    BY <1>1, <1>2
  <2>4. CASE i = 1 \/ j = 1
    <3>1. ~(i = 1 /\ j # 1) /\ ~(j = 1 /\ i # 1)
      BY <2>1, <2>3, <2>6
    <3>. QED BY <2>4, <3>1
  <2>5. CASE i # 1 /\ j # 1
    <3>1. i - 1 \in 1 .. Len(d.list) /\ j - 1 \in 1 .. Len(d.list)
      BY <2>5, <2>6
    <3>2. i - 1 = j - 1
      BY <2>2, <2>3, <2>5, <3>1
    <3>. QED BY <3>1, <3>2
  <2>. QED BY <2>4, <2>5
<1> HIDE DEF l
<1>4. /\ e \in Dns /\ e.list = l /\ e.service = d.service /\ e.hosts = d.hosts
      /\ e.addr = d.addr
  BY <1>2 DEF DnsOK, Dns
<1> HIDE DEF e
<1>5. DnsOK(e) /\ Grows(d, e)
  BY <1>1, <1>2, <1>3, <1>4 DEF DnsOK, Grows
<1>. QED BY <1>5 DEF e, l

LEMMA PtrGrows ==
  ASSUME NEW d, DnsOK(d), NEW r \in Record, r.type = "PTR", NEW extra \in Seq(Record)
  PROVE  DnsOK(DnsPtr(d, r, extra)) /\ Grows(d, DnsPtr(d, r, extra))
<1> DEFINE s  == r.to
           d1 == IF Contains(d.list, s) THEN d ELSE [d EXCEPT !.list = <<s>> \o @]
           d2 == IF Has(extra, s, "SRV") THEN DnsSrv(d1, s, DnsFind(extra, s, "SRV"), extra)
                 ELSE d1
           d3 == IF Has(extra, s, "TXT") THEN DnsTxt(d2, s, DnsFind(extra, s, "TXT")) ELSE d2
<1>1. s \in Service
  BY DEF Record
<1> HIDE DEF s
<1>2. DnsOK(d1) /\ Grows(d, d1)
  BY <1>1, EnterGrows, GrowsReflexive
<1> HIDE DEF d1
<1>3. DnsOK(d2) /\ Grows(d1, d2)
  <2>1. CASE Has(extra, s, "SRV")
    BY <1>1, <1>2, <2>1, FindType, SrvGrows
  <2>2. CASE ~Has(extra, s, "SRV")
    BY <1>2, <2>2, GrowsReflexive
  <2>. QED BY <2>1, <2>2
<1> HIDE DEF d2
<1>4. DnsOK(d3) /\ Grows(d2, d3)
  BY <1>1, <1>3, TxtGrows, GrowsReflexive
<1> HIDE DEF d3
<1>5. DnsPtr(d, r, extra) = d3
  BY DEF DnsPtr, d3, d2, d1, s
<1>6. Grows(d, d2)
  BY <1>2, <1>3, GrowsTransitive
<1>. QED BY <1>3, <1>4, <1>5, <1>6, GrowsTransitive

\* Whatever a packet holds, the client knows at least as much after it.
LEMMA AnswersGrow ==
  ASSUME NEW d, DnsOK(d), NEW p \in Packets
  PROVE  /\ DnsOK(ProcessAnswers(d, p.answers, p.extra))
         /\ Grows(d, ProcessAnswers(d, p.answers, p.extra))
<1> DEFINE r == Head(p.answers)
<1>1. r \in Record /\ p.extra \in Seq(Record)
  BY PacketAssumption, HeadTailProperties DEF PacketAssumption
<1> HIDE DEF r
<1>2. DnsOK(d) /\ Grows(d, d)
  BY GrowsReflexive
<1>3. \A s : Contains(d.list, s) => s \in Service
  BY DEF Contains, DnsOK, Dns
<1>4. d.hosts \subseteq Host
  BY DEF DnsOK, Dns
<1>5. CASE r.type = "PTR"
  BY <1>1, <1>2, <1>5, PtrGrows DEF ProcessAnswers, r
<1>6. CASE r.type = "SRV"
  BY <1>1, <1>2, <1>3, <1>6, SrvGrows DEF ProcessAnswers, r
<1>7. CASE r.type = "TXT"
  BY <1>1, <1>2, <1>3, <1>7, TxtGrows DEF ProcessAnswers, r
<1>8. CASE r.type \notin {"PTR", "SRV", "TXT"}
  BY <1>1, <1>2, <1>4, <1>8, AddressGrows DEF ProcessAnswers, r
<1>. QED BY <1>5, <1>6, <1>7, <1>8

-----------------------------------------------------------------------------
(* The steps. *)

LEMMA InitInv == Init => IInv
<1> SUFFICES ASSUME Init PROVE IInv
  OBVIOUS
<1>1. Unknown \in Entry /\ ~Unknown.complete
  BY DEF Unknown, Entry
<1>2. /\ dns.list = <<>> /\ dns.service = [s \in Service |-> Unknown]
      /\ dns.hosts = {} /\ dns.addr = [h \in Host |-> FALSE]
  BY DEF Init
<1>3. dns \in Dns
  BY <1>1 DEF Init, Dns
<1>4. IsInjective(dns.list) /\ IsInjective(found)
  BY DEF Init, IsInjective
<1>5. DnsOK(dns)
  BY <1>2, <1>3, <1>4 DEF DnsOK, Unknown
<1>6. TypeOK
  BY <1>3, <1>4 DEF Init, TypeOK, Dns, Entry, Name
<1>7. CompleteInv /\ FoundInv
  BY <1>1, <1>2, <1>4 DEF Init, CompleteInv, FoundInv
<1>. QED BY <1>5, <1>6, <1>7 DEF IInv

LEMMA PacketInv == IInv /\ Packet => IInv'
<1> SUFFICES ASSUME IInv, Packet PROVE IInv'
  OBVIOUS
<1>1. DnsOK(dns') /\ Grows(dns, dns')
  BY AnswersGrow DEF Packet, IInv
<1>2. UNCHANGED <<asked, at, found>> /\ pc' = "receive"
  BY DEF Packet
<1>3. \A s \in Service : Usable(dns, s) => Usable(dns', s)
  BY <1>1, UsableStays DEF IInv
<1>4. TypeOK'
  <2>1. at' \in 0 .. Len(dns'.list) + 1
    <3>1. Len(dns.list) \in Nat /\ Len(dns'.list) \in Nat /\ Len(dns.list) <= Len(dns'.list)
      BY <1>1, LenProperties DEF IInv, DnsOK, Dns, Grows
    <3>2. at \in 0 .. Len(dns.list) + 1
      BY DEF IInv, TypeOK
    <3>. QED BY <1>2, <3>1, <3>2
  <2>. QED BY <1>1, <1>2, <2>1 DEF IInv, TypeOK, DnsOK, Dns, Entry
<1>5. CompleteInv'
  BY <1>1, <1>3 DEF IInv, CompleteInv, Grows
<1>6. FoundInv'
  <2>1. \A i \in 1 .. Len(found) : found[i] \in Service
    BY DEF IInv, TypeOK
  <2>. QED BY <1>1, <1>2, <1>3, <2>1 DEF IInv, FoundInv, Grows
<1>. QED BY <1>1, <1>4, <1>5, <1>6 DEF IInv

LEMMA FollowupInv == IInv /\ Followup => IInv'
<1> SUFFICES ASSUME IInv, Followup PROVE IInv'
  OBVIOUS
<1>1. CASE pc' = "fault"
  <2>1. UNCHANGED <<asked, dns, at, found>>
    BY <1>1 DEF Followup
  <2>. QED BY <1>1, <2>1 DEF IInv, TypeOK, CompleteInv, FoundInv
<1>2. CASE pc' # "fault"
  <2> DEFINE Marked(s) == [dns.service[s] EXCEPT !.complete = ~Missing(s) /\ ~Unlocated(s)]
             service == [s \in Service |-> IF Contains(dns.list, s) THEN Marked(s)
                                           ELSE dns.service[s]]
  <2>1. /\ \A s \in ToSet(dns.list) : dns.service[s].host # Null
        /\ asked' = asked \cup Questions /\ dns' = [dns EXCEPT !.service = service]
        /\ pc' = "next" /\ at' = 1 /\ found' = found
    BY <1>2 DEF Followup
  <2>2. \A s \in Service : dns.service[s] \in Entry
    BY DEF IInv, DnsOK, Dns
  <2>3. ASSUME NEW s \in Service
        PROVE  /\ Marked(s) \in Entry
               /\ Marked(s).complete = (~Missing(s) /\ ~Unlocated(s))
               /\ Marked(s).srv = dns.service[s].srv /\ Marked(s).txt = dns.service[s].txt
               /\ Marked(s).host = dns.service[s].host /\ Marked(s).seen = dns.service[s].seen
    BY <2>2, Zenon DEF Entry
  <2> HIDE DEF Marked
  <2>4. /\ service \in [Service -> Entry]
        /\ \A s \in Service : /\ service[s].srv = dns.service[s].srv
                              /\ service[s].txt = dns.service[s].txt
                              /\ service[s].host = dns.service[s].host
                              /\ service[s].seen = dns.service[s].seen
    BY <2>2, <2>3
  <2>5. /\ dns' \in Dns /\ dns'.list = dns.list /\ dns'.hosts = dns.hosts
        /\ dns'.addr = dns.addr /\ dns'.service = service
    BY <2>1, <2>4 DEF IInv, DnsOK, Dns
  <2>6. DnsOK(dns')
    BY <2>4, <2>5 DEF IInv, DnsOK
  <2>7. \A s \in Service : Usable(dns, s) => Usable(dns', s)
    BY <2>4, <2>5 DEF Usable
  <2>8. CompleteInv'
    <3> SUFFICES ASSUME NEW s \in Service, service[s].complete PROVE Usable(dns', s)
      BY <2>5 DEF CompleteInv
    <3>1. CASE Contains(dns.list, s)
      <4>1. dns.service[s].host \in dns.hosts
        <5>1. s \in ToSet(dns.list)
          BY <3>1, LenProperties DEF Contains, ToSet, IInv, DnsOK, Dns
        <5>. QED BY <2>1, <5>1 DEF IInv, DnsOK
      <4>2. ~Missing(s) /\ ~Unlocated(s)
        BY <2>3, <3>1
      <4>. QED BY <2>7, <4>1, <4>2 DEF Usable, Missing, Unlocated
    <3>2. CASE ~Contains(dns.list, s)
      BY <2>7, <3>2 DEF IInv, CompleteInv
    <3>. QED BY <3>1, <3>2
  <2>9. \A i \in 1 .. Len(found) : found[i] \in Service
    BY DEF IInv, TypeOK
  <2>10. FoundInv'
    BY <2>1, <2>4, <2>5, <2>7, <2>9 DEF IInv, FoundInv
  <2>11. Questions \subseteq Name
    <3>1. ToSet(dns.list) \subseteq Service
      BY DEF ToSet, IInv, DnsOK, Dns
    <3>2. \A s \in ToSet(dns.list) : dns.service[s].host \in Host
      BY <2>1, <2>2, <3>1 DEF Entry
    <3>. QED BY <3>1, <3>2 DEF Questions, Name
  <2>12. at' \in 0 .. Len(dns'.list) + 1
    BY <2>1, <2>5, LenProperties DEF Dns
  <2>13. TypeOK'
    BY <2>1, <2>5, <2>6, <2>11, <2>12 DEF IInv, TypeOK, DnsOK, Dns, Entry
  <2>. QED BY <2>6, <2>8, <2>10, <2>13 DEF IInv
<1>. QED BY <1>1, <1>2

LEMMA ServiceNextInv == IInv /\ ServiceNext => IInv'
<1> SUFFICES ASSUME IInv, ServiceNext PROVE IInv'
  OBVIOUS
<1>0. dns.list \in Seq(Service) /\ Len(dns.list) \in Nat /\ at \in 0 .. Len(dns.list) + 1
  BY LenProperties DEF IInv, TypeOK
<1>1. CASE pc' = "poll" /\ at' = 0 /\ UNCHANGED <<dns, found>>
  <2>1. asked' = asked
    BY DEF ServiceNext
  <2>. QED BY <1>0, <1>1, <2>1 DEF IInv, TypeOK, CompleteInv, FoundInv
<1>2. CASE ~(pc' = "poll" /\ at' = 0 /\ UNCHANGED <<dns, found>>)
  <2>1. PICK i \in at .. Len(dns.list) :
           /\ i > 0 /\ Fresh(i)
           /\ dns' = [dns EXCEPT !.service[dns.list[i]].seen = TRUE]
           /\ found' = Append(found, dns.list[i]) /\ at' = i /\ pc' = pc
    BY <1>2 DEF ServiceNext
  <2> DEFINE s == dns.list[i]
  <2>2. i \in 1 .. Len(dns.list) /\ s \in Service
    BY <1>0, <2>1
  <2>3. dns.service[s].complete /\ ~dns.service[s].seen
    BY <2>1 DEF Fresh
  <2> HIDE DEF s
  <2>4. [dns.service EXCEPT ![s].seen = TRUE] \in [Service -> Entry]
    BY <2>2 DEF IInv, DnsOK, Dns, Entry
  <2>5. /\ dns' \in Dns /\ dns'.list = dns.list /\ dns'.hosts = dns.hosts
        /\ dns'.addr = dns.addr /\ dns'.service = [dns.service EXCEPT ![s].seen = TRUE]
    BY <2>1, <2>4 DEF IInv, DnsOK, Dns, s
  <2>6. \A t \in Service : /\ dns'.service[t].srv = dns.service[t].srv
                           /\ dns'.service[t].txt = dns.service[t].txt
                           /\ dns'.service[t].host = dns.service[t].host
                           /\ dns'.service[t].complete = dns.service[t].complete
                           /\ t = s \/ dns.service[t].seen => dns'.service[t].seen
    <3> TAKE t \in Service
    <3>1. dns.service[t] \in Entry /\ dns.service[s] \in Entry
      BY <2>2 DEF IInv, DnsOK, Dns
    <3>2. dns'.service[t] = IF t = s THEN [dns.service[s] EXCEPT !.seen = TRUE]
                            ELSE dns.service[t]
      BY <2>2, <2>5 DEF IInv, DnsOK, Dns
    <3>5. ASSUME NEW e \in Entry
          PROVE  LET f == [e EXCEPT !.seen = TRUE]
                 IN  /\ f.srv = e.srv /\ f.txt = e.txt /\ f.host = e.host
                     /\ f.complete = e.complete /\ f.seen
      BY Zenon DEF Entry
    <3>3. CASE t = s
      BY <3>1, <3>2, <3>3, <3>5
    <3>4. CASE t # s
      BY <3>2, <3>4
    <3>. QED BY <3>3, <3>4
  <2>7. DnsOK(dns') /\ \A t \in Service : Usable(dns, t) => Usable(dns', t)
    BY <2>5, <2>6 DEF IInv, DnsOK, Usable
  <2>8. CompleteInv'
    BY <2>6, <2>7 DEF IInv, CompleteInv
  <2>9. found \in Seq(Service) /\ Len(found) \in Nat /\ \A k \in 1 .. Len(found) : found[k] \in Service
    BY LenProperties DEF IInv, TypeOK
  <2>10. /\ found' \in Seq(Service) /\ Len(found') = Len(found) + 1
         /\ \A k \in 1 .. Len(found') : found'[k] = IF k <= Len(found) THEN found[k] ELSE s
    BY <2>1, <2>2, <2>9, AppendProperties DEF s
  <2>11. IsInjective(found')
    <3>1. \A k \in 1 .. Len(found) : found[k] # s
      BY <2>3 DEF IInv, FoundInv
    <3>2. \A k, m \in 1 .. Len(found) : found[k] = found[m] => k = m
      BY <2>9 DEF IInv, FoundInv, IsInjective
    <3> SUFFICES ASSUME NEW k \in 1 .. Len(found'), NEW m \in 1 .. Len(found'),
                        found'[k] = found'[m]
                 PROVE  k = m
      BY <2>10 DEF IsInjective
    <3>. QED BY <2>9, <2>10, <3>1, <3>2
  <2>12. FoundInv'
    <3>1. Usable(dns, s)
      BY <2>2, <2>3 DEF IInv, CompleteInv
    <3>2. \A k \in 1 .. Len(found') : /\ found'[k] \in Service /\ Usable(dns, found'[k])
                                      /\ found'[k] = s \/ dns.service[found'[k]].seen
      BY <2>2, <2>9, <2>10, <3>1 DEF IInv, FoundInv
    <3>. QED BY <2>6, <2>7, <2>11, <3>2 DEF FoundInv
  <2>13. TypeOK'
    <3>1. asked' = asked /\ at' = i /\ pc' = pc
      BY <2>1 DEF ServiceNext
    <3>2. at' \in 0 .. Len(dns'.list) + 1
      BY <1>0, <2>2, <2>5, <3>1
    <3>. QED BY <2>5, <2>7, <2>10, <3>1, <3>2 DEF IInv, TypeOK, DnsOK, Dns, Entry
  <2>. QED BY <2>7, <2>8, <2>12, <2>13 DEF IInv
<1>. QED BY <1>1, <1>2

THEOREM Invariance == Spec => []IInv
<1>1. IInv /\ UNCHANGED vars => IInv'
  BY DEF vars, IInv, TypeOK, CompleteInv, FoundInv
<1>. QED BY <1>1, InitInv, PacketInv, FollowupInv, ServiceNextInv, PTL DEF Spec, Next

\* The client's knowledge keeps its type: a service is entered in the list once,
\* and client_poll's place stays within it.
THEOREM TypeCorrect == Spec => []TypeOK
<1>1. IInv => TypeOK
  BY DEF IInv
<1>. QED BY <1>1, Invariance, PTL

\* A service is reported once at most, and only when its records and the address
\* of its host are known.
THEOREM ReportedUsable == Spec => []FoundUsable
<1>1. IInv => FoundUsable
  BY DEF IInv, FoundInv, FoundUsable, Usable, Unlocated
<1>. QED BY <1>1, Invariance, PTL
=============================================================================

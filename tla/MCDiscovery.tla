---------------------------- MODULE MCDiscovery ----------------------------
(* Small instances of Discovery. *)
EXTENDS Discovery

Rr(type, name, to) == [type |-> type, name |-> name, to |-> to, valid |-> TRUE]
Garbled(r) == [r EXCEPT !.valid = FALSE]
Answer(of, answers, extra) == [of |-> of, answers |-> answers, extra |-> extra]

\* Two services on one host.  Responders send the SRV record with the PTR record
\* and leave out or garble others; a question about a name is answered by one
\* record a packet.
MCPackets ==
    {Answer("dcap", <<Rr("PTR", "dcap", "s1")>>, <<Rr("SRV", "s1", "h1")>>),
     Answer("dcap", <<Rr("PTR", "dcap", "s1"), Rr("PTR", "dcap", "s2")>>,
            <<Rr("SRV", "s1", "h1"), Garbled(Rr("TXT", "s1", Null)), Rr("AAAA", "h1", Null)>>),
     Answer("dcap", <<Rr("PTR", "dcap", "s2")>>,
            <<Rr("SRV", "s2", "h2"), Rr("TXT", "s2", Null), Garbled(Rr("A", "h2", Null))>>),
     Answer("edev", <<Rr("PTR", "dcap", "s2")>>, <<Rr("SRV", "s2", "h2")>>),
     Answer("edev", <<Rr("PTR", "edev", "s1")>>, <<Rr("SRV", "s1", "h1"), Rr("TXT", "s1", Null)>>),
     Answer("dcap", <<Rr("SRV", "s2", "h1")>>, <<Rr("A", "h1", Null)>>),
     Answer("s1", <<Rr("TXT", "s1", Null), Rr("SRV", "s1", "h1")>>, <<>>),
     Answer("s1", <<Rr("SRV", "s1", "h1")>>, <<>>),
     Answer("h1", <<Rr("AAAA", "h1", Null)>>, <<>>),
     Answer("h2", <<Rr("A", "h2", Null)>>, <<>>)}
=============================================================================

---------------------------- MODULE MCEventQuery ----------------------------
(* A small instance of EventQuery: five events that between them lack and   *)
(* share every field, seen from the third minute after the first.           *)
EXTENDS EventQuery

F(type, host, src, dest, dhcp, mac, sid, dnstype, rrname) ==
    [k \in {"event_type", "host", "src_ip", "dest_ip", "dhcp.assigned_ip", "dhcp.client_mac",
            "alert.signature_id", "dns.type", "dns.rrname"} |->
        CASE k = "event_type" -> type [] k = "host" -> host [] k = "src_ip" -> src [] k = "dest_ip" -> dest
          [] k = "dhcp.assigned_ip" -> dhcp [] k = "dhcp.client_mac" -> mac
          [] k = "alert.signature_id" -> sid [] k = "dns.type" -> dnstype [] k = "dns.rrname" -> rrname]

Ev(ts, arch, esc, dns, f) == [ts |-> ts, arch |-> arch, esc |-> esc, dns |-> dns, f |-> f]

Dns(queries, answers, authorities) ==
    [queries |-> queries, answers |-> answers, authorities |-> authorities, additionals |-> <<>>]
NoDns == Dns(<<>>, <<>>, <<>>)

Query(name) == ("dns.queries.rrname" :> name)
Answer(rdata, ttl) == ("dns.answers.rdata" :> rdata @@ "dns.answers.ttl" :> ttl)

MCCatalogue == {
    Ev(1, FALSE, FALSE, NoDns, F("alert", "h1", "ip1", "ip10", None, None, "300", None, None)),
    Ev(2, TRUE, TRUE, NoDns, F("alert", None, "ip10", "ip1", None, None, "300", None, None)),
    Ev(65, FALSE, FALSE, Dns(<<Query("n1"), Query("h1")>>, <<Answer("ip10", "300"), Answer("ip1", "300")>>,
                             <<"dns.authorities.rdata" :> "ip10">>),
       F("dns", "h1", "ip1", "ip10", None, None, None, "request", None)),
    Ev(129, FALSE, TRUE, NoDns, F("dns", "h2", "ip10", None, None, None, None, "query", "n1")),
    Ev(129, FALSE, FALSE, NoDns, F("dhcp", "h2", None, None, "ip1", "mac", None, None, None))}

MCArrayOf == "dns.queries.rrname" :> "queries" @@ "dns.answers.rdata" :> "answers"
             @@ "dns.answers.ttl" :> "answers" @@ "dns.authorities.rdata" :> "authorities"

MCEmbeds == {<<"ip1", "ip10">>}

(* Stats events have nothing to do with the text index and are followed on  *)
(* a server without one.                                                    *)
MCNext == QueryNext /\ (fts => UNCHANGED statsVars)

MCSpec == QueryInit /\ [][MCNext]_reportVars
=============================================================================

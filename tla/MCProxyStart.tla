---------------------------- MODULE MCProxyStart ----------------------------
(***************************************************************************)
(* Services of one and two ports: the two share a number or not, one may   *)
(* be the port of the health server, privileged (port 80 refused by the    *)
(* node, 443 not), SCTP, named like the port of the probes, or have a      *)
(* target port of its own, which may be the number of the other port.      *)
(***************************************************************************)
EXTENDS ProxyStart, TLC

Port(name, number, protocol, target) ==
    [name |-> name, port |-> number, protocol |-> protocol, target |-> target]

MCPorts ==
    { <<>>,
      <<Port("a", 8080, "TCP", 8080)>>,
      <<Port("a", 8081, "TCP", 8081)>>,
      <<Port("a", 443, "TCP", 443)>>,
      <<Port("probes", 8080, "TCP", 8080)>>,
      <<Port("a", 80, "TCP", 8080), Port("b", 8080, "TCP", 8080)>>,
      <<Port("a", 8080, "TCP", 8080), Port("b", 9090, "UDP", 9090)>>,
      <<Port("a", 8080, "TCP", 8080), Port("b", 8080, "UDP", 9090)>>,
      <<Port("a", 8080, "TCP", 8080), Port("b", 8080, "TCP", 9090)>>,
      <<Port("a", 8080, "TCP", 8080), Port("b", 8081, "SCTP", 8081)>> }

MCServices ==
    { [ports |-> ports, ips |-> ips, local |-> local,
       allowPrivileged |-> privileged, proxyProtocol |-> version] :
        ports \in MCPorts, ips \in SUBSET {"ipv4", "ipv6"}, local \in BOOLEAN,
        privileged \in BOOLEAN, version \in {"", "1", "2", "v1"} }

\* Two endpoints of a, or one of each family, and one of b or none.
MCEndpointSets ==
    { ("a" :> as) @@ ("b" :> bs) @@ ("probes" :> {}) :
        as \in { {}, {Endpoint("ipv4", "a", 1), Endpoint("ipv4", "a", 2)},
                 {Endpoint("ipv4", "a", 2), Endpoint("ipv6", "a", 3)} },
        bs \in { {}, {Endpoint("ipv4", "b", 4)} } }
=============================================================================

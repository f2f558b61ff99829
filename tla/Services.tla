------------------------------ MODULE Services -------------------------------
(***************************************************************************)
(* The servers beside the HTTP server's transport, as main.c starts and    *)
(* stops them: DHCP (DhcpOptions), DNS (DnsServer) and the LED's pages     *)
(* (Led), with clients that may call from the moment a socket is bound.    *)
(*                                                                         *)
(* dhcp_server and dns_server are variables of main and not set at first.  *)
(* A callback may come between any two calls of main, which waits until it *)
(* has returned.  If the HTTP server cannot be opened main returns, with   *)
(* its frame, while the sockets stay bound.                                *)
(***************************************************************************)
EXTENDS DnsServer, DhcpOptions, Led

VARIABLE main   \* the call main is about to make

vars == <<main, dnsVars, dhcpVars, ledVars>>

Init == main = "dhcp init" /\ DnsInit /\ DhcpInit /\ LedInit

-----------------------------------------------------------------------------
\* No callback is running.
Idle == dns_pc = "idle" /\ dhcp_pc = "idle"

Main(from, to) == main = from /\ main' = to /\ Idle

\* Mutant: the socket is bound before the addresses are set.
BindsFirst ==
  /\ \/ dhcp_socket_new /\ Main("dhcp init", IF dhcp_udp' = "new" THEN "dhcp bind" ELSE "dns new")
     \/ dhcp_socket_bind /\ Main("dhcp bind", "dhcp new")
     \/ Main("dhcp new", "dns new") /\ dhcp_set_fields
  /\ UNCHANGED <<dnsVars, ledVars>>

dhcp_server_init ==
  /\ \/ Main("dhcp init", "dhcp new") /\ dhcp_set_fields
     \/ dhcp_socket_new /\ Main("dhcp new", IF dhcp_udp' = "new" THEN "dhcp bind" ELSE "dns new")
     \/ Main("dhcp bind", "dns new") /\ dhcp_socket_bind
  /\ UNCHANGED <<dnsVars, ledVars>>

dns_server_init ==
  /\ \/ dns_socket_new /\ Main("dns new", IF dns_udp' = "new" THEN "dns bind" ELSE "open http")
     \/ dns_socket_bind /\ Main("dns bind", IF dns_udp' = "bound" THEN "dns copy" ELSE "open http")
     \/ Main("dns copy", "open http") /\ dns_set_ip
  /\ UNCHANGED <<dhcpVars, ledVars>>

http_server_open == Main("open http", "repl") /\ UNCHANGED <<dnsVars, dhcpVars, ledVars>>

\* What runs next writes over main's frame.
http_server_fails ==
  /\ Main("open http", "failed")
  /\ dns_ip' \in BOOLEAN /\ dhcp_set' \in BOOLEAN
  /\ UNCHANGED <<dns_udp, dnsLocals, dhcp_udp, dhcpLocals, ledVars>>

\* repl_enter, http_server_close
repl_returns == Main("repl", "dns deinit") /\ UNCHANGED <<dnsVars, dhcpVars, ledVars>>

dns_server_deinit ==
  Main("dns deinit", "dhcp deinit") /\ dns_socket_free /\ UNCHANGED <<dhcpVars, ledVars>>

dhcp_server_deinit ==
  Main("dhcp deinit", "arch deinit") /\ dhcp_socket_free /\ UNCHANGED <<dnsVars, ledVars>>

\* cyw43_arch_deinit, and main returns.
arch_deinit == Main("arch deinit", "returned") /\ UNCHANGED <<dnsVars, dhcpVars, ledVars>>

\* A reset, at any time.  The browsers go on showing their pages.
Reboot ==
  /\ main' = "dhcp init"
  /\ dns_udp' = "none" /\ dns_ip' = FALSE /\ dns_forget
  /\ dhcp_udp' = "none" /\ dhcp_set' = FALSE /\ dhcp_forget
  /\ led' = FALSE /\ UNCHANGED page

-----------------------------------------------------------------------------
\* The network is up, and no other callback is running.
DnsCall == dhcp_pc = "idle" /\ dns_server_process /\ UNCHANGED <<main, dhcpVars, ledVars>>

DhcpCall == dns_pc = "idle" /\ dhcp_server_process /\ UNCHANGED <<main, dnsVars, ledVars>>

\* Connections that are open stay open until the network goes.
HttpCall ==
  /\ main \in {"repl", "dns deinit", "dhcp deinit", "arch deinit"}
  /\ Idle
  /\ LedRequests
  /\ UNCHANGED <<main, dnsVars, dhcpVars>>

Starts == dhcp_server_init \/ dns_server_init \/ http_server_open \/ http_server_fails

Stops == repl_returns \/ dns_server_deinit \/ dhcp_server_deinit \/ arch_deinit

Next == Starts \/ Stops \/ Reboot \/ DnsCall \/ DhcpCall \/ HttpCall

Spec == Init /\ [][Next]_vars
-----------------------------------------------------------------------------
TypeOK ==
  /\ main \in {"dhcp init", "dhcp new", "dhcp bind", "dns new", "dns bind", "dns copy", "open http",
               "repl", "dns deinit", "dhcp deinit", "arch deinit", "failed", "returned"}
  /\ DnsTypeOK /\ LedTypeOK
  /\ dhcp_udp \in {"none", "new", "bound"}
  /\ dhcp_set \in BOOLEAN
  /\ dhcp_pc \in {"idle", "find type", "switch", "find ip", "send", "ignore"}

\* A client is never told an address that was not set: a lease goes out with
\* the server's own address from the first message on, and a name is answered
\* with it, except in the moment between the bind and the copy of the address
\* in dns_server_init, and after main has failed; and no server is called
\* when its variables are gone, except then.
AnswersOwnAddress ==
  /\ dns_pc # "idle" => dns_ip \/ main \in {"dns copy", "failed"}
  /\ dhcp_pc # "idle" => dhcp_set \/ main = "failed"
  /\ dns_pc # "idle" \/ dhcp_pc # "idle" => main # "returned"
=============================================================================

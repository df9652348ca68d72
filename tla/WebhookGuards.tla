---------------------------- MODULE WebhookGuards ---------------------------
(***************************************************************************)
(* The two judges of a webhook URL: the subscription service when it is    *)
(* registered (webhook-url-guard.ts, subscription.ts) and the dispatch     *)
(* service before and during every call (ssrf.go).  They are written in    *)
(* two languages on two libraries, and are meant to be of one opinion.     *)
(***************************************************************************)
EXTENDS Integers, Sequences

CONSTANTS
  RequireHttps,          \* WEBHOOK_REQUIRE_HTTPS
  AllowPrivateNetworks   \* WEBHOOK_ALLOW_PRIVATE_NETWORKS, both read by both services

ASSUME OptionsAssumption == RequireHttps \in BOOLEAN /\ AllowPrivateNetworks \in BOOLEAN

\* The four octets of an IPv4 address, the eight groups of an IPv6 address.
Octet == {n \in Nat : n < 256}
Group == {n \in Nat : n < 65536}
V4 == [1..4 -> Octet]
V6 == [1..8 -> Group]
Address == [version : {4}, parts : V4] \cup [version : {6}, parts : V6]

\* No port in the URL, or the default one of its scheme.
NoPort == 65536

\* What a URL says.  literal: the address written as the host, if it is one and not a
\* name.  plain: the string is in the form new URL() normalises it to; what is stored and
\* what url.Parse reads is the string.
Url == [scheme : {"https", "http", "other", "unparsable"}, credentials : BOOLEAN,
        port : Group \cup {NoPort}, literal : SUBSET Address, plain : BOOLEAN]

-----------------------------------------------------------------------------
(* webhook-url-guard.ts.                                                   *)

AssertSyntacticallyValid(url) == url.scheme \in {"https", "http"} /\ ~url.credentials

DENIED_PORTS ==
  {22, 23, 25, 111, 135, 139, 445, 1433, 1521, 2049, 2375, 2379, 3306, 3389, 5432, 5672,
   6379, 9042, 9092, 9200, 11211, 27017}

AssertPortAllowed(url) ==
  \/ url.port = NoPort
  \/ url.port \notin DENIED_PORTS /\ (url.port >= 1024 \/ url.port \in {80, 443})

\* A mistake in blockedReasonV4: the carrier-grade NAT space is forgotten.
BlockedReasonV4NoCgnat(p) ==
  \/ p[1] \in {0, 127, 10}
  \/ p[1] = 172 /\ p[2] \in 16..31
  \/ p[1] = 192 /\ p[2] = 168
  \/ p[1] = 169 /\ p[2] = 254
  \/ p[1] >= 224

BlockedReasonV4(p) ==
  \/ p[1] \in {0, 127, 10}
  \/ p[1] = 172 /\ p[2] \in 16..31
  \/ p[1] = 192 /\ p[2] = 168
  \/ p[1] = 169 /\ p[2] = 254
  \/ p[1] = 100 /\ p[2] \in 64..127
  \/ p[1] >= 224

\* The text of an IPv6 address: the groups before and after `::`, or all of them.  A
\* dotted quad at its end has become two groups.
ExpandIpv6(left, right, abbreviated) ==
  IF abbreviated THEN left \o [i \in 1..(8 - Len(left) - Len(right)) |-> 0] \o right ELSE left

\* ::ffff:a.b.c.d and ::a.b.c.d, but neither :: nor ::1.
EmbedsIpv4(g) ==
  /\ \A i \in 1..5 : g[i] = 0
  /\ \/ g[6] = 65535
     \/ g[6] = 0 /\ (g[7] # 0 \/ g[8] > 1)

EmbeddedIpv4(g) == <<g[7] \div 256, g[7] % 256, g[8] \div 256, g[8] % 256>>

\* Beside those: unspecified and loopback, unique local, link-local, multicast.
BlockedReasonV6(g) ==
  IF EmbedsIpv4(g)
    THEN BlockedReasonV4(EmbeddedIpv4(g))
    ELSE \/ \A i \in 1..7 : g[i] = 0 /\ g[8] \in {0, 1}
         \/ 64512 <= g[1] /\ g[1] <= 65023
         \/ 65152 <= g[1] /\ g[1] <= 65215
         \/ 65280 <= g[1] /\ g[1] <= 65535

BlockedReason(a) == IF a.version = 4 THEN BlockedReasonV4(a.parts) ELSE BlockedReasonV6(a.parts)

AssertAddressAllowed(a) == AllowPrivateNetworks \/ ~BlockedReason(a)

\* A literal needs no look-up; a name that does not resolve has no answers.
Destinations(url, answers) == IF url.literal # {} THEN url.literal ELSE answers

AssertAllowed(url, answers) ==
  /\ AssertSyntacticallyValid(url)
  /\ RequireHttps => url.scheme = "https"
  /\ AssertPortAllowed(url)
  /\ Destinations(url, answers) # {}
  /\ \A a \in Destinations(url, answers) : AssertAddressAllowed(a)

-----------------------------------------------------------------------------
(* ssrf.go.                                                                *)

deniedPorts ==
  {22, 23, 25, 111, 135, 139, 445, 1433, 1521, 2049, 2375, 2379, 3306, 3389, 5432, 5672,
   6379, 9042, 9092, 9200, 11211, 27017}

checkPort(port) ==
  \/ port = NoPort
  \/ 1 <= port /\ port <= 65535 /\ port \notin deniedPorts /\ ~(port < 1024 /\ port # 80 /\ port # 443)

\* To4 of package net sees through the mapped form alone.
Is4in6(a) == a.version = 6 /\ (\A i \in 1..5 : a.parts[i] = 0) /\ a.parts[6] = 65535

\* The predicates of package net, on IPv4 and on IPv6 addresses, and the CGNAT block.
NetBlocks4(p) ==
  \/ p[1] = 127
  \/ p[1] = 10 \/ (p[1] = 172 /\ p[2] \in 16..31) \/ (p[1] = 192 /\ p[2] = 168)
  \/ p[1] = 169 /\ p[2] = 254
  \/ \A i \in 1..4 : p[i] = 0
  \/ p[1] \in 224..239
  \/ \A i \in 1..4 : p[i] = 255
  \/ p[1] = 100 /\ p[2] \in 64..127

NetBlocks6(g) ==
  \/ (\A i \in 1..7 : g[i] = 0) /\ g[8] = 1
  \/ g[1] \div 512 = 126
  \/ g[1] \div 64 = 1018
  \/ \A i \in 1..8 : g[i] = 0
  \/ g[1] \div 256 = 255

checkIP(a) ==
  \/ AllowPrivateNetworks
  \/ IF a.version = 4 THEN ~NetBlocks4(a.parts)
     ELSE IF Is4in6(a) THEN ~NetBlocks4(EmbeddedIpv4(a.parts))
     ELSE ~NetBlocks6(a.parts)

ValidateURL(url, answers) ==
  /\ \/ url.scheme = "https"
     \/ url.scheme = "http" /\ ~RequireHttps
  /\ checkPort(url.port)
  /\ Destinations(url, answers) # {}
  /\ \A a \in Destinations(url, answers) : checkIP(a)
=============================================================================

--------------------------- MODULE MCWebhookSender --------------------------
(***************************************************************************)
(* What TLC needs to check WebhookSender: one status per way the sender    *)
(* and the dispatch service tell them apart, and URLs and addresses at the *)
(* edges of the guards' rules.                                             *)
(***************************************************************************)
EXTENDS WebhookSender

MCStatuses ==
  {200,                  \* a success, to most subscriptions
   404,                  \* final, and a refusal to most of them
   429, 503}             \* tried again
Quad(a, b, c, d) == [version |-> 4, parts |-> <<a, b, c, d>>]
Six(left, right) == [version |-> 6, parts |-> ExpandIpv6(left, right, TRUE)]

\* Either side of the edges of every block: private, loopback, link-local, CGNAT,
\* multicast, reserved, mapped and compatible.
MCAddresses ==
  {Quad(a, 0, 0, 1) : a \in {0, 9, 10, 11, 126, 127, 128, 223, 224, 239, 240}}
    \cup {Quad(172, b, 0, 1) : b \in {15, 16, 31, 32}}
    \cup {Quad(192, b, 0, 1) : b \in {167, 168, 169}}
    \cup {Quad(169, b, 169, 254) : b \in {253, 254}}
    \cup {Quad(100, b, 0, 1) : b \in {63, 64, 127, 128}}
    \cup {Quad(0, 0, 0, 0), Quad(255, 255, 255, 255)}
    \cup {Six(<<>>, <<>>), Six(<<>>, <<1>>), Six(<<>>, <<2>>), Six(<<>>, <<65535, 2560, 1>>),
          Six(<<>>, <<65535, 2049, 1>>), Six(<<8193>>, <<1>>)}
    \cup {Six(<<g>>, <<1>>) : g \in {64511, 64512, 65023, 65152, 65215, 65216, 65279, 65280, 65535}}

\* A name has no address, a good one, a bad one, or a bad one beside a good one.
MCResolutions ==
  {{}, {Quad(9, 0, 0, 1)}, {Quad(100, 64, 0, 1)},
   {Quad(9, 0, 0, 1), Six(<<>>, <<65535, 2560, 1>>)}}

Named(port) ==
  [scheme |-> "https", credentials |-> FALSE, port |-> port, literal |-> {}, plain |-> TRUE]

\* A name on ports at the edges, every address as a literal, and URLs that differ in one
\* more respect.
MCUrls ==
  {Named(port) : port \in {NoPort, 0, 79, 443, 1023, 1024, 5432}}
    \cup {[Named(NoPort) EXCEPT !.literal = {a}] : a \in MCAddresses}
    \cup {[Named(NoPort) EXCEPT !.scheme = s] : s \in {"http", "other", "unparsable"}}
    \cup {[Named(NoPort) EXCEPT !.credentials = TRUE], [Named(NoPort) EXCEPT !.plain = FALSE]}
=============================================================================

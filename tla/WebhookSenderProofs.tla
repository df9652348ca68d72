------------------------- MODULE WebhookSenderProofs ------------------------
(***************************************************************************)
(* Proofs about WebhookSender, for every configuration.                    *)
(***************************************************************************)
EXTENDS WebhookSender, TLAPS

\* The loop's counter starts at none and is below the limit while it goes on.
CounterOK ==
  /\ step = "validate" => attempt = 0
  /\ step \in {"call", "pause"} => attempt < MaxAttempts

\* While the cycle goes on, every answer that said "taken" was lost: an answer that
\* arrived whole with the expected status has ended the cycle, unless it is retryable.
AcceptanceInv ==
  ~RetryableStatus(expected) =>
    /\ step \in {"validate", "call"} => accepted = lost
    /\ step = "pause" => accepted = lost /\ Retryable(answer)
    /\ step = "done" => accepted = lost + (IF Succeeded THEN 1 ELSE 0)

\* One time limit for each call and one pause for each but the last.
TimeInv ==
  MaxDelay > 0 =>
    /\ elapsed <= attempt * (Timeout + BaseDelay + MaxDelay)
    /\ step = "pause" =>
         elapsed + BaseDelay + MaxDelay <= attempt * (Timeout + BaseDelay + MaxDelay)

TypeInv == SenderTypeOK /\ CounterOK

\* Until its name resolves differently, the registration would let the URL pass again.
GuardInv ==
  /\ ~moved => AssertAllowed(url, addresses)
  /\ RegisteredIsDeliverable

-----------------------------------------------------------------------------
(* The two guards.                                                         *)

\* What no address rule of the registration blocks, none of the dispatch service does.
LEMMA AddressRulesAgree ==
  ASSUME NEW a \in Address, AssertAddressAllowed(a)
  PROVE  checkIP(a)
<1>1. CASE AllowPrivateNetworks
  BY <1>1 DEF checkIP
<1>2. CASE ~AllowPrivateNetworks /\ a.version = 4
  <2>1. a.parts \in V4
    BY <1>2 DEF Address
  <2>2. ~BlockedReasonV4(a.parts)
    BY <1>2 DEF AssertAddressAllowed, BlockedReason
  <2>3. ~NetBlocks4(a.parts)
    BY <2>1, <2>2 DEF V4, Octet, BlockedReasonV4, NetBlocks4
  <2>4. QED BY <1>2, <2>3 DEF checkIP
<1>3. CASE ~AllowPrivateNetworks /\ a.version # 4
  <2> DEFINE g == a.parts
  <2>1. g \in V6 /\ ~BlockedReasonV6(g)
    BY <1>3 DEF Address, AssertAddressAllowed, BlockedReason
  <2>2. \A i \in 1..8 : g[i] \in Group
    BY <2>1 DEF V6
  <2>3. CASE Is4in6(a)
    <3>1. EmbedsIpv4(g)
      BY <2>3 DEF Is4in6, EmbedsIpv4
    <3>2. ~BlockedReasonV4(EmbeddedIpv4(g))
      BY <2>1, <3>1 DEF BlockedReasonV6
    <3>3. EmbeddedIpv4(g) \in V4
      <4>1. \A n \in Group : n \div 256 \in Octet /\ n % 256 \in Octet
        BY DEF Group, Octet
      <4>2. QED BY <2>2, <4>1 DEF EmbeddedIpv4, V4
    <3>4. ~NetBlocks4(EmbeddedIpv4(g))
      BY <3>2, <3>3 DEF V4, Octet, BlockedReasonV4, NetBlocks4
    <3>5. QED BY <1>3, <2>3, <3>4 DEF checkIP
  <2>4. CASE ~Is4in6(a)
    <3>1. CASE EmbedsIpv4(g)
      <4>1. g[1] = 0 /\ (g[7] # 0 \/ g[8] > 1)
        BY <1>3, <2>2, <2>4, <3>1 DEF EmbedsIpv4, Is4in6, Address
      <4>2. ~NetBlocks6(g)
        BY <4>1, <2>2 DEF NetBlocks6, Group
      <4>3. QED BY <1>3, <2>4, <4>2 DEF checkIP
    <3>2. CASE ~EmbedsIpv4(g)
      <4>1. /\ ~(\A i \in 1..7 : g[i] = 0 /\ g[8] \in {0, 1})
            /\ ~(64512 <= g[1] /\ g[1] <= 65023)
            /\ ~(65152 <= g[1] /\ g[1] <= 65215)
            /\ ~(65280 <= g[1] /\ g[1] <= 65535)
        BY <2>1, <3>2 DEF BlockedReasonV6
      <4>2. g[1] \in Nat /\ g[1] <= 65535
        BY <2>2 DEF Group
      <4>3. g[1] \div 512 # 126 /\ g[1] \div 64 # 1018 /\ g[1] \div 256 # 255
        BY <4>1, <4>2
      <4>4. ~NetBlocks6(g)
        BY <4>1, <4>3 DEF NetBlocks6
      <4>5. QED BY <1>3, <2>4, <4>4 DEF checkIP
    <3>3. QED BY <3>1, <3>2
  <2>5. QED BY <2>3, <2>4
<1>4. QED BY <1>1, <1>2, <1>3

\* The guards of the two services are of one opinion on everything that was registered: a
\* URL the subscription service lets pass passes the guard of the dispatch service, and its
\* dialer refuses no address of it.
THEOREM GuardsAgree ==
  ASSUME NEW u \in Url, NEW answers \in SUBSET Address, AssertAllowed(u, answers)
  PROVE  /\ ValidateURL(u, answers)
         /\ \A a \in Destinations(u, answers) : checkIP(a)
<1>1. Destinations(u, answers) \subseteq Address
  BY DEF Destinations, Url
<1>2. \A a \in Destinations(u, answers) : checkIP(a)
  BY <1>1, AddressRulesAgree DEF AssertAllowed
<1>3. checkPort(u.port)
  BY DEF AssertAllowed, AssertPortAllowed, checkPort, DENIED_PORTS, deniedPorts, Url, NoPort, Group
<1>4. QED
  BY <1>2, <1>3 DEF AssertAllowed, AssertSyntacticallyValid, ValidateURL

-----------------------------------------------------------------------------
(* The cycle.                                                              *)

\* A call counts once, and ends in a pause or in the end of the cycle.
LEMMA CallStep ==
  ASSUME TypeInv, Call
  PROVE  \E o \in Outcome, t \in 0..Timeout :
           /\ attempt' = attempt + 1 /\ attempt' \in 0..MaxAttempts
           /\ expected' = expected /\ UNCHANGED subscription
           /\ answer' = o.answer /\ answer' \in Answer /\ o.took \in BOOLEAN
           /\ answer'.error = "refused" => ControlDial
           /\ \/ step' = "pause" /\ Retryable(answer') /\ attempt' < MaxAttempts
              \/ step' = "done"
           /\ accepted' = accepted + (IF o.took THEN 1 ELSE 0)
           /\ lost' = lost + (IF o.took /\ answer'.error # "none" THEN 1 ELSE 0)
           /\ elapsed' = elapsed + t
<1>1. attempt \in 0..MaxAttempts /\ attempt < MaxAttempts
  BY DEF TypeInv, SenderTypeOK, CounterOK, Call
<1>2. PICK o \in Outcome, t \in 0..Timeout :
        /\ o.answer.error = "refused" => ControlDial
        /\ answer' = o.answer
        /\ step' = IF Retryable(o.answer) /\ ~Last(attempt + 1) THEN "pause" ELSE "done"
        /\ accepted' = accepted + (IF o.took THEN 1 ELSE 0)
        /\ lost' = lost + (IF o.took /\ o.answer.error # "none" THEN 1 ELSE 0)
        /\ elapsed' = elapsed + t
  BY DEF Call
<1>3. /\ attempt' = attempt + 1 /\ attempt' \in 0..MaxAttempts /\ expected' = expected
      /\ UNCHANGED subscription
  BY <1>1, SenderAssumption DEF Call
<1>4. o.answer \in Answer /\ o.took \in BOOLEAN
  BY DEF Outcome
<1>5. Retryable(answer') <=> Retryable(o.answer)
  BY <1>2 DEF Retryable
<1>6. ~Last(attempt + 1) => attempt' < MaxAttempts
  BY <1>1, <1>3, SenderAssumption DEF Last
<1>7. QED BY <1>2, <1>3, <1>4, <1>5, <1>6

LEMMA TypeStep == TypeInv /\ [Next]_vars => TypeInv'
<1> SUFFICES ASSUME TypeInv, [Next]_vars PROVE TypeInv'
  OBVIOUS
<1> USE DEF TypeInv, SenderTypeOK, CounterOK
<1>1. CASE Validate
  BY <1>1, SenderAssumption DEF Validate, Answer, subscription
<1>2. CASE Call
  <2>1. PICK o \in Outcome, t \in 0..Timeout :
           /\ attempt' = attempt + 1 /\ attempt' \in 0..MaxAttempts
           /\ expected' = expected /\ answer' \in Answer /\ UNCHANGED subscription
           /\ \/ step' = "pause" /\ attempt' < MaxAttempts
              \/ step' = "done"
           /\ accepted' = accepted + (IF o.took THEN 1 ELSE 0)
           /\ lost' = lost + (IF o.took /\ answer'.error # "none" THEN 1 ELSE 0)
           /\ elapsed' = elapsed + t
    BY <1>2, CallStep
  <2>2. accepted' \in Nat /\ lost' \in Nat /\ elapsed' \in Nat
    BY <2>1, SenderAssumption
  <2>3. QED BY <2>1, <2>2 DEF subscription
<1>3. CASE Pause
  <2>1. answer' \in Answer
    BY <1>3 DEF Pause, Answer
  <2>2. elapsed' \in Nat
    BY <1>3, SenderAssumption DEF Pause, Backoff
  <2>3. QED BY <1>3, <2>1, <2>2 DEF Pause, subscription
<1>4. CASE Resolve
  BY <1>4 DEF Resolve
<1>5. CASE UNCHANGED vars
  BY <1>5 DEF vars, subscription
<1>6. QED BY <1>1, <1>2, <1>3, <1>4, <1>5 DEF Next

LEMMA AcceptanceStep == TypeInv /\ AcceptanceInv /\ [Next]_vars => AcceptanceInv'
<1> SUFFICES ASSUME TypeInv, AcceptanceInv, [Next]_vars, ~RetryableStatus(expected')
             PROVE  /\ step' \in {"validate", "call"} => accepted' = lost'
                    /\ step' = "pause" => accepted' = lost' /\ Retryable(answer')
                    /\ step' = "done" => accepted' = lost' + (IF Succeeded' THEN 1 ELSE 0)
  BY DEF AcceptanceInv, RetryableStatus, Retryable, RetryableError
<1>1. expected' = expected /\ ~RetryableStatus(expected)
  BY DEF Next, Validate, Call, Pause, Resolve, vars, RetryableStatus
<1>2. accepted \in Nat /\ lost \in Nat
  BY DEF TypeInv, SenderTypeOK
<1>3. CASE Validate
  BY <1>1, <1>2, <1>3 DEF Validate, AcceptanceInv, Succeeded
<1>4. CASE Call
  <2>1. accepted = lost
    BY <1>1, <1>4 DEF Call, AcceptanceInv
  <2>2. PICK o \in Outcome, t \in 0..Timeout :
           /\ answer' = o.answer /\ o.took \in BOOLEAN
           /\ \/ step' = "pause" /\ Retryable(answer')
              \/ step' = "done"
           /\ accepted' = accepted + (IF o.took THEN 1 ELSE 0)
           /\ lost' = lost + (IF o.took /\ answer'.error # "none" THEN 1 ELSE 0)
    BY <1>4, CallStep
  <2>3. answer'.error = "none" => (o.took <=> answer'.status = expected)
    BY <2>2 DEF Outcome
  <2>4. Succeeded' <=> answer'.error = "none" /\ o.took
    BY <2>3, <1>1 DEF Succeeded
  <2>5. Retryable(answer') => ~Succeeded'
    BY <1>1 DEF Retryable, Succeeded, RetryableStatus
  <2>6. QED BY <1>2, <2>1, <2>2, <2>4, <2>5
<1>5. CASE Pause
  BY <1>1, <1>2, <1>5 DEF Pause, AcceptanceInv, Succeeded, TypeInv, SenderTypeOK, Answer
<1>6. CASE Resolve \/ UNCHANGED vars
  BY <1>1, <1>6 DEF Resolve, vars, AcceptanceInv, Succeeded, Retryable
<1>7. QED BY <1>3, <1>4, <1>5, <1>6 DEF Next

LEMMA TimeStep == TypeInv /\ TimeInv /\ [Next]_vars => TimeInv'
<1> DEFINE turn == Timeout + BaseDelay + MaxDelay
<1> SUFFICES ASSUME TypeInv, TimeInv, [Next]_vars, MaxDelay > 0
             PROVE  /\ elapsed' <= attempt' * turn
                    /\ step' = "pause" => elapsed' + BaseDelay + MaxDelay <= attempt' * turn
  BY DEF TimeInv
<1>1. /\ elapsed <= attempt * turn
      /\ step = "pause" => elapsed + BaseDelay + MaxDelay <= attempt * turn
  BY DEF TimeInv
<1>2. /\ attempt \in Nat /\ elapsed \in Nat /\ turn \in Nat /\ attempt * turn \in Nat
      /\ Timeout \in Nat /\ BaseDelay \in Nat /\ MaxDelay \in Nat
  BY SenderAssumption DEF TypeInv, SenderTypeOK
<1>3. (attempt + 1) * turn = attempt * turn + turn
  <2> HIDE DEF turn
  <2> QED BY <1>2
<1>4. CASE Validate
  BY <1>1, <1>4 DEF Validate
<1>5. CASE Call
  <2>1. PICK t \in 0..Timeout : attempt' = attempt + 1 /\ elapsed' = elapsed + t
    BY <1>5, CallStep
  <2>2. attempt' * turn = attempt * turn + turn
    BY <1>3, <2>1
  <2>3. elapsed' <= elapsed + Timeout
    BY <1>2, <2>1
  <2>4. QED BY <1>1, <1>2, <2>1, <2>2, <2>3
<1>6. CASE Pause
  <2>1. attempt' = attempt /\ step' # "pause"
    BY <1>6 DEF Pause
  <2>2. elapsed' \in Nat /\ elapsed' <= elapsed + BaseDelay + MaxDelay
    BY <1>2, <1>6 DEF Pause, Backoff
  <2>3. QED BY <1>1, <1>2, <1>6, <2>1, <2>2 DEF Pause
<1>7. CASE Resolve \/ UNCHANGED vars
  BY <1>1, <1>7 DEF Resolve, vars
<1>8. QED BY <1>4, <1>5, <1>6, <1>7 DEF Next

LEMMA GuardStep == TypeInv /\ GuardInv /\ [Next]_vars => GuardInv'
<1> SUFFICES ASSUME TypeInv, GuardInv, [Next]_vars PROVE GuardInv'
  OBVIOUS
<1>1. url \in Url /\ addresses \in SUBSET Address
  BY SenderAssumption DEF TypeInv, SenderTypeOK
<1>2. ~moved => /\ ValidateURL(url, addresses)
                /\ \A a \in Destinations(url, addresses) : checkIP(a)
  BY <1>1, GuardsAgree DEF GuardInv
<1>3. CASE Validate
  BY <1>2, <1>3 DEF Validate, GuardInv, RegisteredIsDeliverable, subscription
<1>4. CASE Call
  <2>1. answer'.error = "refused" => ControlDial
    BY <1>4, CallStep
  <2>2. UNCHANGED subscription
    BY <1>4, CallStep
  <2>3. QED BY <1>2, <2>1, <2>2
       DEF GuardInv, RegisteredIsDeliverable, ControlDial, subscription
<1>5. CASE Pause
  <2>1. answer \in Answer
    BY DEF TypeInv, SenderTypeOK
  <2>2. answer'.error = "refused" => answer.error = "refused"
    BY <1>5, <2>1 DEF Pause, Answer
  <2>3. UNCHANGED subscription
    BY <1>5 DEF Pause
  <2>4. QED BY <2>2, <2>3 DEF GuardInv, RegisteredIsDeliverable, subscription
<1>6. CASE Resolve
  BY <1>6 DEF Resolve, GuardInv, RegisteredIsDeliverable
<1>7. CASE UNCHANGED vars
  BY <1>7 DEF vars, subscription, GuardInv, RegisteredIsDeliverable
<1>8. QED BY <1>3, <1>4, <1>5, <1>6, <1>7 DEF Next

LEMMA InitOK == Init => TypeInv /\ AcceptanceInv /\ TimeInv /\ GuardInv
<1> SUFFICES ASSUME Init PROVE TypeInv /\ AcceptanceInv /\ TimeInv /\ GuardInv
  OBVIOUS
<1>1. answer \in Answer /\ answer.error = "none"
  BY DEF Init, Answer
<1>2. step = "validate" /\ attempt = 0 /\ accepted = 0 /\ lost = 0 /\ elapsed = 0
  BY DEF Init
<1>3. /\ expected \in Statuses /\ url \in Urls /\ addresses \in Resolutions
      /\ moved = FALSE /\ moved \in BOOLEAN /\ AssertAllowed(url, addresses)
  BY DEF Init
<1>4. MaxAttempts \in Nat \ {0} /\ Timeout \in Nat /\ BaseDelay \in Nat /\ MaxDelay \in Nat
  BY SenderAssumption
<1>5. TypeInv
  BY <1>1, <1>2, <1>3, <1>4 DEF TypeInv, SenderTypeOK, CounterOK
<1>6. AcceptanceInv
  BY <1>2 DEF AcceptanceInv
<1>7. TimeInv
  BY <1>2, <1>4 DEF TimeInv
<1>8. GuardInv
  BY <1>1, <1>3 DEF GuardInv, RegisteredIsDeliverable
<1>9. QED BY <1>5, <1>6, <1>7, <1>8

\* The types of the sender's variables, and the limit of its loop.
THEOREM SenderTypeCorrect == Spec => []SenderTypeOK
<1>1. TypeInv => SenderTypeOK
  BY DEF TypeInv
<1>2. QED BY <1>1, InitOK, TypeStep, PTL DEF Spec

\* The client takes the notification once for each lost answer and once more exactly if
\* the cycle succeeds: the sender does what the dispatcher's model takes it to do.
THEOREM CycleIsSendHolds == Spec => []CycleIsSend
<1>1. AcceptanceInv => CycleIsSend
  BY DEF AcceptanceInv, CycleIsSend
<1>2. QED BY <1>1, InitOK, TypeStep, AcceptanceStep, PTL DEF Spec

\* A cycle is over within a time limit and a pause for each attempt.
THEOREM CycleBound == Spec => []CycleIsBounded
<1>1. TimeInv => CycleIsBounded
  BY DEF TimeInv, CycleIsBounded
<1>2. QED BY <1>1, InitOK, TypeStep, TimeStep, PTL DEF Spec

\* A URL that could be registered is refused at delivery only if its name has come to
\* resolve differently, whatever the addresses, the port and the two options.
THEOREM RegisteredIsDeliverableHolds == Spec => []RegisteredIsDeliverable
<1>1. GuardInv => RegisteredIsDeliverable
  BY DEF GuardInv
<1>2. QED BY <1>1, InitOK, TypeStep, GuardStep, PTL DEF Spec
=============================================================================

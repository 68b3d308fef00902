------------------------- MODULE Credentials_proofs -------------------------
(***************************************************************************)
(* Theorems about the credentials of OAuth, first how one is obtained      *)
(* (OAuthAcquire), then how one is renewed (OAuthRefresh).                 *)
(***************************************************************************)
EXTENDS OAuthAcquire, OAuthRefresh, TLAPS

-----------------------------------------------------------------------------
(***************************************************************************)
(* Obtaining one, for any documents a server may publish, any requests     *)
(* that reach the listener and any pace of polling.  What each part        *)
(* promises rests on that part alone, but for one thing: a code that is    *)
(* exchanged is the one the listener took.                                 *)
(***************************************************************************)

(***************************************************************************)
(* The parts of the invariant.                                             *)
(***************************************************************************)
\* The issuer asked is the one that was chosen, or the one that was named.
ChosenRightly ==
    /\ asked.issuer \in {None, issuer}
    /\ asked.from # None =>
         /\ asked.issuer = None => told.servers = <<issuer>>
         /\ asked.requested # None => Covers(told.resource, asked.requested)
         /\ asked.from.doc = "resource" => asked.from = Located(told.resource, "resource")

FetchedOK == \A url \in fetched : Secure(url)

IssuerOK ==
    /\ stage = "resource" => asked.issuer \in Overrides
    /\ stage \in {"server", "openid"} => IsURL(issuer) /\ Secure(issuer)
    /\ stage \in {"server", "openid", "found"} => ChosenRightly

MetadataOK ==
    /\ stage = "found" => metadata \in ServerDocs /\ metadata.issuer = issuer
    /\ stage # "found" => metadata = None

DiscoveryOK == FetchedOK /\ IssuerOK /\ MetadataOK

\* Once the state is told, the slot holds nothing or an answer of the server's, and
\* nothing if none was handled.
RedirectOK ==
    /\ slot \in Strays \cup Genuine \cup {NoRedirect}
    /\ \A thread \in waiting : thread.request \in Strays \cup Genuine
    /\ step \in {"stated", "waiting"} => expected = "mine" /\ slot \in Genuine \cup {NoRedirect}
    /\ step \in {"closed", "open", "stated", "waiting"} => outcome = "none"
    /\ answered => step \in {"waiting", "over"}
    /\ step = "waiting" /\ answered => slot # NoRedirect
    /\ step \in {"closed", "open", "stated", "waiting", "over"}

\* The interval is all that was asked for, and the sleep ends before the code does.
DeviceTypeOK ==
    /\ clock \in Nat /\ interval \in Nat /\ offered \in Nat
    /\ answeredAt \in Nat /\ slowed \in Nat
    /\ deadline \in Nat \cup {Forever}

PaceOK ==
    /\ polling = "none" => slowed = 0
    /\ polling # "none" => interval = offered + slowed * SlowDownIncrement
    /\ polling = "sleep" => clock = answeredAt
    /\ polling = "sleep" /\ deadline # Forever => clock + interval <= deadline
    /\ polling = "expired" => deadline # Forever

DeviceOK == DeviceTypeOK /\ PaceOK /\ PollsKeepTime

\* Nothing is posted, and no token held, before there is metadata.
SentOK ==
    \A s \in sent :
        /\ s.to \in {metadata.endpoint[name] : name \in DOMAIN metadata.endpoint}
        /\ Secure(s.to)
        /\ s.what[1] = "code" => s.what[2] \in Genuine

UseOK ==
    /\ use # "none" => stage = "found"
    /\ stage # "found" => sent = {}
    /\ use # "ended" => obtained = None

IInv == DiscoveryOK /\ RedirectOK /\ StraysEndNothing /\ DeviceOK /\ SentOK /\ UseOK

-----------------------------------------------------------------------------
(***************************************************************************)
(* Discovery.                                                              *)
(***************************************************************************)
\* The well-known places of a secure URL are secure.
LEMMA LocatedIsSecure ==
    ASSUME NEW url, NEW doc, IsURL(url), Secure(url)
    PROVE  Secure(Located(url, doc))
  <1>1. "scheme" \in DOMAIN url /\ "scheme" # "doc"
    BY DEF IsURL
  <1>2. Located(url, doc).scheme = url.scheme
    BY <1>1 DEF Located
  <1> QED BY <1>2 DEF Secure

LEMMA FailInv ==
    ASSUME DiscoveryOK, stage # "found", Fail
    PROVE  DiscoveryOK'
  BY DEF DiscoveryOK, FetchedOK, IssuerOK, MetadataOK, Fail

\* Asking the issuer that was settled on.
LEMMA AskServerInv ==
    ASSUME DiscoveryOK, stage # "found", NEW iss, IsURL(iss), AskServer(iss), ChosenRightly'
    PROVE  DiscoveryOK'
  <1>1. stage' = "server" /\ issuer' = iss /\ metadata' = metadata /\ Secure(iss)
    BY DEF AskServer
  <1>2. fetched' = fetched \cup {Located(iss, "server")}
    BY DEF AskServer, Fetch
  <1>3. FetchedOK'
    BY <1>1, <1>2, LocatedIsSecure DEF DiscoveryOK, FetchedOK
  <1>4. IssuerOK'
    BY <1>1 DEF IssuerOK
  <1>5. MetadataOK'
    BY <1>1 DEF DiscoveryOK, MetadataOK
  <1> QED BY <1>3, <1>4, <1>5 DEF DiscoveryOK

LEMMA NextLocationInv ==
    ASSUME DiscoveryOK, stage \in {"server", "openid"}, NextLocation
    PROVE  DiscoveryOK'
  <1>1. CASE stage = "openid"
    BY <1>1, FailInv DEF NextLocation
  <1>2. CASE stage = "server"
    <2>1. /\ stage' = "openid" /\ UNCHANGED <<asked, issuer, metadata, told>>
          /\ fetched' = fetched \cup {Located(issuer, "openid")}
      BY <1>2 DEF NextLocation, Fetch
    <2>2. IsURL(issuer) /\ Secure(issuer) /\ ChosenRightly /\ metadata = None
      BY <1>2 DEF DiscoveryOK, IssuerOK, MetadataOK
    <2>3. FetchedOK'
      BY <2>1, <2>2, LocatedIsSecure DEF DiscoveryOK, FetchedOK
    <2>4. IssuerOK' /\ MetadataOK'
      BY <2>1, <2>2 DEF IssuerOK, MetadataOK, ChosenRightly
    <2> QED BY <2>3, <2>4 DEF DiscoveryOK
  <1> QED BY <1>1, <1>2

LEMMA ResourceAnswerInv ==
    ASSUME DiscoveryOK, NEW doc \in ResourceDocs, ResourceAnswer(doc)
    PROVE  DiscoveryOK'
  <1>1. stage = "resource" /\ asked.issuer \in Overrides
    BY DEF ResourceAnswer, DiscoveryOK, IssuerOK
  <1>2. CASE Fail
    BY <1>1, <1>2, FailInv
  <1>3. ASSUME NEW iss, IsURL(iss), CheckResource(doc, asked.from, asked.requested),
               asked.issuer \in {None, iss}, asked.issuer = None => doc.servers = <<iss>>,
               Settle(doc, iss)
        PROVE  DiscoveryOK'
    <2>1. CASE Secure(iss)
      <3>1. AskServer(iss) /\ issuer' = iss /\ told' = doc /\ asked' = asked
        BY <1>3, <2>1 DEF Settle, AskServer
      <3>2. ChosenRightly'
        BY <1>3, <3>1 DEF ChosenRightly, CheckResource
      <3> QED BY <1>1, <1>3, <3>1, <3>2, AskServerInv
    <2>2. CASE ~Secure(iss)
      BY <1>1, <1>3, <2>2, FailInv DEF Settle
    <2> QED BY <2>1, <2>2
  <1>4. CASE /\ CheckResource(doc, asked.from, asked.requested)
             /\ asked.issuer # None /\ Settle(doc, asked.issuer)
    <2>1. IsURL(asked.issuer)
      BY <1>1, <1>4, DocumentsAssumption DEF DocumentsAssumption
    <2> QED BY <1>3, <1>4, <2>1
  <1>5. CASE /\ CheckResource(doc, asked.from, asked.requested)
             /\ asked.issuer = None /\ Len(doc.servers) = 1 /\ Settle(doc, doc.servers[1])
    <2>1. /\ doc.servers \in Seq({doc.servers[i] : i \in DOMAIN doc.servers})
          /\ \A i \in DOMAIN doc.servers : IsURL(doc.servers[i])
      BY DocumentsAssumption DEF DocumentsAssumption
    <2>2. IsURL(doc.servers[1])
      BY <1>5, <2>1
    <2>3. doc.servers = <<doc.servers[1]>>
      BY <1>5, <2>1
    <2> QED BY <1>3, <1>5, <2>2, <2>3
  <1> QED BY <1>2, <1>4, <1>5 DEF ResourceAnswer

\* One step per action of discovery.
LEMMA DiscoveryInv ==
    ASSUME DiscoveryOK, DiscoveryNext
    PROVE  DiscoveryOK' /\ stage # "found"
  <1>1. ASSUME NEW p, NEW r, NEW i \in Overrides, Discover(p, r, i)
        PROVE  DiscoveryOK' /\ stage # "found"
    <2>1. stage = "start" /\ metadata = None
      BY <1>1 DEF Discover, DiscoveryOK, MetadataOK
    <2>2. CASE Fail
      BY <2>1, <2>2, FailInv
    <2>3. CASE /\ Secure(Absolute(p, r)) /\ Fetch(Absolute(p, r)) /\ stage' = "resource"
               /\ asked' = [from |-> Absolute(p, r), requested |-> r, issuer |-> i]
               /\ UNCHANGED <<issuer, metadata, told>>
      <3>1. fetched' = fetched \cup {Absolute(p, r)}
        BY <2>3 DEF Fetch
      <3>2. FetchedOK'
        BY <2>3, <3>1 DEF DiscoveryOK, FetchedOK
      <3>3. IssuerOK' /\ MetadataOK'
        BY <2>1, <2>3 DEF IssuerOK, MetadataOK
      <3> QED BY <2>1, <3>2, <3>3 DEF DiscoveryOK
    <2> QED BY <1>1, <2>1, <2>2, <2>3 DEF Discover
  <1>2. ASSUME NEW i \in Overrides \ {None}, DiscoverFromIssuer(i)
        PROVE  DiscoveryOK' /\ stage # "found"
    <2>1. stage = "start"
      BY <1>2 DEF DiscoverFromIssuer
    <2>2. CASE Secure(i)
      <3>1. AskServer(i) /\ issuer' = i /\ asked' = [from |-> None, requested |-> None, issuer |-> i]
        BY <1>2, <2>2 DEF DiscoverFromIssuer, AskServer
      <3>2. ChosenRightly'
        BY <3>1 DEF ChosenRightly
      <3>3. IsURL(i)
        BY DocumentsAssumption DEF DocumentsAssumption
      <3> QED BY <2>1, <3>1, <3>2, <3>3, AskServerInv
    <2>3. CASE ~Secure(i)
      BY <1>2, <2>1, <2>3, FailInv DEF DiscoverFromIssuer
    <2> QED BY <2>2, <2>3
  <1>3. ASSUME NEW doc \in ResourceDocs, ResourceAnswer(doc)
        PROVE  DiscoveryOK' /\ stage # "found"
    BY <1>3, ResourceAnswerInv DEF ResourceAnswer
  <1>4. ASSUME NEW doc \in ServerDocs, ServerAnswer(doc)
        PROVE  DiscoveryOK' /\ stage # "found"
    <2>1. stage \in {"server", "openid"}
      BY <1>4 DEF ServerAnswer
    <2>2. CASE doc.issuer = issuer
      <3>1. /\ stage' = "found" /\ metadata' = doc
            /\ UNCHANGED <<asked, issuer, told, fetched>>
        BY <1>4, <2>2 DEF ServerAnswer
      <3> QED
        BY <2>1, <2>2, <3>1
        DEF DiscoveryOK, FetchedOK, IssuerOK, MetadataOK, ChosenRightly
    <2>3. CASE doc.issuer # issuer
      BY <1>4, <2>1, <2>3, NextLocationInv DEF ServerAnswer
    <2> QED BY <2>1, <2>2, <2>3
  <1>5. ASSUME NEW url, FetchRedirected(url)
        PROVE  DiscoveryOK' /\ stage # "found"
    <2>1. stage \in {"resource", "server", "openid"}
      BY <1>5 DEF FetchRedirected
    <2>2. CASE RedirectIsTaken(url)
      <3>1. /\ Secure(url) /\ fetched' = fetched \cup {url}
            /\ UNCHANGED <<stage, asked, issuer, metadata, told>>
        BY <1>5, <2>2 DEF FetchRedirected, RedirectIsTaken
      <3> QED
        BY <2>1, <3>1 DEF DiscoveryOK, FetchedOK, IssuerOK, MetadataOK, ChosenRightly
    <2>3. CASE ~RedirectIsTaken(url)
      BY <1>5, <2>1, <2>3, FailInv, NextLocationInv DEF FetchRedirected
    <2> QED BY <2>1, <2>2, <2>3
  <1>6. CASE FetchFailed
    BY <1>6, FailInv, NextLocationInv DEF FetchFailed
  <1> QED BY <1>1, <1>2, <1>3, <1>4, <1>5, <1>6 DEF DiscoveryNext

-----------------------------------------------------------------------------
(***************************************************************************)
(* The listener.                                                           *)
(***************************************************************************)
\* A stray may sit in the slot until the state is told, and not after.
LEMMA ExpectStateInv ==
    ASSUME RedirectOK, StraysEndNothing, ExpectState
    PROVE  RedirectOK' /\ StraysEndNothing'
  <1>1. /\ step = "open" /\ step' = "stated" /\ expected' = "mine"
        /\ UNCHANGED <<waiting, arrivals, outcome, answered>>
    BY DEF ExpectState
  <1>2. outcome = "none" /\ ~answered
    BY <1>1 DEF RedirectOK
  <1>3. slot' \in Genuine \cup {NoRedirect}
    <2>1. \A request \in Strays : ~MayBeTheRedirect(request, "mine")
      BY RequestsAssumption DEF RequestsAssumption, MayBeTheRedirect
    <2> QED BY <2>1 DEF ExpectState, RedirectOK
  <1> QED BY <1>1, <1>2, <1>3 DEF RedirectOK, StraysEndNothing

\* While the flow waits, what is let in is the server's, and what is the server's is let in.
LEMMA HandleInv ==
    ASSUME RedirectOK, StraysEndNothing, NEW thread, Handle(thread)
    PROVE  RedirectOK' /\ StraysEndNothing'
  <1> DEFINE request == thread.request
  <1>1. /\ request \in Strays \cup Genuine /\ step # "over" /\ waiting' \subseteq waiting
        /\ UNCHANGED <<step, expected, arrivals, outcome>>
    BY DEF Handle, RedirectOK
  <1>2. outcome = "none"
    BY <1>1 DEF RedirectOK
  <1>3. slot' = slot \/ (slot' = request /\ slot = NoRedirect /\ MayBeTheRedirect(request, expected))
    BY DEF Handle
  <1>4. step \in {"stated", "waiting"} => slot' \in Genuine \cup {NoRedirect}
    <2>1. expected = "mine" /\ request \in Strays => ~MayBeTheRedirect(request, expected)
      BY RequestsAssumption DEF RequestsAssumption, MayBeTheRedirect
    <2> QED BY <1>1, <1>3, <2>1 DEF RedirectOK
  <1>5. answered' => answered \/ (request \in Genuine /\ step = "waiting")
    BY DEF Handle
  <1>6. step = "waiting" /\ answered' => slot' # NoRedirect
    <2>1. CASE answered
      BY <1>1, <1>3, <2>1, RequestsAssumption DEF RequestsAssumption, RedirectOK
    <2>2. CASE request \in Genuine /\ step = "waiting"
      <3>1. request.onPath /\ MayBeTheRedirect(request, expected) /\ request # NoRedirect
        BY <2>2, RequestsAssumption DEF RequestsAssumption, MayBeTheRedirect, RedirectOK
      <3> QED BY <3>1 DEF Handle
    <2> QED BY <1>5, <2>1, <2>2
  <1>7. slot' \in Strays \cup Genuine \cup {NoRedirect}
    BY <1>1, <1>3 DEF RedirectOK
  <1>8. answered' => step' \in {"waiting", "over"}
    BY <1>1, <1>5 DEF RedirectOK
  <1> HIDE DEF request
  <1>9. RedirectOK'
    BY <1>1, <1>2, <1>4, <1>6, <1>7, <1>8 DEF RedirectOK
  <1> QED BY <1>1, <1>2, <1>9 DEF StraysEndNothing

LEMMA RedirectInv ==
    ASSUME RedirectOK, StraysEndNothing,
           \/ OpenListener \/ ExpectState \/ SendBrowser
           \/ \E request \in Strays \cup Genuine : Arrive(request)
           \/ \E thread \in waiting : Handle(thread)
           \/ Redirected \/ RedirectTimeout
    PROVE  RedirectOK' /\ StraysEndNothing'
  <1>1. CASE OpenListener
    BY <1>1 DEF OpenListener, RedirectOK, StraysEndNothing
  <1>2. CASE ExpectState
    BY <1>2, ExpectStateInv
  <1>3. CASE SendBrowser
    BY <1>3 DEF SendBrowser, RedirectOK, StraysEndNothing
  <1>4. ASSUME NEW request \in Strays \cup Genuine, Arrive(request)
        PROVE  RedirectOK' /\ StraysEndNothing'
    <2>1. \A thread \in waiting' : thread.request \in Strays \cup Genuine
      BY <1>4 DEF Arrive, RedirectOK
    <2>2. UNCHANGED <<step, expected, slot, outcome, answered>>
      BY <1>4 DEF Arrive
    <2> QED BY <2>1, <2>2 DEF RedirectOK, StraysEndNothing
  <1>5. ASSUME NEW thread \in waiting, Handle(thread)
        PROVE  RedirectOK' /\ StraysEndNothing'
    BY <1>5, HandleInv
  <1>6. CASE Redirected
    <2>1. /\ step = "waiting" /\ step' = "over" /\ slot # NoRedirect
          /\ outcome' = ParseRedirect(slot) /\ UNCHANGED <<expected, slot, waiting, arrivals, answered>>
      BY <1>6 DEF Redirected
    <2>2. slot \in Genuine
      BY <2>1 DEF RedirectOK
    <2>3. outcome' # "timeout"
      BY <2>1, <2>2, RequestsAssumption DEF RequestsAssumption, ParseRedirect
    <2> QED BY <2>1, <2>2, <2>3 DEF RedirectOK, StraysEndNothing
  <1>7. CASE RedirectTimeout
    BY <1>7 DEF RedirectTimeout, RedirectOK, StraysEndNothing
  <1> QED BY <1>1, <1>2, <1>3, <1>4, <1>5, <1>6, <1>7

-----------------------------------------------------------------------------
(***************************************************************************)
(* The device flow.                                                        *)
(***************************************************************************)
LEMMA PollIntervalIsPositive == \A named : PollInterval(named) \in Nat \ {0}
  BY DeviceAssumption DEF DeviceAssumption, PollInterval

LEMMA BeginDeviceInv ==
    ASSUME DeviceOK, NEW named, NEW life \in Lifetimes, BeginDevice(named, life)
    PROVE  DeviceOK'
  <1>1. PollInterval(named) \in Nat /\ life \in Nat
    BY PollIntervalIsPositive, DeviceAssumption DEF DeviceAssumption
  <1>2. /\ interval' = PollInterval(named) /\ offered' = PollInterval(named)
        /\ polling' = "poll" /\ polls' = 1 /\ slowed = 0
        /\ deadline' = Forever \/ deadline' = clock + life
        /\ UNCHANGED <<clock, answeredAt, slowed>>
    BY DEF BeginDevice, Deadline, DeviceOK, PaceOK
  <1>3. clock \in Nat /\ SlowDownIncrement \in Nat
    BY DeviceAssumption DEF DeviceAssumption, DeviceOK, DeviceTypeOK
  <1>4. DeviceTypeOK'
    BY <1>1, <1>2, <1>3 DEF DeviceOK, DeviceTypeOK
  <1>5. slowed' * SlowDownIncrement = 0
    BY <1>2, <1>3
  <1>6. PaceOK'
    BY <1>1, <1>2, <1>5 DEF PaceOK
  <1>7. PollsKeepTime'
    BY <1>1, <1>2, <1>3 DEF PollsKeepTime
  <1> QED BY <1>4, <1>6, <1>7 DEF DeviceOK

LEMMA DeviceStepInv ==
    ASSUME DeviceOK, DeviceStep
    PROVE  DeviceOK'
  <1> DEFINE demanded == slowed * SlowDownIncrement
  <1>0. /\ clock \in Nat /\ interval \in Nat /\ offered \in Nat /\ answeredAt \in Nat
        /\ slowed \in Nat /\ SlowDownIncrement \in Nat /\ demanded \in Nat
    BY DeviceAssumption DEF DeviceAssumption, DeviceOK, DeviceTypeOK
  <1>1. ASSUME NEW how \in {"granted", "denied", "lost"}, NEW d \in Latencies, PollEnds(how, d)
        PROVE  DeviceOK'
    <2>1. /\ d \in Nat /\ polling = "poll" /\ polling' = how
          /\ clock' = clock + d /\ answeredAt' = clock'
          /\ UNCHANGED <<interval, deadline, slowed, offered, polls>>
      BY <1>1, DeviceAssumption DEF DeviceAssumption, PollEnds
    <2>2. DeviceTypeOK'
      BY <1>0, <2>1 DEF DeviceOK, DeviceTypeOK
    <2> QED BY <2>1, <2>2 DEF DeviceOK, PaceOK, PollsKeepTime
  <1>2. ASSUME NEW answer \in {"pending", "slow_down"}, NEW d \in Latencies, PollAgain(answer, d)
        PROVE  DeviceOK'
    <2>1. /\ d \in Nat /\ polling = "poll"
          /\ clock' = clock + d /\ answeredAt' = clock'
          /\ interval' = NextInterval(answer)
          /\ slowed' = slowed + (IF answer = "slow_down" THEN 1 ELSE 0)
          /\ polling' = IF Outlasts(clock', interval') THEN "expired" ELSE "sleep"
          /\ UNCHANGED <<deadline, offered, polls>>
      BY <1>2, DeviceAssumption DEF DeviceAssumption, PollAgain
    <2>2. interval = offered + demanded
      BY <2>1 DEF DeviceOK, PaceOK
    <2>3. interval' = offered' + slowed' * SlowDownIncrement
      <3>1. CASE answer = "slow_down"
        <4>1. slowed' * SlowDownIncrement = demanded + SlowDownIncrement
          BY <1>0, <2>1, <3>1
        <4>2. interval' = interval + SlowDownIncrement
          BY <2>1, <3>1 DEF NextInterval
        <4> HIDE DEF demanded
        <4> QED BY <1>0, <2>1, <2>2, <4>1, <4>2
      <3>2. CASE answer # "slow_down"
        <4>1. slowed' * SlowDownIncrement = demanded
          BY <1>0, <2>1, <3>2
        <4>2. interval' = interval
          BY <2>1, <3>2 DEF NextInterval
        <4> QED BY <2>1, <2>2, <4>1, <4>2
      <3> QED BY <3>1, <3>2
    <2>4. interval' \in Nat /\ clock' \in Nat /\ slowed' \in Nat
      BY <1>0, <2>1 DEF NextInterval
    <2>5. DeviceTypeOK'
      BY <1>0, <2>1, <2>4 DEF DeviceOK, DeviceTypeOK
    <2>6. CASE Outlasts(clock', interval')
      <3>1. polling' = "expired" /\ deadline # Forever /\ clock' + interval' > deadline
        BY <2>1, <2>6 DEF Outlasts
      <3>2. PaceOK'
        BY <2>1, <2>3, <3>1 DEF PaceOK
      <3>3. clock' + offered' + slowed' * SlowDownIncrement = clock' + interval'
        BY <1>0, <2>1, <2>3, <2>4
      <3>4. PollsKeepTime'
        BY <2>1, <3>1, <3>3 DEF PollsKeepTime
      <3> QED BY <2>5, <3>2, <3>4 DEF DeviceOK
    <2>7. CASE ~Outlasts(clock', interval')
      <3>1. polling' = "sleep" /\ (deadline # Forever => ~(clock' + interval' > deadline))
        BY <2>1, <2>7 DEF Outlasts
      <3>2. deadline # Forever => clock' + interval' <= deadline
        <4>1. deadline # Forever => deadline \in Nat
          BY DEF DeviceOK, DeviceTypeOK
        <4>2. \A n, m \in Nat : ~(n > m) => n <= m
          OBVIOUS
        <4> QED BY <2>4, <3>1, <4>1, <4>2
      <3>3. deadline' # Forever => clock' + interval' <= deadline'
        BY <2>1, <3>2
      <3>4. polling' = "sleep" /\ clock' = answeredAt'
        BY <2>1, <3>1
      <3>5. PaceOK'
        BY <2>3, <3>3, <3>4 DEF PaceOK
      <3>6. PollsKeepTime'
        BY <3>4 DEF PollsKeepTime
      <3> QED BY <2>5, <3>5, <3>6 DEF DeviceOK
    <2> QED BY <2>6, <2>7
  <1>3. CASE Wake
    <2>1. /\ polling = "sleep" /\ polling' = "poll" /\ clock' = clock + interval
          /\ UNCHANGED <<interval, deadline, answeredAt, slowed, offered>>
      BY <1>3 DEF Wake
    <2>2. /\ clock = answeredAt /\ interval = offered + demanded
          /\ deadline # Forever => clock + interval <= deadline
      BY <2>1 DEF DeviceOK, PaceOK
    <2>3. DeviceTypeOK'
      BY <1>0, <2>1 DEF DeviceOK, DeviceTypeOK
    <2>4. clock' - answeredAt' >= offered' + slowed' * SlowDownIncrement
      <3>1. slowed' * SlowDownIncrement = demanded
        BY <2>1
      <3> HIDE DEF demanded
      <3> QED BY <1>0, <2>1, <2>2, <3>1
    <2>5. PaceOK' /\ PollsKeepTime'
      BY <2>1, <2>2, <2>4 DEF PaceOK, PollsKeepTime
    <2> QED BY <2>3, <2>5 DEF DeviceOK
  <1> QED BY <1>1, <1>2, <1>3 DEF DeviceStep

-----------------------------------------------------------------------------
(***************************************************************************)
(* The client: what each action leaves alone, and what it posts.           *)
(***************************************************************************)
LEMMA InitInv == Init => IInv
  <1> SUFFICES ASSUME Init PROVE IInv
    OBVIOUS
  <1>1. DiscoveryOK
    BY DEF Init, DiscoveryInit, DiscoveryOK, FetchedOK, IssuerOK, MetadataOK
  <1>2. RedirectOK /\ StraysEndNothing
    BY DEF Init, RedirectInit, RedirectOK, StraysEndNothing
  <1>3. DeviceOK
    BY DEF Init, DeviceInit, DeviceOK, DeviceTypeOK, PaceOK, PollsKeepTime
  <1>4. SentOK /\ UseOK
    BY DEF Init, SentOK, UseOK
  <1> QED BY <1>1, <1>2, <1>3, <1>4 DEF IInv

LEMMA SameDiscovery ==
    ASSUME DiscoveryOK, UNCHANGED discoveryVars PROVE DiscoveryOK'
  BY DEF discoveryVars, DiscoveryOK, FetchedOK, IssuerOK, MetadataOK, ChosenRightly

LEMMA SameRedirect ==
    ASSUME RedirectOK, StraysEndNothing, UNCHANGED redirectVars
    PROVE  RedirectOK' /\ StraysEndNothing'
  BY DEF redirectVars, RedirectOK, StraysEndNothing

LEMMA SameDevice ==
    ASSUME DeviceOK, UNCHANGED deviceVars PROVE DeviceOK'
  BY DEF deviceVars, DeviceOK, DeviceTypeOK, PaceOK, PollsKeepTime

\* What is posted goes to an endpoint of the metadata that is secure.
LEMMA PostIsVouched ==
    ASSUME SentOK, MetadataOK, stage = "found", metadata' = metadata,
           NEW name \in {"authorize", "token", "register", "device"}, Usable(name),
           NEW what, what[1] = "code" => what[2] \in Genuine, Post(what, name)
    PROVE  SentOK'
  <1>1. name \in DOMAIN metadata.endpoint
    BY DocumentsAssumption DEF DocumentsAssumption, MetadataOK
  <1>2. Secure(metadata.endpoint[name])
    BY DEF Usable
  <1>3. \A s \in sent' : s \in sent \/ s = [what |-> what, to |-> metadata.endpoint[name]]
    BY DEF Post
  <1> QED BY <1>1, <1>2, <1>3 DEF SentOK

LEMMA SameSent ==
    ASSUME SentOK, sent' = sent, metadata' = metadata PROVE SentOK'
  BY DEF SentOK

LEMMA RegisterInv ==
    ASSUME IInv, Register PROVE IInv'
  <1>1. /\ stage = "found" /\ use = "none" /\ Usable("register") /\ Post(<<"registration">>, "register")
        /\ UNCHANGED <<use, obtained>> /\ UNCHANGED discoveryVars
        /\ UNCHANGED redirectVars /\ UNCHANGED deviceVars
    BY DEF Register
  <1>2. SentOK'
    BY <1>1, PostIsVouched DEF IInv, DiscoveryOK, discoveryVars
  <1>3. UseOK'
    BY <1>1 DEF IInv, UseOK, discoveryVars
  <1> QED BY <1>1, <1>2, <1>3, SameDiscovery, SameRedirect, SameDevice DEF IInv

LEMMA CodeFlowInv ==
    ASSUME IInv, Authorize \/ AuthorizeRefused \/ Listen PROVE IInv'
  <1>1. UNCHANGED discoveryVars /\ UNCHANGED deviceVars /\ UNCHANGED <<sent, obtained>>
    BY DEF Authorize, AuthorizeRefused, Listen, FlowEnds, acquireVars
  <1>2. SentOK'
    BY <1>1, SameSent DEF IInv, discoveryVars
  <1>3. UseOK'
    <2>1. stage' = stage
      BY <1>1 DEF discoveryVars
    <2>2. CASE Authorize
      BY <1>1, <2>1, <2>2 DEF Authorize, IInv, UseOK
    <2>3. CASE AuthorizeRefused
      BY <1>1, <2>1, <2>3 DEF AuthorizeRefused, FlowEnds, IInv, UseOK
    <2>4. CASE Listen
      BY <1>1, <2>1, <2>4 DEF Listen, acquireVars, IInv, UseOK
    <2> QED BY <2>2, <2>3, <2>4
  <1>4. RedirectOK' /\ StraysEndNothing'
    <2>1. CASE Authorize
      BY <2>1, RedirectInv DEF Authorize, IInv
    <2>2. CASE AuthorizeRefused
      <3>1. /\ step = "open" /\ step' = "over" /\ outcome = "none"
            /\ UNCHANGED <<expected, slot, waiting, arrivals, outcome, answered>>
        BY <2>2 DEF AuthorizeRefused, IInv, RedirectOK
      <3> QED BY <3>1 DEF IInv, RedirectOK, StraysEndNothing
    <2>3. CASE Listen
      BY <2>3, RedirectInv DEF Listen, IInv
    <2> QED BY <2>1, <2>2, <2>3
  <1> QED BY <1>1, <1>2, <1>3, <1>4, SameDiscovery, SameDevice DEF IInv

LEMMA ExchangeCodeInv ==
    ASSUME IInv, ExchangeCode PROVE IInv'
  <1>1. /\ use = "code" /\ use' = "ended"
        /\ UNCHANGED discoveryVars /\ UNCHANGED redirectVars /\ UNCHANGED deviceVars
    BY DEF ExchangeCode
  <1>2. stage = "found" /\ stage' = "found" /\ metadata' = metadata
    BY <1>1 DEF IInv, UseOK, discoveryVars
  <1>3. SentOK'
    <2>1. CASE outcome = "code" /\ Usable("token")
      <3>1. Post(<<"code", slot>>, "token") /\ slot \in Genuine
        BY <2>1 DEF ExchangeCode, IInv, StraysEndNothing
      <3> QED BY <1>2, <2>1, <3>1, PostIsVouched DEF IInv, DiscoveryOK
    <2>2. CASE ~(outcome = "code" /\ Usable("token"))
      BY <1>2, <2>2, SameSent DEF ExchangeCode, IInv
    <2> QED BY <2>1, <2>2
  <1>4. UseOK'
    BY <1>1, <1>2 DEF UseOK
  <1> QED BY <1>1, <1>3, <1>4, SameDiscovery, SameRedirect, SameDevice DEF IInv

LEMMA DeviceInv ==
    ASSUME IInv, Device \/ Poll \/ DeviceOver PROVE IInv'
  <1>1. UNCHANGED discoveryVars /\ UNCHANGED redirectVars
    BY DEF Device, Poll, DeviceOver
  <1>2. metadata' = metadata /\ stage' = stage
    BY <1>1 DEF discoveryVars
  <1>3. stage = "found"
    BY DEF Device, Poll, DeviceOver, IInv, UseOK
  <1>4. SentOK'
    <2>1. CASE /\ Usable("device") /\ Usable("token")
               /\ sent' = sent \cup {[what |-> <<"device code">>, to |-> metadata.endpoint[name]] :
                                       name \in {"device", "token"}}
      <3>1. \A name \in {"device", "token"} :
               name \in DOMAIN metadata.endpoint /\ Secure(metadata.endpoint[name])
        BY <1>3, <2>1, DocumentsAssumption DEF DocumentsAssumption, IInv, DiscoveryOK, MetadataOK, Usable
      <3>2. ASSUME NEW s \in sent', s \notin sent
            PROVE  /\ s.to \in {metadata.endpoint[name] : name \in DOMAIN metadata.endpoint}
                   /\ Secure(s.to) /\ s.what[1] # "code"
        <4>1. PICK name \in {"device", "token"} :
                s = [what |-> <<"device code">>, to |-> metadata.endpoint[name]]
          BY <2>1, <3>2
        <4>2. s.to = metadata.endpoint[name] /\ s.what[1] = "device code"
          BY <4>1
        <4> QED BY <3>1, <4>2
      <3> QED BY <1>2, <3>2 DEF IInv, SentOK
    <2>2. CASE Usable("device") /\ Post(<<"client id">>, "device")
      BY <1>2, <1>3, <2>2, PostIsVouched DEF IInv, DiscoveryOK
    <2>3. CASE sent' = sent
      BY <1>2, <2>3, SameSent DEF IInv
    <2> QED BY <2>1, <2>2, <2>3 DEF Device, Poll, DeviceOver, FlowEnds, acquireVars
  <1>5. UseOK'
    <2>1. CASE Device
      BY <1>2, <1>3, <2>1 DEF Device, IInv, UseOK
    <2>2. CASE Poll
      BY <1>2, <1>3, <2>2 DEF Poll, acquireVars, IInv, UseOK
    <2>3. CASE DeviceOver
      BY <1>2, <1>3, <2>3 DEF DeviceOver, FlowEnds, UseOK
    <2> QED BY <2>1, <2>2, <2>3
  <1>6. DeviceOK'
    <2>1. CASE Device
      BY <2>1, BeginDeviceInv, SameDevice DEF Device, IInv
    <2>2. CASE Poll
      BY <2>2, DeviceStepInv DEF Poll, IInv
    <2>3. CASE DeviceOver
      BY <2>3, SameDevice DEF DeviceOver, IInv
    <2> QED BY <2>1, <2>2, <2>3
  <1> QED BY <1>1, <1>4, <1>5, <1>6, SameDiscovery, SameRedirect DEF IInv

LEMMA RefreshInv ==
    ASSUME IInv, Refresh PROVE IInv'
  <1>1. /\ use = "ended" /\ use' = use /\ Usable("token") /\ Post(<<"refresh token">>, "token")
        /\ UNCHANGED discoveryVars /\ UNCHANGED redirectVars /\ UNCHANGED deviceVars
    BY DEF Refresh
  <1>2. stage = "found" /\ stage' = "found" /\ metadata' = metadata
    BY <1>1 DEF IInv, UseOK, discoveryVars
  <1>3. SentOK'
    BY <1>1, <1>2, PostIsVouched DEF IInv, DiscoveryOK
  <1>4. UseOK'
    BY <1>1, <1>2 DEF UseOK
  <1> QED BY <1>1, <1>3, <1>4, SameDiscovery, SameRedirect, SameDevice DEF IInv

LEMMA NextInv == IInv /\ [Next]_vars => IInv'
  <1> SUFFICES ASSUME IInv, [Next]_vars PROVE IInv'
    OBVIOUS
  <1>1. CASE DiscoveryNext /\ UNCHANGED redirectVars /\ UNCHANGED deviceVars /\ UNCHANGED acquireVars
    <2>1. DiscoveryOK' /\ stage # "found"
      BY <1>1, DiscoveryInv DEF IInv
    <2>2. sent = {} /\ use = "none" /\ obtained = None /\ UNCHANGED <<sent, use, obtained>>
      BY <1>1, <2>1 DEF IInv, UseOK, acquireVars
    <2>3. SentOK' /\ UseOK'
      BY <2>2 DEF SentOK, UseOK
    <2> QED BY <1>1, <2>1, <2>3, SameRedirect, SameDevice DEF IInv
  <1>2. CASE UNCHANGED vars
    <2>1. /\ UNCHANGED discoveryVars /\ UNCHANGED redirectVars /\ UNCHANGED deviceVars
          /\ UNCHANGED <<use, obtained, sent>>
      BY <1>2 DEF vars, acquireVars
    <2>2. SentOK' /\ UseOK'
      BY <2>1 DEF IInv, SentOK, UseOK, discoveryVars
    <2> QED BY <2>1, <2>2, SameDiscovery, SameRedirect, SameDevice DEF IInv
  <1> QED
    BY <1>1, <1>2, RegisterInv, CodeFlowInv, ExchangeCodeInv, DeviceInv, RefreshInv DEF Next

\* The invariant of the four parts.
THEOREM Invariant == Spec => []IInv
  <1> QED BY InitInv, NextInv, PTL DEF Spec

-----------------------------------------------------------------------------
(***************************************************************************)
(* What follows from it.                                                   *)
(***************************************************************************)
\* Whatever a resource and the servers it names publish, and wherever a fetch is
\* redirected, secrets go to https endpoints of the issuer chosen or named, and the code
\* that is exchanged is one of this flow's.
THEOREM SecretsStayWithTheVouched == Spec => []SecretsGoToTheVouched
  <1>1. IInv => SecretsGoToTheVouched
    <2> SUFFICES ASSUME IInv PROVE EndpointsVouchedFor
      BY DEF IInv, SentOK, SecretsGoToTheVouched
    <2>1. metadata # None => stage = "found"
      BY DEF IInv, DiscoveryOK, MetadataOK
    <2> QED
      BY <2>1 DEF IInv, DiscoveryOK, FetchedOK, IssuerOK, MetadataOK, ChosenRightly, EndpointsVouchedFor
  <1> QED BY <1>1, Invariant, PTL

\* However many requests arrive, in whatever order their threads run, none but the
\* server's answers ends the flow, and no answer it handled is lost to a timeout.
THEOREM OnlyTheAnswerEnds == Spec => []StraysEndNothing
  <1>1. IInv => StraysEndNothing
    BY DEF IInv
  <1> QED BY <1>1, Invariant, PTL

\* For any interval, lifetime, latencies and slow_downs, polling keeps the server's pace
\* and the code's lifetime.
THEOREM PollsArePaced == Spec => []PollsKeepTime
  <1>1. IInv => PollsKeepTime
    BY DEF IInv, DeviceOK
  <1> QED BY <1>1, Invariant, PTL

\* No refresh leaves a grant that could be renewed without a refresh token.
THEOREM GrantsAreKept == Spec => GrantKept
  <1> DEFINE Held(t) == t \notin {None, NoRefresh}
  <1>1. ASSUME NEW t, Held(t), TokenAnswer(t), obtained = t PROVE Held(obtained')
    BY <1>1, TokensAssumption DEF TokenAnswer, TokensAssumption, NoRefresh
  <1>2. IInv /\ [Next]_vars => [Held(obtained) => Held(obtained')]_vars
    <2> SUFFICES ASSUME IInv, [Next]_vars, Held(obtained) PROVE Held(obtained')
      OBVIOUS
    <2>1. use = "ended"
      BY DEF IInv, UseOK
    <2>2. CASE Refresh
      BY <1>1, <2>2 DEF Refresh, Carried
    <2>3. CASE obtained' = obtained
      BY <2>3
    <2> QED
      BY <2>1, <2>2, <2>3
      DEF Next, vars, acquireVars, Register, Authorize, AuthorizeRefused, Listen, ExchangeCode,
          Device, Poll, DeviceOver
  <1> QED BY <1>2, Invariant, PTL DEF Spec, GrantKept

-----------------------------------------------------------------------------
(***************************************************************************)
(* Renewing one: for any number of threads and tokens, no refresh token is *)
(* presented twice, a token reaches the store before it is used, and a 401 *)
(* renews only the token it refused.                                       *)
(***************************************************************************)
Inside  == {"refresh", "save", "adopt", "count", "release"}
Pending == {"save", "adopt"}

\* _refresh_once is one thread's at a time.
Mutex == \A t \in Threads : flow[t].at \in Inside <=> lock = t

Counting == \E t \in Threads : At(t, "count")

\* The token of a thread that has refreshed is the server's last; unless an issue
\* went unnoticed, the credential has the last one or is about to.
Latest ==
    /\ token <= issued /\ stored <= issued
    /\ \A t \in Threads : flow[t].at \in Pending => flow[t].got = issued
    /\ lost \/ token = issued \/ \E t \in Threads : flow[t].at \in Pending

Kept ==
    /\ PersistedFirst
    /\ \A t \in Threads : At(t, "adopt") => stored = issued \/ issued \in unsaved

\* Every generation has a token of its own.
Generations ==
    /\ generation <= issued
    /\ \A t \in Threads : flow[t].at \in Pending \union {"count"} => generation < issued

\* What a flow has sent, and that the generation it has seen dates the token it used.
FlowOK(f) ==
    /\ f.at \in {"idle", "start", "renew", "ready"} => f.sends = 0
    /\ f.at = "seen" => f.sends <= 1
    /\ f.at \in Inside \union {"wait"} => f.sends = IF f.why = "ahead" THEN 0 ELSE 1
    /\ f.at \in Inside \union {"seen", "sent", "wait"} => f.seen <= generation
    /\ /\ f.at = "sent" \/ (f.at = "wait" /\ f.why = "refused")
       /\ f.seen = generation /\ ~Counting
       => f.used = token

Flows == \A t \in Threads : FlowOK(flow[t])

RenewInv == /\ TypeOK /\ Mutex /\ Latest /\ Kept /\ Generations /\ Flows
        /\ NoReplay /\ OnlyTheRefusedIsRenewed

----------------------------------------------------------------------------
LEMMA RenewInitInv == RenewInit => RenewInv
<1> SUFFICES ASSUME RenewInit PROVE RenewInv
  OBVIOUS
<1> USE DEF RenewInit
<1>1. TypeOK
  <2>1. 0 \in 0 .. MaxTokens
    BY OAuthAssumption DEF OAuthAssumption
  <2>2. Idle \in Flow
    BY DEF Idle, Flow
  <2>3. flow \in [Threads -> Flow]
    BY <2>2
  <2>4. aging \subseteq 0 .. MaxTokens /\ expired \subseteq 0 .. MaxTokens
        /\ unsaved \subseteq 0 .. MaxTokens
    OBVIOUS
  <2>5. lock \in Threads \union {NoThread} /\ revoked \in BOOLEAN /\ lost \in BOOLEAN
    OBVIOUS
  <2> QED BY <2>1, <2>3, <2>4, <2>5 DEF TypeOK
<1>2. Mutex
  BY OAuthAssumption DEF OAuthAssumption, Mutex, Inside, Idle
<1>3. Latest /\ Generations
  BY DEF Latest, Generations, Pending, Idle
<1>4. Kept
  BY DEF Kept, PersistedFirst, At, Idle
<1>5. Flows
  BY DEF Flows, FlowOK, Inside, Idle
<1>6. NoReplay /\ OnlyTheRefusedIsRenewed
  BY DEF NoReplay, OnlyTheRefusedIsRenewed, At, Idle
<1> QED BY <1>1, <1>2, <1>3, <1>4, <1>5, <1>6 DEF RenewInv

\* What a flow does outside _refresh_once changes nothing that others see.
LEMMA LocalStep ==
    ASSUME RenewInv, NEW t \in Threads, NEW g \in Flow, flow' = [flow EXCEPT ![t] = g],
           UNCHANGED <<token, generation, lock, stored, server, unsaved, lost>>,
           flow[t].at \notin Inside, g.at \notin Inside, FlowOK(g)
    PROVE  RenewInv'
<1> USE DEF RenewInv
<1>1. flow \in [Threads -> Flow] /\ UNCHANGED <<issued, revoked, aging, expired>>
  BY DEF TypeOK, server
<1>2. flow'[t] = g /\ \A u \in Threads \ {t} : flow'[u] = flow[u]
  BY <1>1
<1>3. TypeOK'
  BY <1>1 DEF TypeOK
<1>4. Mutex'
  BY <1>2 DEF Mutex
<1>5. \A place \in Inside, u \in Threads : At(u, place)' <=> At(u, place)
  BY <1>2 DEF At
<1>6. Latest' /\ Generations'
  BY <1>1, <1>2 DEF Latest, Generations, Pending, Inside
<1>7. Kept'
  BY <1>1, <1>5 DEF Kept, PersistedFirst, Inside
<1>8. Flows'
  <2>1. Counting' <=> Counting
    BY <1>5 DEF Counting, Inside
  <2>2. FlowOK(g)'
    BY <2>1 DEF FlowOK
  <2>3. ASSUME NEW u \in Threads \ {t} PROVE FlowOK(flow[u])'
    BY <1>2, <2>1 DEF Flows, FlowOK
  <2> QED BY <1>2, <2>2, <2>3 DEF Flows, FlowOK
<1>9. NoReplay' /\ OnlyTheRefusedIsRenewed'
  <2>1. NoReplay'
    BY <1>1 DEF NoReplay
  <2>2. ASSUME NEW u \in Threads, At(u, "refresh")', flow'[u].why = "refused"
        PROVE  flow'[u].used = token'
    <3>1. u # t
      BY <2>2, <1>2 DEF At, Inside
    <3>2. At(u, "refresh") /\ flow'[u] = flow[u]
      BY <2>2, <3>1, <1>2 DEF At
    <3> QED BY <2>2, <3>2 DEF OnlyTheRefusedIsRenewed
  <2> QED BY <2>1, <2>2 DEF OnlyTheRefusedIsRenewed
<1> QED BY <1>3, <1>4, <1>6, <1>7, <1>8, <1>9

----------------------------------------------------------------------------
\* The steps of a flow outside _refresh_once.

LEMMA SendingStep ==
    ASSUME RenewInv, NEW t \in Threads,
           \/ Request(t) \/ CheckExpiry(t) \/ RenewAhead(t) \/ ReadGeneration(t)
           \/ Send(t) \/ Answered(t) \/ Refused(t) \/ AlreadyDone(t)
    PROVE  RenewInv'
<1>1. flow \in [Threads -> Flow] /\ generation \in Nat /\ token \in Nat
  BY OAuthAssumption DEF OAuthAssumption, RenewInv, TypeOK
<1>2. FlowOK(flow[t]) /\ flow[t] \in Flow
  BY <1>1 DEF RenewInv, Flows
<1>3. CASE Request(t)
  <2> DEFINE g == [flow[t] EXCEPT !.at = "start"]
  <2>1. flow' = [flow EXCEPT ![t] = g] /\ flow[t].at = "idle"
    BY <1>3, <1>1 DEF Request, GoTo, At
  <2>2. g \in Flow /\ g.at = "start" /\ g.sends = flow[t].sends
    BY <1>2 DEF Flow
  <2>3. FlowOK(g)
    BY <1>2, <2>1, <2>2 DEF FlowOK, Inside
  <2> QED BY <1>3, <2>1, <2>2, <2>3, LocalStep DEF Request, Inside
<1>4. CASE CheckExpiry(t)
  <2> DEFINE g == [flow[t] EXCEPT !.at = IF token \in aging THEN "renew" ELSE "ready"]
  <2>1. flow' = [flow EXCEPT ![t] = g] /\ flow[t].at = "start"
    BY <1>4, <1>1 DEF CheckExpiry, GoTo, At
  <2>2. g \in Flow /\ g.at \in {"renew", "ready"} /\ g.sends = flow[t].sends
    BY <1>2 DEF Flow
  <2>3. FlowOK(g)
    BY <1>2, <2>1, <2>2 DEF FlowOK, Inside
  <2> QED BY <1>4, <2>1, <2>2, <2>3, LocalStep DEF CheckExpiry, Inside
<1>5. CASE RenewAhead(t)
  <2> DEFINE g == [flow[t] EXCEPT !.at = "wait", !.why = "ahead", !.seen = generation]
  <2>1. flow' = [flow EXCEPT ![t] = g] /\ flow[t].at = "renew"
    BY <1>5, <1>1 DEF RenewAhead, At
  <2>2. g \in Flow /\ g.at = "wait" /\ g.why = "ahead" /\ g.seen = generation
        /\ g.sends = flow[t].sends
    BY <1>1, <1>2 DEF Flow
  <2>3. FlowOK(g)
    BY <1>1, <1>2, <2>1, <2>2 DEF FlowOK, Inside
  <2> QED BY <1>5, <2>1, <2>2, <2>3, LocalStep DEF RenewAhead, Inside
<1>6. CASE ReadGeneration(t)
  <2> DEFINE g == [flow[t] EXCEPT !.at = "seen", !.seen = generation]
  <2>1. flow' = [flow EXCEPT ![t] = g] /\ flow[t].at = "ready"
    BY <1>6, <1>1 DEF ReadGeneration, At
  <2>2. g \in Flow /\ g.at = "seen" /\ g.seen = generation /\ g.sends = flow[t].sends
    BY <1>1, <1>2 DEF Flow
  <2>3. FlowOK(g)
    BY <1>1, <1>2, <2>1, <2>2 DEF FlowOK, Inside
  <2> QED BY <1>6, <2>1, <2>2, <2>3, LocalStep DEF ReadGeneration, Inside
<1>7. CASE Send(t)
  <2> DEFINE g == [flow[t] EXCEPT !.at = "sent", !.used = token, !.sends = @ + 1]
  <2>1. flow' = [flow EXCEPT ![t] = g] /\ flow[t].at = "seen"
    BY <1>7, <1>1 DEF Send, At
  <2>2. flow[t].sends <= 1 /\ flow[t].seen <= generation
    BY <1>2, <2>1 DEF FlowOK, Inside
  <2>3. g \in Flow /\ g.at = "sent" /\ g.used = token /\ g.seen = flow[t].seen
    <3>1. flow[t].sends + 1 \in 0 .. 2
      BY <1>2, <2>2 DEF Flow
    <3> QED BY <1>1, <1>2, <3>1 DEF Flow
  <2>4. FlowOK(g)
    BY <1>1, <2>2, <2>3 DEF FlowOK, Inside
  <2> QED BY <1>7, <2>1, <2>3, <2>4, LocalStep DEF Send, Inside
<1>8. CASE Answered(t)
  <2>1. flow' = [flow EXCEPT ![t] = Idle] /\ flow[t].at = "sent"
    BY <1>8 DEF Answered, End, At
  <2>2. Idle \in Flow /\ Idle.at = "idle" /\ FlowOK(Idle)
    BY DEF Flow, Idle, FlowOK, Inside
  <2> QED BY <1>8, <2>1, <2>2, LocalStep DEF Answered, Inside
<1>9. CASE Refused(t)
  <2> DEFINE g == [flow[t] EXCEPT !.at = "wait", !.why = "refused"]
  <2>1. flow' = [flow EXCEPT ![t] = g] /\ flow[t].at = "sent" /\ flow[t].sends = 1
    BY <1>9, <1>1 DEF Refused, At
  <2>2. g \in Flow /\ g.at = "wait" /\ g.why = "refused" /\ g.sends = flow[t].sends
        /\ g.seen = flow[t].seen /\ g.used = flow[t].used
    BY <1>2 DEF Flow
  <2>3. FlowOK(g)
    BY <1>2, <2>1, <2>2 DEF FlowOK, Inside
  <2> QED BY <1>9, <2>1, <2>2, <2>3, LocalStep DEF Refused, Inside
<1>10. CASE AlreadyDone(t)
  <2> DEFINE g == [flow[t] EXCEPT !.at = IF flow[t].why = "ahead" THEN "ready" ELSE "seen"]
  <2>1. flow' = [flow EXCEPT ![t] = g] /\ flow[t].at = "wait"
    BY <1>10, <1>1 DEF AlreadyDone, Resume, GoTo, At
  <2>2. /\ g \in Flow /\ g.sends = flow[t].sends /\ g.seen = flow[t].seen
        /\ g.at = IF flow[t].why = "ahead" THEN "ready" ELSE "seen"
    BY <1>2 DEF Flow
  <2>3. FlowOK(g)
    BY <1>2, <2>1, <2>2 DEF FlowOK, Inside
  <2>4. g.at \notin Inside /\ flow[t].at \notin Inside
    BY <2>1, <2>2 DEF Inside
  <2> HIDE DEF g
  <2> QED BY <1>10, <2>1, <2>2, <2>3, <2>4, LocalStep DEF AlreadyDone
<1> QED BY <1>3, <1>4, <1>5, <1>6, <1>7, <1>8, <1>9, <1>10

----------------------------------------------------------------------------
\* The steps of _refresh_once, which the lock makes one thread's at a time.

LEMMA Alone ==
    ASSUME RenewInv, NEW t \in Threads, flow[t].at \in Inside \/ lock = NoThread
    PROVE  \A u \in Threads \ {t} : flow[u].at \notin Inside
BY OAuthAssumption DEF OAuthAssumption, RenewInv, Mutex

\* What a step of the only thread in _refresh_once has to keep.
LEMMA AloneStep ==
    ASSUME RenewInv, TypeOK', NEW t \in Threads, NEW g \in Flow,
           flow' = [flow EXCEPT ![t] = g],
           \A u \in Threads \ {t} : flow[u].at \notin Inside,
           lock' = IF g.at \in Inside THEN t ELSE NoThread,
           token' <= issued', stored' <= issued', generation' <= issued',
           g.at \in Pending => g.got = issued',
           lost' \/ token' = issued' \/ g.at \in Pending,
           PersistedFirst',
           g.at = "adopt" => stored' = issued' \/ issued' \in unsaved',
           g.at \in Pending \union {"count"} => generation' < issued',
           FlowOK(g)',
           \/ g.at = "count" /\ generation' = generation
           \/ flow[t].at # "count" /\ UNCHANGED <<generation, token>>
           \/ generation' > generation,
           g.at = "refresh" /\ g.why = "refused" => g.used = token',
           NoReplay'
    PROVE  RenewInv'
<1>1. flow \in [Threads -> Flow] /\ generation \in Nat /\ generation' \in Nat
  BY OAuthAssumption DEF OAuthAssumption, RenewInv, TypeOK
<1>2. flow'[t] = g /\ \A u \in Threads \ {t} : flow'[u] = flow[u]
  BY <1>1
<1>3. \A u \in Threads \ {t} : flow'[u].at \notin Inside
  BY <1>2
<1>4. Mutex'
  BY <1>2, <1>3, OAuthAssumption DEF OAuthAssumption, Mutex
<1>5. Latest'
  BY <1>2, <1>3 DEF Latest, Pending, Inside
<1>6. Kept'
  BY <1>2, <1>3 DEF Kept, At, Inside
<1>7. Generations'
  BY <1>2, <1>3 DEF Generations, Pending, Inside
<1>8. OnlyTheRefusedIsRenewed'
  BY <1>2, <1>3 DEF OnlyTheRefusedIsRenewed, At, Inside
<1>9. Flows'
  <2>1. Counting' <=> g.at = "count"
    BY <1>2, <1>3 DEF Counting, At, Inside
  <2>2. Counting <=> flow[t].at = "count"
    BY DEF Counting, At, Inside
  <2>3. ASSUME NEW u \in Threads \ {t} PROVE FlowOK(flow[u])'
    <3>1. FlowOK(flow[u]) /\ flow[u] \in Flow /\ flow'[u] = flow[u]
      BY <1>1, <1>2 DEF RenewInv, Flows
    <3>2. flow[u].at \notin Inside /\ flow[u].seen \in Nat
      BY <3>1 DEF Flow
    <3>3. CASE g.at = "count" /\ generation' = generation
      BY <2>1, <3>1, <3>3 DEF FlowOK
    <3>4. CASE flow[t].at # "count" /\ UNCHANGED <<generation, token>>
      BY <2>2, <3>1, <3>4 DEF FlowOK
    <3>5. CASE generation' > generation
      BY <1>1, <3>1, <3>2, <3>5 DEF FlowOK, Inside
    <3> QED BY <3>3, <3>4, <3>5
  <2> QED BY <1>2, <2>3 DEF Flows, FlowOK
<1> QED BY <1>4, <1>5, <1>6, <1>7, <1>8, <1>9 DEF RenewInv

LEMMA BeginStep == ASSUME RenewInv, NEW t \in Threads, Begin(t) PROVE RenewInv'
<1>1. flow \in [Threads -> Flow] /\ flow[t] \in Flow /\ FlowOK(flow[t])
  BY DEF RenewInv, TypeOK, Flows
<1>2. \A u \in Threads : flow[u].at \notin Inside
  BY Alone, OAuthAssumption DEF OAuthAssumption, RenewInv, Mutex, Begin
<1>3. flow[t].at = "wait" /\ flow[t].seen = generation /\ lock' = t
  BY DEF Begin, At
<1>4. UNCHANGED <<token, generation, stored, issued, revoked, aging, expired, unsaved, lost>>
  BY DEF Begin, server
<1>5. PICK g \in Flow : g = [flow[t] EXCEPT !.at = "refresh"]
  BY <1>1 DEF Flow
<1>6. /\ flow' = [flow EXCEPT ![t] = g] /\ g.at = "refresh"
      /\ g.why = flow[t].why /\ g.seen = flow[t].seen
      /\ g.used = flow[t].used /\ g.sends = flow[t].sends
  BY <1>1, <1>5 DEF Begin, GoTo, Flow
<1>7. TypeOK'
  BY <1>1, <1>3, <1>4, <1>6 DEF RenewInv, TypeOK
<1>8. FlowOK(g)'
  BY <1>1, <1>3, <1>4, <1>6 DEF FlowOK, Inside
<1>9. g.why = "refused" => g.used = token'
  BY <1>1, <1>2, <1>3, <1>4, <1>6 DEF FlowOK, Counting, At, Inside
<1>10. lost' \/ token' = issued'
  BY <1>2, <1>4 DEF RenewInv, Latest, Pending, Inside
<1>11. /\ token' <= issued' /\ stored' <= issued' /\ generation' <= issued'
       /\ PersistedFirst' /\ NoReplay'
  BY <1>4 DEF RenewInv, Latest, Kept, Generations, PersistedFirst, NoReplay
<1>12. g.at \in Inside /\ g.at \notin Pending \union {"count", "adopt"}
  BY <1>6 DEF Inside, Pending
<1> QED
  BY <1>2, <1>3, <1>4, <1>6, <1>7, <1>8, <1>9, <1>10, <1>11, <1>12, AloneStep

LEMMA RefreshingStep ==
    ASSUME RenewInv, NEW t \in Threads, Refreshing(t)
    PROVE  RenewInv'
<1>1. /\ flow \in [Threads -> Flow] /\ flow[t] \in Flow /\ FlowOK(flow[t])
      /\ token \in Nat /\ stored \in Nat /\ issued \in Nat /\ generation \in Nat
      /\ MaxTokens \in Nat
  BY OAuthAssumption DEF OAuthAssumption, RenewInv, TypeOK, Flows
<1>2. flow[t].at \in {"refresh", "save", "adopt", "count", "release"}
  BY DEF Refreshing, Rotate, RenewFails, AnswerLost, Save, Adopt, Count, Release, At
<1>3. \A u \in Threads \ {t} : flow[u].at \notin Inside
  BY <1>2, Alone DEF Inside
<1>4. lock = t
  BY <1>2 DEF RenewInv, Mutex, Inside
<1>5. flow[t].at \notin Pending => lost \/ token = issued
  BY <1>3 DEF RenewInv, Latest, Pending, Inside
<1>6. /\ token <= issued /\ stored <= issued /\ generation <= issued
      /\ PersistedFirst /\ NoReplay
  BY DEF RenewInv, Latest, Kept, Generations
<1>7. Idle \in Flow /\ Idle.at = "idle" /\ Idle.sends = 0
  BY DEF Idle, Flow
<1>8. CASE Rotate(t)
  <2>1. /\ flow[t].at = "refresh" /\ token = issued /\ issued < MaxTokens /\ issued' = issued + 1
        /\ UNCHANGED <<token, generation, lock, stored, revoked, aging, expired, unsaved, lost>>
    BY <1>8 DEF Rotate, At
  <2>2. PICK g \in Flow : g = [flow[t] EXCEPT !.at = "save", !.got = issued + 1]
    <3>1. issued + 1 \in Nat
      BY <1>1
    <3>2. [flow[t] EXCEPT !.at = "save", !.got = issued + 1] \in Flow
      BY <1>1, <3>1 DEF Flow
    <3> QED BY <3>2
  <2>3. /\ flow' = [flow EXCEPT ![t] = g] /\ g.at = "save" /\ g.got = issued'
        /\ g.why = flow[t].why /\ g.seen = flow[t].seen /\ g.sends = flow[t].sends
    BY <1>1, <1>8, <2>1, <2>2 DEF Rotate, Flow
  <2>4. TypeOK'
    <3>1. issued' \in 0 .. MaxTokens
      BY <1>1, <2>1
    <3> QED BY <1>1, <2>1, <2>3, <3>1 DEF RenewInv, TypeOK
  <2>5. FlowOK(g)'
    BY <1>1, <2>1, <2>3 DEF FlowOK, Inside
  <2>6. /\ token' <= issued' /\ stored' <= issued' /\ generation' <= issued'
        /\ generation' < issued' /\ PersistedFirst' /\ NoReplay'
    BY <1>1, <1>6, <2>1 DEF PersistedFirst, NoReplay
  <2>7. g.at \in Inside /\ g.at \in Pending /\ g.at \notin {"adopt", "count", "refresh"}
    BY <2>3 DEF Inside, Pending
  <2> QED BY <1>3, <1>4, <2>1, <2>3, <2>4, <2>5, <2>6, <2>7, AloneStep
<1>9. CASE RenewFails(t)
  <2>1. /\ flow[t].at = "refresh" /\ lock' = NoThread /\ revoked' = (revoked \/ token # issued)
        /\ flow' = [flow EXCEPT ![t] = Idle]
        /\ UNCHANGED <<token, generation, stored, issued, aging, expired, unsaved, lost>>
    BY <1>9 DEF RenewFails, At, End
  <2>2. lost \/ token = issued
    BY <1>5, <2>1 DEF Pending
  <2>3. TypeOK'
    BY <1>1, <1>7, <2>1 DEF RenewInv, TypeOK
  <2>4. FlowOK(Idle)'
    BY <1>7 DEF FlowOK, Inside
  <2>5. /\ token' <= issued' /\ stored' <= issued' /\ generation' <= issued'
        /\ PersistedFirst' /\ NoReplay'
    BY <1>6, <2>1, <2>2 DEF PersistedFirst, NoReplay
  <2>6. Idle.at \notin Inside \union Pending \union {"adopt", "count", "refresh"}
    BY <1>7 DEF Inside, Pending
  <2> QED BY <1>3, <1>7, <2>1, <2>2, <2>3, <2>4, <2>5, <2>6, AloneStep
<1>10. CASE AnswerLost(t)
  <2>1. /\ flow[t].at = "refresh" /\ lock' = NoThread /\ issued < MaxTokens /\ issued' = issued + 1
        /\ flow' = [flow EXCEPT ![t] = Idle] /\ lost' = TRUE
        /\ UNCHANGED <<token, generation, stored, revoked, aging, expired, unsaved>>
    BY <1>10 DEF AnswerLost, At, End
  <2>2. TypeOK'
    BY <1>1, <1>7, <2>1 DEF RenewInv, TypeOK
  <2>3. FlowOK(Idle)'
    BY <1>7 DEF FlowOK, Inside
  <2>4. /\ token' <= issued' /\ stored' <= issued' /\ generation' <= issued'
        /\ PersistedFirst' /\ NoReplay'
    BY <1>1, <1>6, <2>1 DEF PersistedFirst, NoReplay
  <2>5. Idle.at \notin Inside \union Pending \union {"adopt", "count", "refresh"}
    BY <1>7 DEF Inside, Pending
  <2> QED BY <1>3, <1>7, <2>1, <2>2, <2>3, <2>4, <2>5, AloneStep
<1>11. CASE Save(t)
  <2>1. /\ flow[t].at = "save"
        /\ \/ stored' = flow[t].got /\ unsaved' = unsaved
           \/ unsaved' = unsaved \union {flow[t].got} /\ stored' = stored
        /\ UNCHANGED <<token, generation, lock, issued, revoked, aging, expired, lost>>
    BY <1>11 DEF Save, At, server
  <2>2. flow[t].got = issued /\ generation < issued
    BY <2>1 DEF RenewInv, Latest, Generations, Pending
  <2>3. PICK g \in Flow : g = [flow[t] EXCEPT !.at = "adopt"]
    BY <1>1 DEF Flow
  <2>4. /\ flow' = [flow EXCEPT ![t] = g] /\ g.at = "adopt" /\ g.got = flow[t].got
        /\ g.why = flow[t].why /\ g.seen = flow[t].seen /\ g.sends = flow[t].sends
    BY <1>1, <1>11, <2>3 DEF Save, GoTo, Flow
  <2>5. TypeOK'
    BY <1>1, <2>1, <2>2, <2>4 DEF RenewInv, TypeOK
  <2>6. FlowOK(g)'
    BY <1>1, <2>1, <2>4 DEF FlowOK, Inside
  <2>7. /\ token' <= issued' /\ stored' <= issued' /\ generation' <= issued'
        /\ generation' < issued' /\ PersistedFirst' /\ NoReplay'
        /\ (stored' = issued' \/ issued' \in unsaved')
    BY <1>1, <1>6, <2>1, <2>2 DEF PersistedFirst, NoReplay
  <2>8. g.at \in Inside /\ g.at \in Pending /\ g.at \notin {"count", "refresh"}
    BY <2>4 DEF Inside, Pending
  <2> QED BY <1>3, <1>4, <2>1, <2>2, <2>4, <2>5, <2>6, <2>7, <2>8, AloneStep
<1>12. CASE Adopt(t)
  <2>1. /\ flow[t].at = "adopt" /\ token' = flow[t].got
        /\ UNCHANGED <<generation, lock, stored, issued, revoked, aging, expired, unsaved, lost>>
    BY <1>12 DEF Adopt, At, server
  <2>2. flow[t].got = issued /\ generation < issued /\ (stored = issued \/ issued \in unsaved)
    BY <2>1 DEF RenewInv, Latest, Generations, Kept, Pending, At
  <2>3. PICK g \in Flow : g = [flow[t] EXCEPT !.at = "count"]
    BY <1>1 DEF Flow
  <2>4. /\ flow' = [flow EXCEPT ![t] = g] /\ g.at = "count"
        /\ g.why = flow[t].why /\ g.seen = flow[t].seen /\ g.sends = flow[t].sends
    BY <1>1, <1>12, <2>3 DEF Adopt, GoTo, Flow
  <2>5. TypeOK'
    BY <1>1, <2>1, <2>2, <2>4 DEF RenewInv, TypeOK
  <2>6. FlowOK(g)'
    BY <1>1, <2>1, <2>4 DEF FlowOK, Inside
  <2>7. /\ token' = issued' /\ token' <= issued' /\ stored' <= issued' /\ generation' <= issued'
        /\ generation' < issued' /\ PersistedFirst' /\ NoReplay'
    BY <1>1, <1>6, <2>1, <2>2 DEF PersistedFirst, NoReplay
  <2>8. g.at \in Inside /\ g.at \notin Pending \union {"adopt", "refresh"}
    BY <2>4 DEF Inside, Pending
  <2> QED BY <1>3, <1>4, <2>1, <2>2, <2>4, <2>5, <2>6, <2>7, <2>8, AloneStep
<1>13. CASE Count(t)
  <2>1. /\ flow[t].at = "count" /\ generation' = generation + 1
        /\ UNCHANGED <<token, lock, stored, issued, revoked, aging, expired, unsaved, lost>>
    BY <1>13 DEF Count, At, server
  <2>2. generation < issued /\ (lost \/ token = issued)
    BY <1>5, <2>1 DEF RenewInv, Generations, Pending
  <2>3. PICK g \in Flow : g = [flow[t] EXCEPT !.at = "release"]
    BY <1>1 DEF Flow
  <2>4. /\ flow' = [flow EXCEPT ![t] = g] /\ g.at = "release"
        /\ g.why = flow[t].why /\ g.seen = flow[t].seen /\ g.sends = flow[t].sends
    BY <1>1, <1>13, <2>3 DEF Count, GoTo, Flow
  <2>5. TypeOK'
    <3>1. issued \in 0 .. MaxTokens
      BY DEF RenewInv, TypeOK
    <3>2. generation' \in 0 .. MaxTokens
      BY <1>1, <2>1, <2>2, <3>1
    <3> QED BY <1>1, <2>1, <2>4, <3>2 DEF RenewInv, TypeOK
  <2>6. FlowOK(g)'
    BY <1>1, <2>1, <2>4 DEF FlowOK, Inside, Flow
  <2>7. /\ token' <= issued' /\ stored' <= issued' /\ generation' <= issued'
        /\ generation' > generation /\ PersistedFirst' /\ NoReplay'
    BY <1>1, <1>6, <2>1, <2>2 DEF PersistedFirst, NoReplay
  <2>8. g.at \in Inside /\ g.at \notin Pending \union {"adopt", "count", "refresh"}
    BY <2>4 DEF Inside, Pending
  <2> QED BY <1>3, <1>4, <2>1, <2>2, <2>4, <2>5, <2>6, <2>7, <2>8, AloneStep
<1>14. CASE Release(t)
  <2>1. /\ flow[t].at = "release" /\ lock' = NoThread
        /\ UNCHANGED <<token, generation, stored, issued, revoked, aging, expired, unsaved, lost>>
    BY <1>14 DEF Release, At, server
  <2>2. lost \/ token = issued
    BY <1>5, <2>1 DEF Pending
  <2>3. PICK g \in Flow : /\ flow' = [flow EXCEPT ![t] = g]
                          /\ g.at \in {"idle", "ready", "seen"} /\ FlowOK(g)
    <3>1. CASE flow[t].got \in unsaved
      BY <1>7, <1>14, <3>1 DEF Release, End, FlowOK, Inside
    <3>2. CASE flow[t].got \notin unsaved
      <4>1. PICK g \in Flow :
              g = [flow[t] EXCEPT !.at = IF flow[t].why = "ahead" THEN "ready" ELSE "seen"]
        BY <1>1 DEF Flow
      <4>2. flow' = [flow EXCEPT ![t] = g]
        BY <1>1, <1>14, <3>2, <4>1 DEF Release, Resume, GoTo
      <4>3. /\ g.at = IF flow[t].why = "ahead" THEN "ready" ELSE "seen"
            /\ g.sends = flow[t].sends /\ g.seen = flow[t].seen
        BY <1>1, <4>1 DEF Flow
      <4>4. FlowOK(g)
        BY <1>1, <2>1, <4>3 DEF FlowOK, Inside
      <4> QED BY <4>2, <4>3, <4>4
    <3> QED BY <3>1, <3>2
  <2>4. TypeOK'
    BY <1>1, <2>1, <2>3 DEF RenewInv, TypeOK
  <2>5. FlowOK(g)'
    BY <1>1, <2>1, <2>3 DEF FlowOK, Inside
  <2>6. /\ token' <= issued' /\ stored' <= issued' /\ generation' <= issued'
        /\ PersistedFirst' /\ NoReplay'
    BY <1>6, <2>1 DEF PersistedFirst, NoReplay
  <2>7. g.at \notin Inside \union Pending \union {"adopt", "count", "refresh"}
    BY <2>3 DEF Inside, Pending
  <2> QED BY <1>3, <2>1, <2>2, <2>3, <2>4, <2>5, <2>6, <2>7, AloneStep
<1> QED BY <1>8, <1>9, <1>10, <1>11, <1>12, <1>13, <1>14 DEF Refreshing

----------------------------------------------------------------------------
\* The steps of the world.

LEMMA WorldStep == ASSUME RenewInv, Age \/ Expire PROVE RenewInv'
<1>1. UNCHANGED <<token, generation, lock, stored, flow, issued, revoked, unsaved, lost>>
  BY DEF Age, Expire
<1>2. TypeOK'
  <2>1. token \in 0 .. MaxTokens /\ 0 .. issued \subseteq 0 .. MaxTokens
    BY OAuthAssumption DEF OAuthAssumption, RenewInv, TypeOK
  <2>2. aging' \subseteq 0 .. MaxTokens /\ expired' \subseteq 0 .. MaxTokens
    BY <2>1 DEF RenewInv, TypeOK, Age, Expire
  <2> QED BY <1>1, <2>2 DEF RenewInv, TypeOK
<1>3. Mutex' /\ Latest' /\ Generations'
  BY <1>1 DEF RenewInv, Mutex, Latest, Generations
<1>4. Kept' /\ NoReplay' /\ OnlyTheRefusedIsRenewed'
  BY <1>1 DEF RenewInv, Kept, PersistedFirst, NoReplay, OnlyTheRefusedIsRenewed, At
<1>5. Flows'
  BY <1>1 DEF RenewInv, Flows, FlowOK, Counting, At
<1> QED BY <1>2, <1>3, <1>4, <1>5 DEF RenewInv

LEMMA CrashStep == ASSUME RenewInv, Crash PROVE RenewInv'
<1>1. /\ token' = stored /\ generation' = 0 /\ lock' = NoThread
      /\ lost' = (lost \/ stored # issued)
      /\ UNCHANGED <<stored, issued, revoked, aging, expired, unsaved>>
  BY DEF Crash, server
<1>2. \A t \in Threads : flow'[t] = Idle
  BY DEF Crash
<1>3. Idle \in Flow /\ Idle.at = "idle" /\ Idle.sends = 0
  BY DEF Idle, Flow
<1>4. /\ stored \in 0 .. MaxTokens /\ issued \in 0 .. MaxTokens /\ 0 \in 0 .. MaxTokens
      /\ lost \in BOOLEAN /\ stored <= issued
  BY OAuthAssumption DEF OAuthAssumption, RenewInv, TypeOK, Latest
<1>5. TypeOK'
  <2>1. flow' \in [Threads -> Flow]
    BY <1>3 DEF Crash
  <2> QED BY <1>1, <1>4, <2>1 DEF RenewInv, TypeOK
<1>6. Mutex'
  BY <1>1, <1>2, <1>3, OAuthAssumption DEF OAuthAssumption, Mutex, Inside
<1>7. Latest'
  <2>1. stored <= issued /\ (lost' \/ token' = issued')
    BY <1>1, <1>4
  <2> QED BY <1>1, <1>2, <1>3, <2>1 DEF Latest, Pending
<1>8. Generations'
  BY <1>1, <1>2, <1>3, <1>4 DEF Generations, Pending
<1>9. Kept' /\ NoReplay' /\ OnlyTheRefusedIsRenewed'
  BY <1>1, <1>2, <1>3, <1>4
  DEF RenewInv, Kept, PersistedFirst, NoReplay, OnlyTheRefusedIsRenewed, At
<1>10. Flows'
  BY <1>2, <1>3 DEF Flows, FlowOK, Inside
<1> QED BY <1>5, <1>6, <1>7, <1>8, <1>9, <1>10 DEF RenewInv

LEMMA RenewNextInv == ASSUME RenewInv, [RenewNext]_renewVars PROVE RenewInv'
<1>1. ASSUME NEW t \in Threads, Request(t) \/ Sending(t) \/ Refreshing(t)
      PROVE  RenewInv'
  <2>1. CASE Begin(t)
    BY <2>1, BeginStep
  <2>2. CASE Refreshing(t)
    BY <2>2, RefreshingStep
  <2>3. CASE \/ Request(t) \/ CheckExpiry(t) \/ RenewAhead(t) \/ ReadGeneration(t)
             \/ Send(t) \/ Answered(t) \/ Refused(t) \/ AlreadyDone(t)
    BY <2>3, SendingStep
  <2> QED BY <1>1, <2>1, <2>2, <2>3 DEF Sending
<1>2. CASE UNCHANGED renewVars
  <2> USE <1>2 DEF renewVars
  <2>1. TypeOK' /\ Mutex' /\ Latest' /\ Generations'
    BY DEF RenewInv, TypeOK, Mutex, Latest, Generations
  <2>2. Kept' /\ NoReplay' /\ OnlyTheRefusedIsRenewed'
    BY DEF RenewInv, Kept, PersistedFirst, NoReplay, OnlyTheRefusedIsRenewed, At
  <2>3. Flows'
    BY DEF RenewInv, Flows, FlowOK, Counting, At
  <2> QED BY <2>1, <2>2, <2>3 DEF RenewInv
<1> QED BY <1>1, <1>2, WorldStep, CrashStep DEF RenewNext

LEMMA RenewInvariant == RenewSpec => []RenewInv
BY RenewInitInv, RenewNextInv, PTL DEF RenewSpec

----------------------------------------------------------------------------
\* The state of the credential, of its store and of every flow that uses it keeps its
\* type, and a flow sends its request at most twice: once, and once more after a
\* refresh (sync_auth_flow).
THEOREM TypeCorrect == RenewSpec => []TypeOK
BY RenewInvariant, PTL DEF RenewInv

\* However many threads are refused at once, and wherever a refresh or a save fails or
\* the process dies, no refresh token is presented to the server a second time, unless
\* the client could not know of the token that replaced it (_refresh_once).
THEOREM NoTokenIsReplayed == RenewSpec => []NoReplay
BY RenewInvariant, PTL DEF RenewInv

\* The credential never uses a token that a restart would lose, except one whose save
\* raised, which its caller has been told (_apply_token).
THEOREM SavedBeforeUse == RenewSpec => []PersistedFirst
BY RenewInvariant, PTL DEF RenewInv, Kept

\* A 401 renews the token that was refused and never a later one: the generation read
\* before the request dates the token it carries, however the threads interleave
\* (sync_auth_flow's `seen`, and the comparison in _refresh_once).
THEOREM RenewsTheRefused == RenewSpec => []OnlyTheRefusedIsRenewed
BY RenewInvariant, PTL DEF RenewInv
=============================================================================

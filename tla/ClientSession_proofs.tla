------------------------ MODULE ClientSession_proofs ------------------------
(***************************************************************************)
(* What a client holds of a session, for every set of documents, redirects *)
(* and calls.                                                              *)
(***************************************************************************)
EXTENDS ClientSession, FiniteSetTheorems, SequenceTheorems, WellFoundedInduction, TLAPS

-----------------------------------------------------------------------------
(* Lists in order *)

\* A finite set with a strict total order is the range of an increasing sequence: the
\* rank of an element, one more than the number of those before it, is a bijection.
LEMMA Enumeration ==
    ASSUME NEW S, IsFiniteSet(S), NEW R,
           \A x \in S : <<x, x>> \notin R,
           \A x, y, z \in S : <<x, y>> \in R /\ <<y, z>> \in R => <<x, z>> \in R,
           \A x, y \in S : x # y => <<x, y>> \in R \/ <<y, x>> \in R
    PROVE  \E order \in [1 .. Cardinality(S) -> S] :
              \A i, j \in DOMAIN order : i < j => <<order[i], order[j]>> \in R
<1> DEFINE n == Cardinality(S)
           Below(x) == {y \in S : <<y, x>> \in R}
           rank == [x \in S |-> Cardinality(Below(x)) + 1]
<1>1. n \in Nat
  BY FS_CardinalityType
<1>2. \A x \in S : IsFiniteSet(Below(x)) /\ Cardinality(Below(x)) \in Nat
  BY FS_Subset, FS_CardinalityType
<1>3. \A x \in S : rank[x] \in 1 .. n
  <2> SUFFICES ASSUME NEW x \in S PROVE rank[x] \in 1 .. n
    OBVIOUS
  <2>1. IsFiniteSet(S \ {x}) /\ Cardinality(S \ {x}) = n - 1
    BY FS_RemoveElement
  <2>2. Below(x) \in SUBSET (S \ {x})
    OBVIOUS
  <2> HIDE DEF n, Below
  <2>3. Cardinality(Below(x)) <= n - 1
    BY <2>1, <2>2, FS_Subset
  <2> QED BY <1>1, <1>2, <2>3
<1>4. \A x, y \in S : <<x, y>> \in R => rank[x] < rank[y]
  <2> SUFFICES ASSUME NEW x \in S, NEW y \in S, <<x, y>> \in R PROVE rank[x] < rank[y]
    OBVIOUS
  <2>1. x \notin Below(x) /\ Below(x) \cup {x} \in SUBSET Below(y)
    OBVIOUS
  <2>2. Cardinality(Below(x) \cup {x}) = Cardinality(Below(x)) + 1
    BY <1>2, <2>1, FS_AddElement
  <2>3. Cardinality(Below(x) \cup {x}) <= Cardinality(Below(y))
    BY <1>2, <2>1, FS_Subset
  <2> HIDE DEF Below
  <2> QED BY <1>2, <2>2, <2>3
<1>5. rank \in [S -> 1 .. n] /\ \A x, y \in S : rank[x] = rank[y] => x = y
  <2>1. \A x \in S : rank[x] \in Nat
    BY <1>3
  <2>2. rank \in [S -> 1 .. n]
    BY <1>3
  <2> HIDE DEF rank, n
  <2>3. ASSUME NEW x \in S, NEW y \in S, rank[x] = rank[y], x # y PROVE FALSE
    <3>1. rank[x] < rank[y] \/ rank[y] < rank[x]
      BY <1>4, <2>3
    <3> QED BY <2>1, <2>3, <3>1
  <2> QED BY <2>2, <2>3
<1>6. \A i \in 1 .. n : \E x \in S : rank[x] = i
  <2> HIDE DEF rank
  <2>1. rank \in Injection(S, 1 .. n)
    BY <1>5 DEF Injection, IsInjective
  <2>2. IsFiniteSet(1 .. n) /\ Cardinality(1 .. n) = n
    BY <1>1, FS_Interval
  <2>3. rank \in Surjection(S, 1 .. n)
    BY <2>1, <2>2, FS_Injection
  <2> QED BY <2>3 DEF Surjection
<1> DEFINE order == [i \in 1 .. n |-> CHOOSE x \in S : rank[x] = i]
<1>7. \A i \in 1 .. n : order[i] \in S /\ rank[order[i]] = i
  <2> HIDE DEF rank
  <2> QED BY <1>6
<1>8. ASSUME NEW i \in 1 .. n, NEW j \in 1 .. n, i < j PROVE <<order[i], order[j]>> \in R
  <2> HIDE DEF rank, order
  <2>1. order[i] # order[j] /\ ~(rank[order[j]] < rank[order[i]])
    BY <1>7, <1>8
  <2> QED BY <1>4, <1>7, <2>1
<1>9. order \in [1 .. n -> S] /\ DOMAIN order = 1 .. n
  BY <1>7
<1> HIDE DEF order
<1> QED BY <1>8, <1>9

-----------------------------------------------------------------------------
(* The URLs a search tries *)

\* The targets of a lookup can be put in order, so what Ordered chooses is an order.
LEMMA OrderedTargets ==
    ASSUME NEW targets \in SUBSET SRVRecords
    PROVE  /\ IsFiniteSet(targets)
           /\ Ordered(targets) \in [1 .. Cardinality(targets) -> targets]
           /\ \A i, j \in DOMAIN Ordered(targets) : i < j => Preferred(Ordered(targets)[i], Ordered(targets)[j])
<1> DEFINE R == {pair \in targets \X targets : Preferred(pair[1], pair[2])}
<1>1. IsFiniteSet(targets)
  BY SearchAssumption, FS_Subset
<1>2. \A x, y \in targets : <<x, y>> \in R <=> Preferred(x, y)
  OBVIOUS
<1>3. targets \subseteq [host : Nat, priority : Nat, weight : Nat]
  BY SearchAssumption
<1>4. /\ \A x \in targets : ~Preferred(x, x)
      /\ \A x, y, z \in targets : Preferred(x, y) /\ Preferred(y, z) => Preferred(x, z)
      /\ \A x, y \in targets : x # y => Preferred(x, y) \/ Preferred(y, x)
  BY <1>3 DEF Preferred
<1> HIDE DEF R
<1>7. /\ \A x \in targets : <<x, x>> \notin R
      /\ \A x, y, z \in targets : <<x, y>> \in R /\ <<y, z>> \in R => <<x, z>> \in R
      /\ \A x, y \in targets : x # y => <<x, y>> \in R \/ <<y, x>> \in R
  BY <1>2, <1>4
<1>5. \E order \in [1 .. Cardinality(targets) -> targets] :
         \A i, j \in DOMAIN order : i < j => <<order[i], order[j]>> \in R
  BY <1>1, <1>7, Enumeration
<1>6. \E order \in [1 .. Cardinality(targets) -> targets] :
         \A i, j \in DOMAIN order : i < j => Preferred(order[i], order[j])
  BY <1>2, <1>5
<1> QED BY <1>1, <1>6 DEF Ordered

\* What candidate_urls gives: only hosts that may be tried, and a URL twice only if the
\* DNS names its host twice.
LEMMA CandidateList ==
    ASSUME NEW records \in SUBSET SRVRecords, NEW yes \in SUBSET records,
           NEW urls, urls = CandidateURLs(records, yes)
    PROVE  /\ urls \in Seq(URLs)
           /\ \A i \in DOMAIN urls : urls[i].host \in InDomain \cup {t.host : t \in yes}
           /\ \A i, j \in DOMAIN urls : urls[i] = urls[j] => i = j \/ NamedTwice(urls[i])
<1> DEFINE S == {r \in records : MayTry(r, yes)}
           targets == Ordered(S)
           listed == [i \in DOMAIN targets |-> WellKnown(targets[i].host)]
<1>1. /\ S \in SUBSET SRVRecords /\ Cardinality(S) \in Nat
      /\ targets \in [1 .. Cardinality(S) -> S]
      /\ \A i, j \in DOMAIN targets : i < j => Preferred(targets[i], targets[j])
  BY OrderedTargets, FS_CardinalityType
<1>2. \A r \in S : r \in SRVRecords /\ r.host \in Nat /\ r.host \in InDomain \cup {t.host : t \in yes}
  BY SearchAssumption DEF MayTry
<1>3. \A r \in S : ~Preferred(r, r)
  BY SearchAssumption DEF Preferred
<1> HIDE DEF targets, S
<1>4. /\ listed \in Seq(URLs) /\ DOMAIN listed = 1 .. Cardinality(S)
      /\ \A i \in DOMAIN listed : /\ listed[i] = WellKnown(targets[i].host)
                                 /\ listed[i].host = targets[i].host
                                 /\ listed[i].host \in InDomain \cup {t.host : t \in yes}
  <2>1. /\ DOMAIN targets = 1 .. Cardinality(S) /\ \A i \in DOMAIN targets : targets[i] \in S
        /\ DOMAIN listed = 1 .. Cardinality(S)
    BY <1>1
  <2>2. \A i \in DOMAIN listed : /\ listed[i] = WellKnown(targets[i].host)
                                /\ listed[i].host = targets[i].host
                                /\ listed[i] \in URLs
    BY <1>2, <2>1 DEF WellKnown, URLs, Schemes
  <2>3. listed \in [1 .. Cardinality(S) -> URLs]
    BY <2>1, <2>2
  <2> QED BY <1>1, <1>2, <2>1, <2>2, <2>3
<1>5. ASSUME NEW i \in DOMAIN listed, NEW j \in DOMAIN listed, listed[i] = listed[j], i # j
      PROVE  NamedTwice(listed[i])
  <2>1. targets[i] \in S /\ targets[j] \in S /\ i \in Nat /\ j \in Nat
    BY <1>1, <1>4
  <2>2. targets[i] # targets[j]
    BY <1>1, <1>3, <1>5, <2>1
  <2>3. targets[i].host = listed[i].host /\ targets[j].host = listed[i].host
    BY <1>4, <1>5
  <2> QED BY <1>2, <2>1, <2>2, <2>3 DEF NamedTwice
<1>6. urls = IF WellKnown(Domain) \in ToSet(listed) THEN listed ELSE Append(listed, WellKnown(Domain))
  BY DEF CandidateURLs, targets, S
<1> HIDE DEF listed
<1>7. CASE WellKnown(Domain) \in ToSet(listed)
  BY <1>4, <1>5, <1>6, <1>7
<1>8. CASE WellKnown(Domain) \notin ToSet(listed)
  <2> DEFINE n == Len(listed)
  <2>1. /\ WellKnown(Domain) \in URLs /\ WellKnown(Domain).host \in InDomain
        /\ \A i \in DOMAIN listed : listed[i] # WellKnown(Domain)
    BY <1>8, SearchAssumption DEF WellKnown, URLs, Schemes, ToSet
  <2>2. /\ urls \in Seq(URLs) /\ DOMAIN urls = 1 .. n + 1 /\ n \in Nat /\ DOMAIN listed = 1 .. n
        /\ urls[n + 1] = WellKnown(Domain) /\ \A i \in 1 .. n : urls[i] = listed[i]
    BY <1>4, <1>6, <1>8, <2>1
  <2> HIDE DEF n
  <2>3. \A i \in 1 .. n + 1 : i \in 1 .. n \/ i = n + 1
    BY <2>2
  <2>4. \A i \in 1 .. n + 1 : urls[i].host \in InDomain \cup {t.host : t \in yes}
    BY <1>4, <2>1, <2>2, <2>3
  <2>5. \A i, j \in 1 .. n + 1 : urls[i] = urls[j] => i = j \/ NamedTwice(urls[i])
    BY <1>5, <2>1, <2>2, <2>3
  <2> QED BY <2>2, <2>4, <2>5
<1> QED BY <1>7, <1>8

-----------------------------------------------------------------------------
(* Credentials stay put: what is still to be tried is kept as carefully as what has been *)

Results == {"unreachable", "problem", "malformed", "conflict", "unauthorized", "insecure", "session"}
Final == {"unauthorized", "insecure", "session"}

Trying == phase \in {"connecting", "searching"}

SearchTypeOK ==
    /\ chain \in Seq(URLs) /\ candidates \in Seq(URLs)
    /\ tried \in Seq([url : URLs, result : Results])
    /\ phase \in {"idle", "connecting", "searching", "found", "connected", "failed"}

\* What each phase has behind it and before it.
PhaseOK ==
    /\ phase \in {"idle", "found", "failed"} => chain = <<>>
    /\ phase \in {"idle", "connected"} => tried = <<>>
    /\ phase \in {"idle", "connecting", "connected"} => untried = {} /\ confirmed = {}
    /\ Trying => \A i \in DOMAIN tried : tried[i].result \notin Final

\* The URL of the fetch that is out, as a set.
Fetching == IF chain = <<>> THEN {} ELSE {chain[1]}

\* The hosts that are being tried, or will be, are ones that may be.
HostsOK ==
    phase = "searching" =>
        \A url \in Fetching \cup ToSet(candidates) : url.host \in InDomain \cup {t.host : t \in confirmed}

\* What has been tried, what is being tried and what will be are different URLs,
\* but for a host that two records name.
AllDistinct ==
    Trying =>
        /\ \A i, j \in DOMAIN candidates :
              candidates[i] = candidates[j] => i = j \/ NamedTwice(candidates[i])
        /\ \A url \in Fetching : url \in ToSet(candidates) => NamedTwice(url)
        /\ \A i \in DOMAIN tried :
              tried[i].url \in Fetching \cup ToSet(candidates) => NamedTwice(tried[i].url)

\* The session a client holds was read over channels of their kind, and is fetched again
\* from the same URL.
SessionOK ==
    /\ phase \in {"found", "connected"} =>
         session.document \in Documents /\ session.base \in URLs /\ session.url \in URLs
    /\ phase = "connected" /\ chain # <<>> => chain[1] = session.url

SearchInv ==
    SearchTypeOK /\ PhaseOK /\ HostsOK /\ AllDistinct /\ SessionOK /\ CredentialsStayPut

LEMMA SearchInit0 == Init => SearchInv
<1> SUFFICES ASSUME Init PROVE SearchInv
  OBVIOUS
<1>1. /\ phase = "idle" /\ confirmed = {} /\ candidates = <<>> /\ untried = {}
      /\ chain = <<>> /\ session = NoSession /\ tried = <<>> /\ raised = "nothing"
  BY DEF Init, SearchInit
<1>2. SearchTypeOK
  BY <1>1 DEF SearchTypeOK
<1>3. PhaseOK /\ HostsOK /\ AllDistinct /\ SessionOK
  BY <1>1 DEF PhaseOK, HostsOK, AllDistinct, SessionOK, Trying
<1>4. SearchIsOrderly
  BY <1>1 DEF SearchIsOrderly
<1>5. ChannelKept
  BY <1>1 DEF ChannelKept
<1> QED BY <1>2, <1>3, <1>4, <1>5 DEF SearchInv, CredentialsStayPut

\* A search or a connection begins.
LEMMA BeginsInv ==
    ASSUME SearchInv, phase = "idle",
           NEW urls \in Seq(URLs), candidates' = urls, phase' \in {"connecting", "searching"},
           \A i, j \in DOMAIN urls : urls[i] = urls[j] => i = j \/ NamedTwice(urls[i]),
           phase' = "searching" =>
              \A i \in DOMAIN urls : urls[i].host \in InDomain \cup {t.host : t \in confirmed'},
           phase' = "connecting" => UNCHANGED <<untried, confirmed>>,
           UNCHANGED <<chain, session, tried, raised>>
    PROVE  SearchInv'
<1>1. chain = <<>> /\ tried = <<>> /\ untried = {} /\ confirmed = {}
  BY DEF SearchInv, PhaseOK
<1>2. SearchTypeOK'
  BY <1>1 DEF SearchInv, SearchTypeOK
<1>3. PhaseOK' /\ SessionOK'
  BY <1>1 DEF SearchInv, PhaseOK, SessionOK, Trying
<1>4. HostsOK' /\ AllDistinct'
  BY <1>1 DEF HostsOK, AllDistinct, Fetching, ToSet, Trying
<1>5. SearchIsOrderly'
  BY <1>1 DEF SearchIsOrderly
<1>6. ChannelKept'
  BY DEF SearchInv, CredentialsStayPut, ChannelKept
<1> QED BY <1>2, <1>3, <1>4, <1>5, <1>6 DEF SearchInv, CredentialsStayPut

LEMMA DiscoverInv ==
    ASSUME SearchInv, NEW records \in SUBSET SRVRecords, NEW yes \in SUBSET records,
           Discover(records, yes)
    PROVE  SearchInv'
<1>1. /\ candidates' \in Seq(URLs)
      /\ \A i \in DOMAIN candidates' : candidates'[i].host \in InDomain \cup {t.host : t \in yes}
      /\ \A i, j \in DOMAIN candidates' :
            candidates'[i] = candidates'[j] => i = j \/ NamedTwice(candidates'[i])
  BY CandidateList DEF Discover
<1>2. phase = "idle" /\ phase' = "searching" /\ confirmed' = yes
      /\ UNCHANGED <<chain, session, tried, raised>>
  BY DEF Discover
<1> QED BY <1>1, <1>2, BeginsInv

LEMMA ConnectInv ==
    ASSUME SearchInv, NEW url \in Direct, Connect(url)
    PROVE  SearchInv'
<1>1. url \in URLs /\ phase = "idle" /\ phase' = "connecting" /\ candidates' = <<url>>
      /\ UNCHANGED <<confirmed, untried, chain, session, tried, raised>>
  BY SearchAssumption DEF Connect
<1>2. <<url>> \in Seq(URLs) /\ \A i, j \in DOMAIN <<url>> : i = j
  BY <1>1
<1> QED BY <1>1, <1>2, BeginsInv

LEMMA TryInv == ASSUME SearchInv, Try PROVE SearchInv'
<1>1. /\ Trying /\ chain = <<>> /\ candidates # <<>>
      /\ chain' = <<Head(candidates)>> /\ candidates' = Tail(candidates)
      /\ UNCHANGED <<phase, confirmed, untried, session, tried, raised>>
  BY DEF Try, Trying
<1>2. /\ candidates \in Seq(URLs) /\ 1 \in DOMAIN candidates /\ Head(candidates) = candidates[1]
      /\ candidates[1] \in URLs /\ Tail(candidates) \in Seq(URLs)
      /\ \A i \in DOMAIN Tail(candidates) :
            i + 1 \in DOMAIN candidates /\ i + 1 # 1 /\ Tail(candidates)[i] = candidates[i + 1]
      /\ \A i, j \in DOMAIN Tail(candidates) : i + 1 = j + 1 => i = j
  BY <1>1 DEF SearchInv, SearchTypeOK
<1>3. /\ Fetching' = {candidates[1]} /\ Fetching = {}
      /\ ToSet(candidates') \subseteq ToSet(candidates) /\ candidates[1] \in ToSet(candidates)
  BY <1>1, <1>2 DEF Fetching, ToSet
<1>4. SearchTypeOK' /\ chain' # <<>>
  BY <1>1, <1>2 DEF SearchInv, SearchTypeOK
<1>5. PhaseOK' /\ SessionOK'
  BY <1>1, <1>4 DEF SearchInv, PhaseOK, SessionOK, Trying
<1>6. HostsOK'
  BY <1>1, <1>3 DEF SearchInv, HostsOK
<1>7. AllDistinct'
  <2>1. \A i, j \in DOMAIN candidates' :
           candidates'[i] = candidates'[j] => i = j \/ NamedTwice(candidates'[i])
    BY <1>1, <1>2 DEF SearchInv, AllDistinct
  <2>2. candidates[1] \in ToSet(candidates') => NamedTwice(candidates[1])
    BY <1>1, <1>2 DEF SearchInv, AllDistinct, ToSet
  <2>3. \A i \in DOMAIN tried :
           tried[i].url \in Fetching' \cup ToSet(candidates') => NamedTwice(tried[i].url)
    BY <1>1, <1>3 DEF SearchInv, AllDistinct
  <2> QED BY <1>1, <1>3, <2>1, <2>2, <2>3 DEF AllDistinct
<1>8. CredentialsStayPut'
  BY <1>1 DEF SearchInv, CredentialsStayPut, SearchIsOrderly, ChannelKept, Trying
<1> QED BY <1>4, <1>5, <1>6, <1>7, <1>8 DEF SearchInv

\* A hop moves the end of the chain, never its beginning.
LEMMA FetchHopInv == ASSUME SearchInv, NEW url \in Hops, FetchHop(url) PROVE SearchInv'
<1>1. /\ chain # <<>> /\ chain' = Append(chain, url) /\ url \in URLs /\ chain \in Seq(URLs)
      /\ UNCHANGED <<phase, confirmed, candidates, untried, session, tried, raised>>
  BY SearchAssumption DEF FetchHop, SearchInv, SearchTypeOK
<1>2. chain' \in Seq(URLs) /\ chain' # <<>> /\ chain'[1] = chain[1]
  BY <1>1
<1>3. Fetching' = Fetching
  BY <1>1, <1>2 DEF Fetching
<1>4. SearchTypeOK' /\ PhaseOK' /\ SessionOK'
  BY <1>1, <1>2 DEF SearchInv, SearchTypeOK, PhaseOK, SessionOK, Trying
<1>5. HostsOK' /\ AllDistinct'
  BY <1>1, <1>3 DEF SearchInv, HostsOK, AllDistinct, Trying
<1>6. CredentialsStayPut'
  BY <1>1 DEF SearchInv, CredentialsStayPut, SearchIsOrderly, ChannelKept
<1> QED BY <1>4, <1>5, <1>6 DEF SearchInv

\* What a fetch that ended adds to what was tried, and what it leaves to be tried.
LEMMA RecordIs ==
    ASSUME SearchInv, Connecting, NEW verdict \in Results, Record(verdict)
    PROVE  /\ Trying /\ chain # <<>> /\ chain \in Seq(URLs) /\ chain[1] \in URLs /\ chain' = <<>>
           /\ Fetching = {chain[1]} /\ Fetching' = {}
           /\ tried' \in Seq([url : URLs, result : Results]) /\ Len(tried') = Len(tried) + 1
           /\ Last(tried').result = verdict
           /\ \A i \in DOMAIN tried' :
                 \/ i \in DOMAIN tried /\ i < Len(tried') /\ tried'[i] = tried[i]
                 \/ i = Len(tried') /\ tried'[i].url = chain[1] /\ tried'[i].result = verdict
<1>1. /\ Trying /\ chain # <<>> /\ chain' = <<>>
      /\ tried' = Append(tried, [url |-> chain[1], result |-> verdict])
  BY DEF Connecting, Trying, Record
<1>2. chain \in Seq(URLs) /\ tried \in Seq([url : URLs, result : Results])
  BY DEF SearchInv, SearchTypeOK
<1>3. chain[1] \in URLs
  BY <1>1, <1>2
<1> DEFINE entry == [url |-> chain[1], result |-> verdict]
<1>4. entry \in [url : URLs, result : Results]
  BY <1>3
<1>5. entry.url = chain[1] /\ entry.result = verdict
  OBVIOUS
<1> HIDE DEF entry
<1>6. tried' = Append(tried, entry)
  BY <1>1 DEF entry
<1>7. /\ tried' \in Seq([url : URLs, result : Results]) /\ Len(tried') = Len(tried) + 1
      /\ tried'[Len(tried')] = entry
      /\ \A i \in DOMAIN tried' :
           \/ i \in DOMAIN tried /\ i < Len(tried') /\ tried'[i] = tried[i]
           \/ i = Len(tried') /\ tried'[i] = entry
  BY <1>2, <1>4, <1>6
<1>8. Last(tried').result = verdict
  BY <1>5, <1>7 DEF Last
<1>9. Fetching = {chain[1]} /\ Fetching' = {}
  BY <1>1 DEF Fetching
<1> QED BY <1>1, <1>2, <1>3, <1>5, <1>7, <1>8, <1>9

\* The hosts and the URLs of what was tried stay in order when a fetch has ended.
LEMMA RecordIsOrderly ==
    ASSUME SearchInv, Connecting, NEW verdict \in Results, Record(verdict),
           UNCHANGED <<untried, confirmed, candidates>>
    PROVE  /\ phase = "searching" \/ untried # {} \/ confirmed # {} =>
                \A i \in DOMAIN tried' : tried'[i].url.host \in InDomain \cup {t.host : t \in confirmed}
           /\ \A i, j \in DOMAIN tried' :
                 tried'[i].url = tried'[j].url => i = j \/ NamedTwice(tried'[i].url)
           /\ \A i \in DOMAIN tried' : tried'[i].url \in ToSet(candidates) => NamedTwice(tried'[i].url)
           /\ \A i \in DOMAIN tried' : tried'[i].result \in Final => i = Len(tried') /\ verdict \in Final
<1>1. /\ Trying /\ Fetching = {chain[1]}
      /\ tried' \in Seq([url : URLs, result : Results]) /\ Len(tried') = Len(tried) + 1
      /\ \A i \in DOMAIN tried' :
            \/ i \in DOMAIN tried /\ i < Len(tried') /\ tried'[i] = tried[i]
            \/ i = Len(tried') /\ tried'[i].url = chain[1] /\ tried'[i].result = verdict
  BY RecordIs
<1>2. phase = "searching" \/ untried # {} \/ confirmed # {} => phase = "searching"
  BY <1>1 DEF SearchInv, PhaseOK, Trying
<1>3. ASSUME phase = "searching", NEW i \in DOMAIN tried'
      PROVE  tried'[i].url.host \in InDomain \cup {t.host : t \in confirmed}
  <2>1. CASE i \in DOMAIN tried /\ tried'[i] = tried[i]
    BY <1>3, <2>1 DEF SearchInv, CredentialsStayPut, SearchIsOrderly
  <2>2. CASE tried'[i].url = chain[1]
    BY <1>1, <1>3, <2>2 DEF SearchInv, HostsOK
  <2> QED BY <1>1, <2>1, <2>2
<1>4. ASSUME NEW i \in DOMAIN tried', NEW j \in DOMAIN tried', tried'[i].url = tried'[j].url
      PROVE  i = j \/ NamedTwice(tried'[i].url)
  <2>1. CASE i \in DOMAIN tried /\ tried'[i] = tried[i] /\ j \in DOMAIN tried /\ tried'[j] = tried[j]
    BY <1>4, <2>1 DEF SearchInv, CredentialsStayPut, SearchIsOrderly
  <2>2. CASE i \in DOMAIN tried /\ tried'[i] = tried[i] /\ j = Len(tried') /\ tried'[j].url = chain[1]
    BY <1>1, <1>4, <2>2 DEF SearchInv, AllDistinct
  <2>3. CASE j \in DOMAIN tried /\ tried'[j] = tried[j] /\ i = Len(tried') /\ tried'[i].url = chain[1]
    BY <1>1, <1>4, <2>3 DEF SearchInv, AllDistinct
  <2> QED BY <1>1, <2>1, <2>2, <2>3
<1>5. ASSUME NEW i \in DOMAIN tried', tried'[i].url \in ToSet(candidates)
      PROVE  NamedTwice(tried'[i].url)
  BY <1>1, <1>5 DEF SearchInv, AllDistinct
<1>6. \A i \in DOMAIN tried' : tried'[i].result \in Final => i = Len(tried') /\ verdict \in Final
  BY <1>1 DEF SearchInv, PhaseOK
<1> QED BY <1>2, <1>3, <1>4, <1>5, <1>6

LEMMA MovesOnInv ==
    ASSUME SearchInv, Connecting, NEW verdict \in Results \ Final, MovesOn(verdict)
    PROVE  SearchInv'
<1>1. /\ Record(verdict) /\ UNCHANGED <<confirmed, candidates, untried, session>>
      /\ \/ candidates # <<>> /\ UNCHANGED <<phase, raised>>
         \/ phase' = "failed" /\ raised' = Failure(verdict)
  BY DEF MovesOn
<1>2. /\ Trying /\ chain' = <<>> /\ Fetching' = {}
      /\ tried' \in Seq([url : URLs, result : Results]) /\ Last(tried').result = verdict
  BY <1>1, RecordIs
<1>3. /\ phase = "searching" \/ untried # {} \/ confirmed # {} =>
                \A i \in DOMAIN tried' : tried'[i].url.host \in InDomain \cup {t.host : t \in confirmed}
      /\ \A i, j \in DOMAIN tried' :
            tried'[i].url = tried'[j].url => i = j \/ NamedTwice(tried'[i].url)
      /\ \A i \in DOMAIN tried' : tried'[i].url \in ToSet(candidates) => NamedTwice(tried'[i].url)
      /\ \A i \in DOMAIN tried' : tried'[i].result \notin Final
  BY <1>1, RecordIsOrderly
<1>4. phase' = phase \/ phase' = "failed"
  BY <1>1
<1>5. SearchTypeOK' /\ PhaseOK' /\ SessionOK'
  BY <1>1, <1>2, <1>3, <1>4 DEF SearchInv, SearchTypeOK, PhaseOK, SessionOK, Trying
<1>6. HostsOK' /\ AllDistinct'
  BY <1>1, <1>2, <1>3, <1>4 DEF SearchInv, HostsOK, AllDistinct, Trying
<1>7. SearchIsOrderly'
  <2>1. phase' = "failed" =>
          (raised' = "unconfirmed") =
             (untried' # {} /\ Last(tried').result \notin {"unauthorized", "insecure"})
    BY <1>1, <1>2 DEF Failure, Results, Final, Trying
  <2>2. ~(\E i \in DOMAIN tried' : tried'[i].result \in {"unauthorized", "insecure", "session"})
    BY <1>3 DEF Final
  <2> QED BY <1>1, <1>3, <1>4, <2>1, <2>2 DEF SearchIsOrderly
<1>8. ChannelKept'
  BY <1>1 DEF SearchInv, CredentialsStayPut, ChannelKept
<1> QED BY <1>5, <1>6, <1>7, <1>8 DEF SearchInv, CredentialsStayPut

LEMMA StopsInv ==
    ASSUME SearchInv, Connecting, NEW verdict \in {"unauthorized", "insecure"}, Stops(verdict)
    PROVE  SearchInv'
<1>1. /\ Record(verdict) /\ UNCHANGED <<confirmed, candidates, untried, session>>
      /\ phase' = "failed" /\ raised' = verdict /\ verdict \in Results
  BY DEF Stops, Results
<1>2. /\ chain' = <<>> /\ Fetching' = {}
      /\ tried' \in Seq([url : URLs, result : Results]) /\ Last(tried').result = verdict
  BY <1>1, RecordIs
<1>3. /\ phase = "searching" \/ untried # {} \/ confirmed # {} =>
                \A i \in DOMAIN tried' : tried'[i].url.host \in InDomain \cup {t.host : t \in confirmed}
      /\ \A i, j \in DOMAIN tried' :
            tried'[i].url = tried'[j].url => i = j \/ NamedTwice(tried'[i].url)
      /\ \A i \in DOMAIN tried' : tried'[i].result \in Final => i = Len(tried')
  BY <1>1, RecordIsOrderly
<1>5. SearchTypeOK' /\ PhaseOK' /\ SessionOK'
  BY <1>1, <1>2 DEF SearchInv, SearchTypeOK, PhaseOK, SessionOK, Trying
<1>6. HostsOK' /\ AllDistinct'
  BY <1>1 DEF HostsOK, AllDistinct, Trying
<1>7. SearchIsOrderly'
  BY <1>1, <1>2, <1>3 DEF SearchIsOrderly, Final
<1>8. ChannelKept'
  BY <1>1 DEF SearchInv, CredentialsStayPut, ChannelKept
<1> QED BY <1>5, <1>6, <1>7, <1>8 DEF SearchInv, CredentialsStayPut

LEMMA FetchAnsweredInv ==
    ASSUME SearchInv, FetchUnreachable \/ \E answer \in {"unauthorized", "problem", "malformed"} : FetchAnswered(answer)
    PROVE  SearchInv'
<1>1. Connecting
  BY DEF FetchUnreachable, FetchAnswered
<1>2. \/ \E verdict \in Results \ Final : MovesOn(verdict)
      \/ \E verdict \in {"unauthorized", "insecure"} : Stops(verdict)
  BY DEF FetchUnreachable, FetchAnswered, Results, Final
<1> QED BY <1>1, <1>2, MovesOnInv, StopsInv

\* A document no endpoint of which is a weaker channel than the URL it came from, which
\* is none weaker than the one it was asked for at.
LEMMA ChannelsCompose ==
    ASSUME NEW document \in Documents, NEW url \in URLs, NEW base \in URLs,
           ~Refused(document, base), ~Weaker(base, url.scheme), base.scheme # "loopback",
           NEW field \in DOMAIN document.endpoints
    PROVE  ~Weaker(Endpoint(document, field, base), url.scheme)
<1>1. /\ Endpoint(document, field, base) \in URLs
      /\ ~Weaker(Endpoint(document, field, base), base.scheme)
  BY SearchAssumption DEF Endpoint, Refused
<1>2. base.scheme \in Schemes /\ Endpoint(document, field, base).scheme \in Schemes
  BY <1>1 DEF URLs
<1> QED BY <1>1, <1>2 DEF Weaker, Schemes

LEMMA FetchSessionInv ==
    ASSUME SearchInv, NEW document \in Documents, NEW account, FetchSession(document, account)
    PROVE  SearchInv'
<1>1. Connecting
  BY DEF FetchSession
<1>2. CASE Downgraded \/ Refused(document, Last(chain))
  BY <1>1, <1>2, StopsInv DEF FetchSession
<1>3. CASE /\ ~(Downgraded \/ Refused(document, Last(chain)))
           /\ Conflicts(Resolve(document, account, Experimental))
  BY <1>1, <1>3, MovesOnInv DEF FetchSession, Results, Final
<1>4. CASE /\ ~(Downgraded \/ Refused(document, Last(chain)))
           /\ ~Conflicts(Resolve(document, account, Experimental))
  <2>1. /\ Record("session") /\ UNCHANGED <<confirmed, candidates, untried, raised>>
        /\ session' = [document |-> document, base |-> Last(chain), url |-> chain[1]]
        /\ phase' = "found" /\ "session" \in Results
    BY <1>4 DEF FetchSession, Results
  <2>2. /\ chain # <<>> /\ chain \in Seq(URLs) /\ chain[1] \in URLs /\ chain' = <<>>
        /\ tried' \in Seq([url : URLs, result : Results])
    BY <1>1, <2>1, RecordIs
  <2>3. /\ phase = "searching" \/ untried # {} \/ confirmed # {} =>
                  \A i \in DOMAIN tried' : tried'[i].url.host \in InDomain \cup {t.host : t \in confirmed}
        /\ \A i, j \in DOMAIN tried' :
              tried'[i].url = tried'[j].url => i = j \/ NamedTwice(tried'[i].url)
        /\ \A i \in DOMAIN tried' : tried'[i].result \in Final => i = Len(tried')
    BY <1>1, <2>1, RecordIsOrderly
  <2>4. /\ Last(chain) \in URLs /\ Len(chain) \in DOMAIN chain /\ Last(chain) = chain[Len(chain)]
    BY <2>2 DEF Last
  <2>5. /\ session'.document = document /\ session'.base = Last(chain) /\ session'.url = chain[1]
    BY <2>1
  <2>6. SearchTypeOK' /\ PhaseOK' /\ SessionOK'
    BY <2>1, <2>2, <2>4, <2>5 DEF SearchInv, SearchTypeOK, PhaseOK, SessionOK, Trying
  <2>7. HostsOK' /\ AllDistinct'
    BY <2>1 DEF HostsOK, AllDistinct, Trying
  <2>8. SearchIsOrderly'
    BY <2>1, <2>2, <2>3 DEF SearchIsOrderly, Final
  <2>9. ~Weaker(Last(chain), chain[1].scheme)
    BY <1>4, <2>4 DEF Downgraded
  <2>10. ChannelKept'
    BY <1>4, <2>2, <2>4, <2>5, <2>9, ChannelsCompose DEF ChannelKept
  <2> QED BY <2>6, <2>7, <2>8, <2>10 DEF SearchInv, CredentialsStayPut
<1> QED BY <1>2, <1>3, <1>4

LEMMA ReturnsInv == ASSUME SearchInv, Returns PROVE SearchInv'
<1>1. /\ phase = "found" /\ phase' = "connected" /\ UNCHANGED <<chain, session, raised>>
      /\ confirmed' = {} /\ candidates' = <<>> /\ untried' = {} /\ tried' = <<>>
  BY DEF Returns
<1>2. chain = <<>>
  BY <1>1 DEF SearchInv, PhaseOK
<1>3. SearchTypeOK' /\ PhaseOK' /\ SessionOK' /\ HostsOK' /\ AllDistinct'
  BY <1>1, <1>2
     DEF SearchInv, SearchTypeOK, PhaseOK, SessionOK, HostsOK, AllDistinct, Trying
<1>4. SearchIsOrderly' /\ ChannelKept'
  BY <1>1 DEF SearchInv, CredentialsStayPut, SearchIsOrderly, ChannelKept
<1> QED BY <1>3, <1>4 DEF SearchInv, CredentialsStayPut

\* A refetch begins where the session came from, and ends having changed it or not.
LEMMA RefetchInv ==
    ASSUME SearchInv, Refresh \/ RefreshFails
    PROVE  SearchInv'
<1>1. /\ phase = "connected"
      /\ chain' = <<session.url>> \/ chain' = <<>>
      /\ UNCHANGED <<phase, confirmed, candidates, untried, session, tried, raised>>
  BY DEF Refresh, RefreshFails, Connected
<1>2. session.url \in URLs
  BY <1>1 DEF SearchInv, SessionOK
<1>5. chain' \in Seq(URLs) /\ (chain' # <<>> => chain'[1] = session.url)
  <2>1. <<session.url>> \in Seq(URLs) /\ <<session.url>>[1] = session.url
    BY <1>2
  <2>2. <<>> \in Seq(URLs)
    OBVIOUS
  <2> QED BY <1>1, <2>1, <2>2
<1>3. SearchTypeOK' /\ PhaseOK' /\ SessionOK' /\ HostsOK' /\ AllDistinct'
  BY <1>1, <1>5
     DEF SearchInv, SearchTypeOK, PhaseOK, SessionOK, HostsOK, AllDistinct, Trying
<1>4. CredentialsStayPut'
  BY <1>1 DEF SearchInv, CredentialsStayPut, SearchIsOrderly, ChannelKept
<1> QED BY <1>3, <1>4 DEF SearchInv

LEMMA RefreshAnsweredInv ==
    ASSUME SearchInv, NEW document \in Documents, RefreshAnswered(document)
    PROVE  SearchInv'
<1>1. /\ phase = "connected" /\ chain # <<>> /\ chain' = <<>>
      /\ ~Downgraded /\ ~Refused(document, Last(chain))
      /\ session' = [document |-> document, base |-> Last(chain), url |-> session.url]
      /\ UNCHANGED <<phase, confirmed, candidates, untried, tried, raised>>
  BY DEF RefreshAnswered, Connected
<1>2. session'.document = document /\ session'.base = Last(chain) /\ session'.url = session.url
  BY <1>1
<1>3. /\ session.url \in URLs /\ chain[1] = session.url /\ chain \in Seq(URLs)
  BY <1>1 DEF SearchInv, SessionOK, SearchTypeOK
<1>4. Last(chain) \in URLs /\ Len(chain) \in DOMAIN chain /\ Last(chain) = chain[Len(chain)]
  BY <1>1, <1>3 DEF Last
<1>5. SearchTypeOK' /\ PhaseOK' /\ SessionOK' /\ HostsOK' /\ AllDistinct'
  BY <1>1, <1>2, <1>3, <1>4
     DEF SearchInv, SearchTypeOK, PhaseOK, SessionOK, HostsOK, AllDistinct, Trying
<1>6. SearchIsOrderly'
  BY <1>1 DEF SearchInv, CredentialsStayPut, SearchIsOrderly
<1>7. ~Weaker(Last(chain), session.url.scheme)
  BY <1>1, <1>3, <1>4 DEF Downgraded
<1>8. ChannelKept'
  BY <1>1, <1>2, <1>3, <1>4, <1>7, ChannelsCompose DEF ChannelKept
<1> QED BY <1>5, <1>6, <1>8 DEF SearchInv, CredentialsStayPut

LEMMA SearchUnchanged == ASSUME SearchInv, UNCHANGED searchVars PROVE SearchInv'
BY DEF searchVars, SearchInv, SearchTypeOK, PhaseOK, SessionOK, HostsOK, AllDistinct, Trying,
       Fetching, CredentialsStayPut, SearchIsOrderly, ChannelKept

\* Steps of a connected client that leave what it searched alone.
LEMMA ClientSteps ==
    ASSUME \/ OpenBatch \/ Abandon \/ ExecuteFails
           \/ \E call \in Calls : Add(call)
           \/ \E extra \in Extra : Execute(extra)
           \/ \E state \in States : Absorb(state)
           \/ \E named \in AccountIds : Download(named) \/ \E size \in Sizes : Upload(named, size)
           \/ ChunkNext /\ UNCHANGED <<searchVars, clientVars>>
    PROVE  UNCHANGED searchVars
BY DEF OpenBatch, Abandon, ExecuteFails, Add, Execute, Absorb, Download, Upload, Blob

LEMMA SearchNextInv == ASSUME SearchInv, [Next]_vars PROVE SearchInv'
<1>1. CASE SearchNext
  BY <1>1, DiscoverInv, ConnectInv, TryInv, FetchHopInv, FetchAnsweredInv DEF SearchNext
<1>2. CASE \E document \in Documents, named \in AccountIds : Connects(document, named)
  BY <1>2, FetchSessionInv DEF Connects
<1>3. CASE Returns
  BY <1>3, ReturnsInv
<1>4. CASE Refresh \/ RefreshFails
  BY <1>4, RefetchInv
<1>5. CASE \E document \in Documents : RefreshAnswered(document)
  BY <1>5, RefreshAnsweredInv
<1>6. CASE UNCHANGED searchVars
  BY <1>6, SearchUnchanged
<1>7. UNCHANGED vars => UNCHANGED searchVars
  BY DEF vars
<1> QED BY <1>1, <1>2, <1>3, <1>4, <1>5, <1>6, <1>7, ClientSteps DEF Next

\* Credentials go where the caller let them, for any DNS answer, documents and redirects
\* (discovery.py, _fetch_session, check_session_redirects): SearchInv is inductive because
\* it speaks of the URLs still to be tried as it does of those that were.
THEOREM CredentialsAreKept == Spec => []CredentialsStayPut
<1>1. Init => SearchInv
  BY SearchInit0
<1>2. SearchInv /\ [Next]_vars => SearchInv'
  BY SearchNextInv
<1>3. SearchInv => CredentialsStayPut
  BY DEF SearchInv
<1> QED BY <1>1, <1>2, <1>3, PTL DEF Spec

-----------------------------------------------------------------------------
(* The session a client holds is the one it knows the state of *)

StalenessInv ==
    /\ phase # "connected" =>
         noticed = {} /\ out = 0 /\ session_stale = FALSE /\ batch = NoBatch
    /\ phase = "found" => capabilities.document = session.document
    /\ Connected /\ chain # <<>> => session_stale
    /\ StalenessKept

LEMMA StalenessInit == Init => StalenessInv
BY DEF Init, SearchInit, StalenessInv, StalenessKept, Connected

\* A search changes nothing of what a client holds, and a client that is connected does
\* not search.
LEMMA StalenessSearch ==
    ASSUME SearchInv, StalenessInv, SearchNext, UNCHANGED <<clientVars, chunkVars>>
    PROVE  StalenessInv'
<1>1. UNCHANGED <<capabilities, session_stale, noticed, out>>
  BY DEF clientVars
<1>4. UNCHANGED batch
  BY DEF clientVars
<1>2. CASE \E url \in Hops : FetchHop(url)
  <2>1. chain # <<>> /\ UNCHANGED <<phase, session>>
    BY <1>2 DEF FetchHop
  <2> QED BY <1>1, <1>4, <2>1 DEF StalenessInv, StalenessKept, Connected
<1>3. CASE ~(\E url \in Hops : FetchHop(url))
  <2>1. phase # "connected" /\ phase' \notin {"connected", "found"}
    BY <1>3 DEF SearchNext, Discover, Connect, Try, FetchUnreachable, FetchAnswered, Stops, MovesOn,
                Connecting
  <2> QED BY <1>1, <1>4, <2>1 DEF StalenessInv, StalenessKept, Connected
<1> QED BY <1>2, <1>3

LEMMA StalenessConnects ==
    ASSUME SearchInv, StalenessInv, NEW document \in Documents, NEW named, Connects(document, named)
    PROVE  StalenessInv'
<1> DEFINE account == DefaultAccount(document, named)
<1>1. /\ UNCHANGED <<session_stale, noticed, out, batch>> /\ FetchSession(document, account)
      /\ phase' = "found" => capabilities' = Active(document, account)
  BY DEF Connects
<1>2. phase # "connected" /\ phase' # "connected"
  BY <1>1 DEF FetchSession, Stops, MovesOn, Connecting
<1>3. phase' = "found" => session'.document = document
  BY <1>1 DEF FetchSession, Stops, MovesOn, Connecting
<1>4. phase' = "found" => capabilities'.document = document
  BY <1>1 DEF Active
<1> QED BY <1>1, <1>2, <1>3, <1>4 DEF StalenessInv, StalenessKept, Connected

\* A session that replaces another brings its capabilities along, or the flag stays up.
LEMMA StalenessRefreshed ==
    ASSUME StalenessInv, NEW document \in Documents, RefreshAnswered(document)
    PROVE  StalenessInv'
<1>1. /\ phase = "connected" /\ phase' = "connected" /\ chain # <<>> /\ chain' = <<>>
      /\ session'.document = document /\ session_stale
  BY DEF RefreshAnswered, Connected, StalenessInv
<1>2. CASE Conflicts(Resolve(document, capabilities.account, Experimental))
  BY <1>1, <1>2 DEF RefreshAnswered, StalenessInv, StalenessKept, Connected
<1>3. CASE ~Conflicts(Resolve(document, capabilities.account, Experimental))
  <2>1. noticed' = {} /\ capabilities' = Active(document, capabilities.account)
    BY <1>3 DEF RefreshAnswered
  <2>2. capabilities'.document = document
    BY <2>1 DEF Active
  <2> QED BY <1>1, <2>1, <2>2 DEF StalenessInv, StalenessKept, Connected
<1> QED BY <1>2, <1>3

\* An answer that names another state puts the flag up, however late it comes.
LEMMA StalenessAbsorbed ==
    ASSUME StalenessInv, NEW state, Absorb(state)
    PROVE  StalenessInv'
<1>1. /\ out > 0 /\ session_stale' = StaleAfter(state) /\ noticed' = noticed \cup ({state} \ {""})
      /\ UNCHANGED <<capabilities, searchVars>>
  BY DEF Absorb
<1>6. out # 0
  <2> SUFFICES ASSUME out = 0 PROVE FALSE
    OBVIOUS
  <2>1. 0 > 0
    BY DEF Absorb
  <2> QED BY <2>1
<1>2. phase = "connected"
  BY <1>6 DEF StalenessInv
<1>5. UNCHANGED <<phase, chain, session>>
  BY <1>1 DEF searchVars
<1>3. CASE session_stale'
  BY <1>1, <1>2, <1>3, <1>5 DEF StalenessInv, StalenessKept, Connected
<1>4. CASE ~session_stale'
  <2>1. ~session_stale /\ ~IsStale(state)
    BY <1>1, <1>4 DEF StaleAfter
  <2>2. session.document.state # "" => noticed' \subseteq {session.document.state}
    BY <1>1, <1>2, <1>5, <2>1 DEF StalenessInv, StalenessKept, IsStale
  <2>3. chain = <<>>
    BY <1>2, <2>1 DEF StalenessInv, Connected
  <2> QED BY <1>1, <1>2, <1>5, <2>1, <2>2, <2>3 DEF StalenessInv, StalenessKept, Connected
<1> QED BY <1>3, <1>4

\* The other steps do not touch what the flag is about.
LEMMA StalenessSame ==
    ASSUME StalenessInv, UNCHANGED <<searchVars, capabilities, session_stale, noticed>>,
           UNCHANGED <<out, batch>> \/ phase = "connected"
    PROVE  StalenessInv'
BY DEF searchVars, StalenessInv, StalenessKept, Connected

LEMMA StalenessNext == ASSUME SearchInv, StalenessInv, [Next]_vars PROVE StalenessInv'
<1>1. CASE SearchNext /\ UNCHANGED <<clientVars, chunkVars>>
  BY <1>1, StalenessSearch
<1>2. CASE \E document \in Documents, named \in AccountIds : Connects(document, named)
  BY <1>2, StalenessConnects
<1>3. CASE Returns
  BY <1>3 DEF Returns, SearchInv, PhaseOK, clientVars, StalenessInv, StalenessKept, Connected
<1>4. CASE Refresh \/ RefreshFails
  BY <1>4 DEF Refresh, RefreshFails, clientVars, StalenessInv, StalenessKept, Connected
<1>5. CASE \E document \in Documents : RefreshAnswered(document)
  BY <1>5, StalenessRefreshed
<1>6. CASE \E state \in States : Absorb(state)
  BY <1>6, StalenessAbsorbed
<1>7. CASE ExecuteFails \/ \E extra \in Extra : Execute(extra)
  <2>1. UNCHANGED <<searchVars, capabilities, session_stale, noticed>>
    BY <1>7 DEF ExecuteFails, Execute
  <2>2. out # 0 \/ batch.calls # <<>>
    BY <1>7 DEF ExecuteFails, Execute
  <2>3. phase = "connected"
    BY <2>2 DEF StalenessInv, NoBatch
  <2> QED BY <2>1, <2>3, StalenessSame
<1>8. CASE \/ OpenBatch \/ Abandon \/ \E call \in Calls : Add(call)
           \/ \E named \in AccountIds : Download(named) \/ \E size \in Sizes : Upload(named, size)
           \/ (ChunkNext /\ UNCHANGED <<searchVars, clientVars>>) \/ UNCHANGED vars
  <2>1. UNCHANGED <<searchVars, capabilities, session_stale, noticed, out>>
    BY <1>8 DEF OpenBatch, Abandon, Add, Download, Upload, Blob, clientVars, vars
  <2>2. UNCHANGED batch \/ phase = "connected"
    BY <1>8 DEF OpenBatch, Abandon, Add, Download, Upload, Blob, clientVars, vars, Connected, StalenessInv
  <2> QED BY <2>1, <2>2, StalenessSame
<1> QED BY <1>1, <1>2, <1>3, <1>4, <1>5, <1>6, <1>7, <1>8 DEF Next

\* The client does not forget that it is out of date (session_is_stale, refresh_session),
\* whatever the order of answers and refetches.
THEOREM StalenessIsKept == Spec => []StalenessKept
<1>1. Init => SearchInv /\ StalenessInv
  BY SearchInit0, StalenessInit
<1>2. SearchInv /\ StalenessInv /\ [Next]_vars => SearchInv' /\ StalenessInv'
  BY SearchNextInv, StalenessNext
<1>3. StalenessInv => StalenessKept
  BY DEF StalenessInv
<1> QED BY <1>1, <1>2, <1>3, PTL DEF Spec

-----------------------------------------------------------------------------
(* Whole reads: what becomes of a list of ids that is split and put together *)

\* A set of natural numbers has a least element, which is induction over them; and one
\* that is bounded has a greatest.
LEMMA Least ==
    ASSUME NEW T \in SUBSET Nat, T # {}
    PROVE  \E n \in T : \A m \in T : n <= m
<1>1. PICK n \in T : \A m \in T : ~(<<m, n>> \in OpToRel(<, Nat))
  BY WFMin, NatLessThanWellFounded
<1>2. \A m \in T : ~(m < n)
  BY <1>1 DEF OpToRel
<1> QED BY <1>2

LEMMA Greatest ==
    ASSUME NEW n \in Nat, NEW T \in SUBSET (0 .. n), T # {}
    PROVE  \E m \in T : \A k \in T : k <= m
<1> DEFINE U == {j \in 0 .. n : n - j \in T}
<1>1. U \in SUBSET Nat /\ U # {}
  <2>1. PICK m \in T : TRUE
    OBVIOUS
  <2>2. n - m \in 0 .. n /\ n - (n - m) = m
    BY <2>1
  <2>3. n - m \in U
    BY <2>1, <2>2
  <2> QED BY <2>3
<1>2. PICK j \in U : \A i \in U : j <= i
  <2> HIDE DEF U
  <2> QED BY <1>1, Least
<1>3. n - j \in T /\ j \in 0 .. n
  BY <1>2
<1>4. \A k \in T : n - k \in U /\ k \in 0 .. n
  <2> SUFFICES ASSUME NEW k \in T PROVE n - k \in 0 .. n /\ n - (n - k) = k /\ k \in 0 .. n
    OBVIOUS
  <2> QED OBVIOUS
<1>5. \A k \in T : k <= n - j
  <2> HIDE DEF U
  <2> QED BY <1>2, <1>3, <1>4
<1> QED BY <1>3, <1>5

\* A set of places in a sequence can be put in order.
LEMMA PlacesInOrder ==
    ASSUME NEW n \in Nat, NEW F, F \subseteq 1 .. n
    PROVE  /\ Cardinality(F) \in Nat /\ IsFiniteSet(F)
           /\ \E order \in [1 .. Cardinality(F) -> F] :
                \A i, j \in DOMAIN order : i < j => order[i] < order[j]
<1> DEFINE R == {pair \in F \X F : pair[1] < pair[2]}
<1>1. IsFiniteSet(1 .. n)
  BY FS_Interval
<1>2. IsFiniteSet(F) /\ Cardinality(F) \in Nat
  BY <1>1, FS_Subset, FS_CardinalityType
<1>3. \A x, y \in F : <<x, y>> \in R <=> x < y
  OBVIOUS
<1> HIDE DEF R
<1>4. \A x \in F : <<x, x>> \notin R
  BY <1>3
<1>8. \A x, y, z \in F : <<x, y>> \in R /\ <<y, z>> \in R => <<x, z>> \in R
  BY <1>3
<1>9. \A x, y \in F : x # y => <<x, y>> \in R \/ <<y, x>> \in R
  BY <1>3
<1>7. IsFiniteSet(F)
  BY <1>2
<1>5. \E order \in [1 .. Cardinality(F) -> F] :
         \A i, j \in DOMAIN order : i < j => <<order[i], order[j]>> \in R
  BY ONLY <1>4, <1>7, <1>8, <1>9, Enumeration
<1>6. \E order \in [1 .. Cardinality(F) -> F] :
         \A i, j \in DOMAIN order : i < j => order[i] < order[j]
  BY <1>3, <1>5
<1> QED BY <1>2, <1>6

\* What Unique chooses is an order of the first places.
LEMMA FirstsInOrder ==
    ASSUME NEW ids, ids \in Seq(ToSet(ids))
    PROVE  \E F : \E order \in [1 .. Cardinality(F) -> F] :
              /\ F = Firsts(ids) /\ F \subseteq 1 .. Len(ids)
              /\ Cardinality(F) \in Nat /\ IsFiniteSet(F)
              /\ \A i, j \in DOMAIN order : i < j => order[i] < order[j]
              /\ Unique(ids) = [n \in DOMAIN order |-> ids[order[n]]]
<1> DEFINE F == Firsts(ids)
           order == CHOOSE order \in [1 .. Cardinality(F) -> F] :
                      \A i, j \in DOMAIN order : i < j => order[i] < order[j]
<1>1. Len(ids) \in Nat /\ F \in SUBSET (1 .. Len(ids))
  BY DEF Firsts
<1>2. Unique(ids) = [n \in DOMAIN order |-> ids[order[n]]]
  BY DEF Unique
<1> HIDE DEF F
<1>3. /\ Cardinality(F) \in Nat /\ IsFiniteSet(F)
      /\ \E o \in [1 .. Cardinality(F) -> F] : \A i, j \in DOMAIN o : i < j => o[i] < o[j]
  BY <1>1, PlacesInOrder
<1>4. /\ order \in [1 .. Cardinality(F) -> F]
      /\ \A i, j \in DOMAIN order : i < j => order[i] < order[j]
  BY <1>3
<1> HIDE DEF order
<1> QED BY <1>1, <1>2, <1>3, <1>4 DEF F

\* Every id is kept, and none twice (dict.fromkeys).
LEMMA UniqueIs ==
    ASSUME NEW ids, ids \in Seq(ToSet(ids))
    PROVE  /\ Unique(ids) \in Seq(ToSet(ids)) /\ ToSet(Unique(ids)) = ToSet(ids)
           /\ \A i, j \in DOMAIN Unique(ids) : Unique(ids)[i] = Unique(ids)[j] => i = j
           /\ IsFiniteSet(ToSet(ids)) /\ Cardinality(ToSet(ids)) = Len(Unique(ids))
<1> DEFINE u == Unique(ids)
<1>1. PICK F : \E order \in [1 .. Cardinality(F) -> F] :
              /\ F = Firsts(ids) /\ F \subseteq 1 .. Len(ids)
              /\ Cardinality(F) \in Nat /\ IsFiniteSet(F)
              /\ \A i, j \in DOMAIN order : i < j => order[i] < order[j]
              /\ u = [n \in DOMAIN order |-> ids[order[n]]]
  BY FirstsInOrder
<1>2. PICK order \in [1 .. Cardinality(F) -> F] :
            /\ \A i, j \in DOMAIN order : i < j => order[i] < order[j]
            /\ u = [n \in DOMAIN order |-> ids[order[n]]]
  BY <1>1
<1>15. F = Firsts(ids)
  BY <1>1
<1>16. PICK c \in Nat : c = Cardinality(F)
  BY <1>1
<1>3. \A i, j \in F : ids[i] = ids[j] => i = j
  <2> SUFFICES ASSUME NEW i \in F, NEW j \in F, i < j PROVE ids[i] # ids[j]
    BY <1>1
  <2> QED BY <1>1, <1>15 DEF Firsts
<1>4. \A x \in ToSet(ids) : \E i \in F : ids[i] = x
  <2> SUFFICES ASSUME NEW x \in ToSet(ids) PROVE \E i \in F : ids[i] = x
    OBVIOUS
  <2> DEFINE T == {i \in DOMAIN ids : ids[i] = x}
  <2>1. T \in SUBSET Nat /\ T # {} /\ DOMAIN ids = 1 .. Len(ids)
    BY DEF ToSet
  <2>2. PICK i \in T : \A j \in T : i <= j
    <3> HIDE DEF T
    <3> QED BY <2>1, Least
  <2>3. \A j \in 1 .. i - 1 : ids[j] # ids[i]
    BY <2>1, <2>2
  <2> QED BY <1>15, <2>2, <2>3 DEF Firsts
<1> HIDE DEF u
<1>5. \A i, j \in 1 .. c : i < j => order[i] < order[j]
  BY <1>2, <1>16
<1>6. \A i, j \in 1 .. c : order[i] = order[j] => i = j
  <2> SUFFICES ASSUME NEW i \in 1 .. c, NEW j \in 1 .. c, i # j PROVE order[i] # order[j]
    OBVIOUS
  <2>1. order[i] \in F /\ order[j] \in F /\ (i < j \/ j < i)
    BY <1>2, <1>16
  <2>2. F \subseteq Nat
    BY <1>1
  <2>3. order[i] < order[j] \/ order[j] < order[i]
    BY <1>5, <2>1
  <2>4. order[i] \in Nat /\ order[j] \in Nat
    BY <2>1, <2>2
  <2> QED BY ONLY <2>3, <2>4
<1>7. \A i \in F : \E n \in 1 .. c : order[n] = i
  <2>1. order \in Injection(1 .. c, F)
    BY <1>2, <1>6, <1>16 DEF Injection, IsInjective
  <2>2. Cardinality(1 .. c) = Cardinality(F)
    BY <1>16, FS_Interval
  <2>3. order \in Surjection(1 .. c, F)
    BY <1>1, <2>1, <2>2, FS_Injection
  <2> QED BY <2>3 DEF Surjection
<1>8. DOMAIN u = 1 .. c /\ \A n \in 1 .. c : order[n] \in F /\ u[n] = ids[order[n]] /\ u[n] \in ToSet(ids)
  <2>1. DOMAIN order = 1 .. c /\ DOMAIN ids = 1 .. Len(ids)
    BY <1>2, <1>16
  <2> QED BY <1>1, <1>2, <2>1 DEF ToSet
<1>9. u \in [1 .. c -> ToSet(ids)]
  <2>1. u = [n \in 1 .. c |-> ids[order[n]]]
    BY <1>2, <1>16
  <2> QED BY <1>8, <2>1
<1>10. u \in Seq(ToSet(ids)) /\ Len(u) = c
  BY <1>9
<1>11. \A i, j \in DOMAIN u : u[i] = u[j] => i = j
  BY <1>3, <1>6, <1>8
<1>12. \A x \in ToSet(ids) : \E n \in 1 .. c : u[n] = x
  BY <1>4, <1>7, <1>8
<1>13. ToSet(u) = ToSet(ids)
  <2>1. ToSet(u) = {u[n] : n \in 1 .. c}
    BY <1>8 DEF ToSet
  <2>2. \A x \in ToSet(u) : x \in ToSet(ids)
    BY <1>8, <2>1
  <2>3. \A x \in ToSet(ids) : x \in ToSet(u)
    BY <1>12, <2>1
  <2> QED BY ONLY <2>2, <2>3
<1>14. IsFiniteSet(ToSet(ids)) /\ Cardinality(ToSet(ids)) = c
  <2>1. u \in Bijection(1 .. c, ToSet(ids))
    BY <1>8, <1>9, <1>11, <1>12 DEF Bijection, Injection, Surjection, IsInjective
  <2>2. IsFiniteSet(1 .. c) /\ Cardinality(1 .. c) = c
    BY FS_Interval
  <2> QED BY <2>1, <2>2, FS_Bijection DEF ExistsBijection
<1> QED BY <1>10, <1>11, <1>13, <1>14 DEF u

\* A list without repeats stays as it is: an increasing sequence of all the places from 1
\* to n can neither fall behind nor run ahead.
LEMMA UniqueOfDistinct ==
    ASSUME NEW ids, ids \in Seq(ToSet(ids)), \A i, j \in DOMAIN ids : ids[i] = ids[j] => i = j
    PROVE  Unique(ids) = ids
<1>1. PICK n \in Nat : n = Len(ids) /\ DOMAIN ids = 1 .. n
  OBVIOUS
<1>2. Firsts(ids) = 1 .. n
  BY <1>1 DEF Firsts
<1>3. Cardinality(1 .. n) = n
  BY FS_Interval
<1>4. PICK order \in [1 .. n -> 1 .. n] :
            /\ \A i, j \in DOMAIN order : i < j => order[i] < order[j]
            /\ Unique(ids) = [k \in DOMAIN order |-> ids[order[k]]]
  <2>1. PICK F : \E order \in [1 .. Cardinality(F) -> F] :
                    /\ F = Firsts(ids)
                    /\ \A i, j \in DOMAIN order : i < j => order[i] < order[j]
                    /\ Unique(ids) = [k \in DOMAIN order |-> ids[order[k]]]
    BY FirstsInOrder
  <2>2. F = 1 .. n /\ Cardinality(F) = n
    BY <1>2, <1>3, <2>1
  <2> QED BY ONLY <2>1, <2>2
<1>5. \A i, j \in 1 .. n : i < j => order[i] < order[j]
  BY <1>4
<1>6. \A i \in 1 .. n : order[i] \in 1 .. n
  BY <1>4
<1>7. \A i \in 1 .. n : order[i] >= i
  <2> DEFINE T == {i \in 1 .. n : order[i] < i}
  <2> SUFFICES ASSUME NEW k \in 1 .. n, order[k] < k PROVE FALSE
    <3>1. \A i \in 1 .. n : i \in Int /\ order[i] \in Int
      BY <1>6
    <3> QED BY <3>1
  <2>5. k \in T
    OBVIOUS
  <2>1. PICK i \in T : \A j \in T : i <= j
    <3>1. T \in SUBSET Nat
      OBVIOUS
    <3> HIDE DEF T
    <3> QED BY <2>5, <3>1, Least
  <2>2. order[i] \in 1 .. n /\ order[i] < i /\ i \in 1 .. n
    BY <1>6, <2>1
  <2>3. order[order[i]] < order[i]
    BY <1>5, <2>2
  <2>4. order[i] \in T
    BY <2>2, <2>3
  <2> QED BY <2>1, <2>2, <2>4
<1>8. \A i \in 1 .. n : order[i] <= i
  <2> DEFINE T == {i \in 1 .. n : order[i] > i}
  <2> SUFFICES ASSUME NEW k \in 1 .. n, order[k] > k PROVE FALSE
    <3>1. \A i \in 1 .. n : i \in Int /\ order[i] \in Int
      BY <1>6
    <3> QED BY <3>1
  <2>5. k \in T
    OBVIOUS
  <2>1. PICK i \in T : \A j \in T : j <= i
    <3>1. T \in SUBSET (0 .. n)
      OBVIOUS
    <3> HIDE DEF T
    <3> QED BY <2>5, <3>1, Greatest
  <2>2. order[i] \in 1 .. n /\ order[i] > i /\ i \in 1 .. n
    BY <1>6, <2>1
  <2>3. order[order[i]] > order[i]
    BY <1>5, <2>2
  <2>4. order[i] \in T
    BY <2>2, <2>3
  <2> QED BY <2>1, <2>2, <2>4
<1>9. \A i \in 1 .. n : order[i] = i
  BY <1>6, <1>7, <1>8
<1>10. Unique(ids) = [k \in 1 .. n |-> ids[k]]
  BY <1>4, <1>9
<1>11. ids = [k \in 1 .. n |-> ids[k]]
  BY <1>1
<1> QED BY <1>10, <1>11

\* What FlattenSeq gives is whatever satisfies its recursion: two functions that do agree at
\* the least place where they could differ.
Flattens(g, seqs) ==
    /\ Len(seqs) \in Nat \ {0}
    /\ g = [i \in 1 .. Len(seqs) |-> IF i = 1 THEN seqs[i] ELSE g[i - 1] \o seqs[i]]

LEMMA Flattened ==
    ASSUME NEW seqs, NEW g, Flattens(g, seqs)
    PROVE  FlattenSeq(seqs) = g[Len(seqs)]
<1>6. PICK k \in Nat \ {0} : k = Len(seqs)
  BY DEF Flattens
<1> DEFINE Step(f, i) == IF i = 1 THEN seqs[i] ELSE f[i - 1] \o seqs[i]
           flatten == CHOOSE f : f = [i \in 1 .. k |-> Step(f, i)]
<1>1. FlattenSeq(seqs) = flatten[k]
  BY <1>6 DEF FlattenSeq
<1>2. g = [i \in 1 .. k |-> Step(g, i)]
  BY <1>6 DEF Flattens
<1> HIDE DEF Step
<1>3. flatten = [i \in 1 .. k |-> Step(flatten, i)]
  BY <1>2
<1> HIDE DEF flatten
<1> DEFINE T == {i \in 1 .. k : flatten[i] # g[i]}
<1>4. ASSUME T # {} PROVE FALSE
  <2>1. PICK i \in T : \A j \in T : i <= j
    <3>1. T \in SUBSET Nat
      OBVIOUS
    <3> HIDE DEF T
    <3> QED BY <1>4, <3>1, Least
  <2>2. i \in 1 .. k /\ flatten[i] # g[i]
    BY <2>1
  <2>3. flatten[i] = Step(flatten, i) /\ g[i] = Step(g, i)
    BY <1>2, <1>3, <2>2
  <2>4. CASE i = 1
    BY <2>2, <2>3, <2>4 DEF Step
  <2>5. CASE i # 1
    <3>1. i - 1 \in 1 .. k /\ i - 1 \notin T
      BY <2>1, <2>2, <2>5
    <3>2. flatten[i - 1] = g[i - 1]
      BY <3>1
    <3> QED BY <2>2, <2>3, <3>2 DEF Step
  <2> QED BY <2>4, <2>5
<1>5. flatten[k] = g[k]
  BY <1>4
<1> QED BY <1>1, <1>5, <1>6

\* A sequence is one over its own elements.
LEMMA SeqOfItsElements == ASSUME NEW S, NEW s \in Seq(S) PROVE s \in Seq(ToSet(s))
<1>1. Len(s) \in Nat /\ DOMAIN s = 1 .. Len(s) /\ s = [i \in 1 .. Len(s) |-> s[i]]
  OBVIOUS
<1>2. s \in [1 .. Len(s) -> ToSet(s)]
  BY <1>1 DEF ToSet
<1> QED BY <1>1, <1>2

\* The calls an oversized read becomes: none names more ids than the limit, none an id
\* twice, and put end to end they are the ids without their repeats.
LEMMA Pieces ==
    ASSUME NEW ids, ids \in Seq(ToSet(ids)), NEW limit \in Nat \ {0}, NEW u, u = Unique(ids),
           Len(u) > limit, NEW calls, calls = CallsFor(ids, limit)
    PROVE  /\ calls \in Seq(Seq(ToSet(ids))) /\ calls # <<>>
           /\ \A i \in DOMAIN calls :
                /\ Len(calls[i]) <= limit
                /\ calls[i] \in Seq(ToSet(calls[i])) /\ Unique(calls[i]) = calls[i]
           /\ FlattenSeq(calls) = u
<1> DEFINE L == Len(u)
           end(i) == IF i * limit < L THEN i * limit ELSE L
           piece(i) == SubSeq(u, (i - 1) * limit + 1, end(i))
<1>1. /\ u \in Seq(ToSet(ids)) /\ L \in Nat /\ DOMAIN u = 1 .. L
      /\ \A i, j \in DOMAIN u : u[i] = u[j] => i = j
  BY UniqueIs
<1>2. PICK k : k = (L + limit - 1) \div limit
  OBVIOUS
<1>3. calls = [i \in 1 .. k |-> piece(i)]
  BY <1>2 DEF CallsFor
<1> HIDE DEF L
<1>4. k \in Nat /\ k * limit >= L /\ (k - 1) * limit < L
  BY <1>1, <1>2
<1>5. k # 0
  BY <1>1, <1>4 DEF L
<1>6. \A i \in 1 .. k : /\ (i - 1) * limit \in Nat /\ i * limit \in Nat
                        /\ i * limit = (i - 1) * limit + limit
                        /\ (i - 1) * limit < L
                        /\ end(i) \in Nat /\ (i - 1) * limit <= end(i) /\ end(i) <= L
                        /\ end(i) - (i - 1) * limit <= limit
  <2> SUFFICES ASSUME NEW i \in 1 .. k
      PROVE  /\ (i - 1) * limit \in Nat /\ i * limit \in Nat
             /\ i * limit = (i - 1) * limit + limit /\ (i - 1) * limit < L
             /\ end(i) \in Nat /\ (i - 1) * limit <= end(i) /\ end(i) <= L
             /\ end(i) - (i - 1) * limit <= limit
    OBVIOUS
  <2>1. i - 1 \in Nat /\ k - 1 \in Nat /\ i - 1 <= k - 1 /\ i \in Nat
    BY <1>4
  <2>2. (i - 1) * limit \in Nat /\ i * limit \in Nat /\ i * limit = (i - 1) * limit + limit
    BY <2>1
  <2>3. (i - 1) * limit <= (k - 1) * limit /\ (k - 1) * limit \in Nat
    BY <2>1
  <2>4. (i - 1) * limit < L
    BY <1>1, <1>4, <2>2, <2>3
  <2> QED BY <1>1, <2>2, <2>4
<1>7. \A i \in 1 .. k : i # k => end(i) = i * limit
  <2> SUFFICES ASSUME NEW i \in 1 .. k, i # k PROVE i * limit < L
    OBVIOUS
  <2>1. i + 1 \in 1 .. k /\ (i + 1) - 1 = i
    BY <1>4
  <2> QED BY <1>6, <2>1
<1>8. end(k) = L
  BY <1>1, <1>4, <1>6
<1>9. \A i \in 1 .. k : /\ piece(i) \in Seq(ToSet(ids))
                        /\ Len(piece(i)) = end(i) - (i - 1) * limit
                        /\ \A j \in DOMAIN piece(i) :
                              /\ j + (i - 1) * limit \in DOMAIN u
                              /\ piece(i)[j] = u[j + (i - 1) * limit]
  <2> SUFFICES ASSUME NEW i \in 1 .. k
      PROVE  /\ piece(i) \in Seq(ToSet(ids)) /\ Len(piece(i)) = end(i) - (i - 1) * limit
             /\ \A j \in DOMAIN piece(i) : /\ j + (i - 1) * limit \in DOMAIN u
                                           /\ piece(i)[j] = u[j + (i - 1) * limit]
    OBVIOUS
  <2>1. PICK a \in Nat : a = (i - 1) * limit
    BY <1>6
  <2>2. PICK b \in Nat : b = end(i) /\ a <= b /\ b <= L
    BY <1>6, <2>1
  <2>3. piece(i) = SubSeq(u, a + 1, b)
    BY <2>1, <2>2
  <2> HIDE DEF piece, end
  <2>4. \A j \in a + 1 .. b : j \in 1 .. L /\ u[j] \in ToSet(ids)
    BY <1>1, <2>2
  <2>5. /\ piece(i) \in Seq(ToSet(ids)) /\ Len(piece(i)) = b - a
        /\ \A j \in 1 .. b - a : piece(i)[j] = u[a + j]
    <3>1. /\ SubSeq(u, a + 1, b) \in Seq(ToSet(ids))
          /\ Len(SubSeq(u, a + 1, b)) = IF a + 1 <= b THEN b - (a + 1) + 1 ELSE 0
          /\ \A j \in 1 .. b - (a + 1) + 1 : SubSeq(u, a + 1, b)[j] = u[a + 1 + j - 1]
      BY <2>4, SubSeqProperties
    <3>2. \A j \in 1 .. b - a : j \in 1 .. b - (a + 1) + 1 /\ a + 1 + j - 1 = a + j
      BY <2>2
    <3>3. Len(SubSeq(u, a + 1, b)) = b - a
      BY <2>2, <3>1
    <3> QED BY <2>3, <3>1, <3>2, <3>3
  <2>6. \A j \in DOMAIN piece(i) : j \in 1 .. b - a /\ j + a \in 1 .. L /\ a + j = j + a
    BY <1>1, <2>2, <2>5
  <2> QED BY <1>1, <2>1, <2>2, <2>5, <2>6
<1>10. \A i \in 1 .. k : /\ piece(i) \in Seq(ToSet(piece(i)))
                         /\ \A j, m \in DOMAIN piece(i) : piece(i)[j] = piece(i)[m] => j = m
  <2> SUFFICES ASSUME NEW i \in 1 .. k
      PROVE  /\ piece(i) \in Seq(ToSet(piece(i)))
             /\ \A j, m \in DOMAIN piece(i) : piece(i)[j] = piece(i)[m] => j = m
    OBVIOUS
  <2> HIDE DEF piece
  <2>1. piece(i) \in Seq(ToSet(piece(i)))
    BY <1>9, SeqOfItsElements
  <2>2. \A j, m \in DOMAIN piece(i) : piece(i)[j] = piece(i)[m] => j = m
    BY <1>1, <1>6, <1>9
  <2> QED BY <2>1, <2>2
<1>11. \A i \in 1 .. k : Unique(piece(i)) = piece(i) /\ Len(piece(i)) <= limit
  <2> SUFFICES ASSUME NEW i \in 1 .. k PROVE Unique(piece(i)) = piece(i) /\ Len(piece(i)) <= limit
    OBVIOUS
  <2> HIDE DEF piece
  <2>1. PICK p : p = piece(i) /\ p \in Seq(ToSet(p)) /\ \A j, m \in DOMAIN p : p[j] = p[m] => j = m
    BY <1>10
  <2>2. Unique(p) = p
    BY <2>1, UniqueOfDistinct
  <2> HIDE DEF end
  <2>3. Len(piece(i)) <= limit
    BY <1>6, <1>9
  <2> QED BY <2>1, <2>2, <2>3
<1> HIDE DEF end
<1> DEFINE g == [i \in 1 .. k |-> SubSeq(u, 1, end(i))]
<1>12. calls \in Seq(Seq(ToSet(ids))) /\ Len(calls) = k /\ DOMAIN calls = 1 .. k
       /\ \A i \in 1 .. k : calls[i] = piece(i)
  <2> HIDE DEF piece
  <2>1. \A i \in 1 .. k : piece(i) \in Seq(ToSet(ids))
    BY <1>9
  <2>2. DOMAIN calls = 1 .. k /\ \A i \in 1 .. k : calls[i] = piece(i)
    BY <1>3
  <2>3. calls \in [1 .. k -> Seq(ToSet(ids))]
    BY <1>3, <2>1
  <2> QED BY <1>4, <2>2, <2>3
<1>13. g = [i \in 1 .. k |-> IF i = 1 THEN calls[i] ELSE g[i - 1] \o calls[i]]
  <2>1. ASSUME NEW i \in 1 .. k PROVE g[i] = IF i = 1 THEN calls[i] ELSE g[i - 1] \o calls[i]
    <3>1. CASE i = 1
      BY <1>4, <1>12, <3>1
    <3>2. CASE i # 1
      <4>6. i - 1 \in 1 .. k /\ i - 1 # k
        BY <1>4, <3>2
      <4>1. end(i - 1) = (i - 1) * limit
        BY <1>7, <4>6
      <4>2. PICK a \in Nat : a = (i - 1) * limit
        BY <1>6
      <4>3. PICK b \in Nat : b = end(i) /\ a <= b /\ b <= L
        BY <1>6, <4>2
      <4>4. g[i - 1] = SubSeq(u, 1, a) /\ calls[i] = SubSeq(u, a + 1, b) /\ g[i] = SubSeq(u, 1, b)
        BY <1>12, <4>1, <4>2, <4>3, <4>6
      <4> HIDE DEF g
      <4>5. SubSeq(u, 1, a) \o SubSeq(u, a + 1, b) = SubSeq(u, 1, b)
        <5>1. 1 \in 1 .. L + 1 /\ a \in 1 - 1 .. L /\ b \in a .. L
          BY <1>1, <4>3
        <5> QED BY <1>1, <5>1, ConcatAdjacentSubSeq DEF L
      <4> QED BY <3>2, <4>4, <4>5
    <3> QED BY <3>1, <3>2
  <2>2. g = [i \in 1 .. k |-> g[i]]
    OBVIOUS
  <2> HIDE DEF g
  <2> QED BY <2>1, <2>2
<1>14. FlattenSeq(calls) = u
  <2>1. g[k] = SubSeq(u, 1, L)
    <3>1. k \in 1 .. k
      BY <1>4, <1>5
    <3> QED BY <1>8, <3>1
  <2>2. SubSeq(u, 1, L) = u
    BY <1>1, SubSeqFull DEF L
  <2> HIDE DEF g
  <2>3. k \in Nat \ {0}
    BY <1>4, <1>5
  <2>4. Flattens(g, calls)
    BY <1>12, <1>13, <2>3 DEF Flattens
  <2>5. FlattenSeq(calls) = g[Len(calls)]
    BY <2>4, Flattened
  <2> QED BY <1>12, <2>1, <2>2, <2>5
<1> HIDE DEF piece
<1> QED BY <1>4, <1>5, <1>10, <1>11, <1>12, <1>14

\* An answer to a call of a read says what it was read from, or that it failed.
AnswerOf(i) ==
    \/ answers[i] = Failed
    \/ /\ answers[i].from \in 1 .. version /\ answers[i].state \in {answers[i].from, NotRead}
       /\ answers[i].ids = Unique(chunks[i])

\* What a handle has: the calls of one oversized read and the answers of the first of them.
ChunkInv ==
    /\ version \in Nat \ {0}
    /\ answers \in Seq(ToSet(answers)) /\ Len(answers) <= Len(chunks)
    /\ chunks = <<>> => answers = <<>> /\ result = NotRead
    /\ chunks # <<>> =>
         /\ asked \in Seq(ToSet(asked))
         /\ \E limit \in Nat \ {0} : limit < Len(Unique(asked)) /\ chunks = CallsFor(asked, limit)
    /\ \A i \in DOMAIN answers : AnswerOf(i)
    /\ result # NotRead => result = Merge(answers) /\ Len(answers) = Len(chunks)

\* What the chunks of a read are.
LEMMA ChunksAre ==
    ASSUME ChunkInv, chunks # <<>>
    PROVE  /\ Len(chunks) \in Nat /\ DOMAIN chunks = 1 .. Len(chunks)
           /\ chunks = [i \in 1 .. Len(chunks) |-> chunks[i]]
           /\ \A i \in DOMAIN chunks : Unique(chunks[i]) = chunks[i]
           /\ FlattenSeq(chunks) = Unique(asked) /\ asked \in Seq(ToSet(asked))
<1>1. PICK limit \in Nat \ {0} : Len(Unique(asked)) > limit /\ chunks = CallsFor(asked, limit)
  <2>1. asked \in Seq(ToSet(asked))
    BY DEF ChunkInv
  <2>2. Len(Unique(asked)) \in Nat
    BY <2>1, UniqueIs
  <2> QED BY <2>2 DEF ChunkInv
<1>2. asked \in Seq(ToSet(asked))
  BY DEF ChunkInv
<1>3. /\ chunks \in Seq(Seq(ToSet(asked)))
      /\ \A i \in DOMAIN chunks : Unique(chunks[i]) = chunks[i]
      /\ FlattenSeq(chunks) = Unique(asked)
  BY <1>1, <1>2, Pieces
<1>4. /\ Len(chunks) \in Nat /\ DOMAIN chunks = 1 .. Len(chunks)
      /\ chunks = [i \in 1 .. Len(chunks) |-> chunks[i]]
  BY <1>3
<1> QED BY <1>2, <1>3, <1>4

\* The states of answers that did not fail are versions of the data.
LEMMA StatesAre ==
    ASSUME ChunkInv, Failed \notin ToSet(answers),
           NEW states, states = {answers[i].state : i \in DOMAIN answers} \ {NotRead}
    PROVE  /\ IsFiniteSet(states) /\ Cardinality(states) \in Nat
           /\ \A i \in DOMAIN answers : answers[i].state # NotRead => answers[i].from \in states
           /\ \A x \in states : \E i \in DOMAIN answers : x = answers[i].from
<1>1. \A i \in DOMAIN answers : /\ answers[i].from \in 1 .. version
                                /\ answers[i].state \in {answers[i].from, NotRead}
  BY DEF ChunkInv, AnswerOf, ToSet
<1>2. states \in SUBSET (1 .. version)
  BY <1>1
<1>3. IsFiniteSet(1 .. version)
  <2>1. 1 \in Int /\ version \in Int
    BY DEF ChunkInv
  <2> QED BY <2>1, FS_Interval
<1>4. IsFiniteSet(states) /\ Cardinality(states) \in Nat
  BY <1>2, <1>3, FS_Subset, FS_CardinalityType
<1> QED BY <1>1, <1>4

\* Put together, the answers of a read are whole.
LEMMA WholeRead == ASSUME ChunkInv PROVE ReadsAreWhole
<1> SUFFICES ASSUME result # NotRead
             PROVE  /\ result.outcome = "merged" =>
                         /\ ToSet(result.ids) = ToSet(asked) /\ Len(result.ids) = Len(Unique(asked))
                         /\ \A i, j \in DOMAIN answers :
                               NotRead \notin {answers[i].state, answers[j].state} =>
                                   answers[i].from = answers[j].from
                    /\ result.outcome = "torn" =>
                         \E i, j \in DOMAIN answers : answers[i].from # answers[j].from
  BY DEF ReadsAreWhole
<1>1. /\ result = Merge(answers) /\ Len(answers) = Len(chunks) /\ chunks # <<>>
      /\ answers \in Seq(ToSet(answers))
  BY DEF ChunkInv
<1> DEFINE states == {answers[i].state : i \in DOMAIN answers} \ {NotRead}
           ids == FlattenSeq([i \in DOMAIN answers |-> answers[i].ids])
<1>2. /\ Failed \in ToSet(answers) => result.outcome = "failed"
      /\ Failed \notin ToSet(answers) /\ Cardinality(states) > 1 => result.outcome = "torn"
      /\ Failed \notin ToSet(answers) /\ ~(Cardinality(states) > 1) =>
            result.outcome = "merged" /\ result.ids = ids
  BY <1>1 DEF Merge
<1> HIDE DEF states, ids
<1>3. CASE Failed \in ToSet(answers)
  BY <1>2, <1>3
<1>4. CASE Failed \notin ToSet(answers) /\ Cardinality(states) > 1
  <2>1. SUFFICES ASSUME \A i, j \in DOMAIN answers : answers[i].from = answers[j].from
                 PROVE  FALSE
    BY <1>2, <1>4
  <2>2. /\ Cardinality(states) \in Nat
        /\ \A x \in states : \E i \in DOMAIN answers : x = answers[i].from
    BY <1>4, StatesAre DEF states
  <2>3. states # {}
    BY <1>4, FS_EmptySet
  <2>4. PICK x \in states : \A y \in states : y = x
    BY <2>1, <2>2, <2>3
  <2>5. states = {x}
    BY <2>4
  <2>6. Cardinality(states) = 1
    BY <2>5, FS_Singleton
  <2> QED BY <1>4, <2>6
<1>5. CASE Failed \notin ToSet(answers) /\ ~(Cardinality(states) > 1)
  <2>1. result.outcome = "merged" /\ result.ids = ids
    BY <1>2, <1>5
  <2>2. /\ DOMAIN chunks = 1 .. Len(chunks) /\ chunks = [i \in 1 .. Len(chunks) |-> chunks[i]]
        /\ \A i \in DOMAIN chunks : Unique(chunks[i]) = chunks[i]
        /\ FlattenSeq(chunks) = Unique(asked) /\ asked \in Seq(ToSet(asked))
    BY <1>1, ChunksAre
  <2>3. DOMAIN answers = 1 .. Len(chunks)
    BY <1>1
  <2>4. \A i \in 1 .. Len(chunks) : answers[i].ids = chunks[i]
    BY <1>5, <2>2, <2>3 DEF ChunkInv, AnswerOf, ToSet
  <2>5. [i \in DOMAIN answers |-> answers[i].ids] = chunks
    BY <2>2, <2>3, <2>4
  <2>6. ids = Unique(asked)
    BY <2>2, <2>5 DEF ids
  <2>7. ToSet(ids) = ToSet(asked) /\ Len(ids) = Len(Unique(asked))
    BY <2>2, <2>6, UniqueIs
  <2>8. ASSUME NEW i \in DOMAIN answers, NEW j \in DOMAIN answers,
               NotRead \notin {answers[i].state, answers[j].state},
               answers[i].from # answers[j].from
        PROVE  FALSE
    <3>1. IsFiniteSet(states) /\ answers[i].from \in states /\ answers[j].from \in states
      BY <1>5, <2>8, StatesAre DEF states
    <3>2. {answers[i].from, answers[j].from} \in SUBSET states
      BY <3>1
    <3>3. Cardinality({answers[i].from, answers[j].from}) = 2
      <4>1. IsFiniteSet({answers[i].from}) /\ Cardinality({answers[i].from}) = 1
        BY FS_Singleton
      <4>2. Cardinality({answers[i].from} \cup {answers[j].from}) = 1 + 1
        BY <2>8, <4>1, FS_AddElement
      <4>3. {answers[i].from} \cup {answers[j].from} = {answers[i].from, answers[j].from}
        OBVIOUS
      <4> QED BY <4>2, <4>3
    <3>4. 2 <= Cardinality(states) /\ Cardinality(states) \in Nat
      BY <3>1, <3>2, <3>3, FS_Subset, FS_CardinalityType
    <3> QED BY <1>5, <3>4
  <2> QED BY <2>1, <2>7, <2>8
<1> QED BY <1>3, <1>4, <1>5

-----------------------------------------------------------------------------
(* What a batch was opened with *)

\* Capabilities are those of some document for some account, resolved without a conflict.
IsActive(active) ==
    /\ active.document \in Documents
    /\ active.specs = Resolve(active.document, active.account, Experimental)
    /\ ~Conflicts(active.specs)

ActiveInv ==
    /\ DOMAIN batch = {"active", "calls"}
    /\ Connected \/ phase = "found" => IsActive(capabilities)
    /\ batch # NoBatch => IsActive(batch.active)
    /\ request # NoSession => IsActive(request.active)

LEMMA ActiveInit == Init => ActiveInv
BY DEF Init, SearchInit, ActiveInv, Connected, NoBatch

LEMMA ActiveIs ==
    ASSUME NEW document \in Documents, NEW account,
           ~Conflicts(Resolve(document, account, Experimental))
    PROVE  IsActive(Active(document, account))
BY DEF IsActive, Active

LEMMA ActiveNext == ASSUME SearchInv, ActiveInv, [Next]_vars PROVE ActiveInv'
<1>1. CASE SearchNext /\ UNCHANGED <<clientVars, chunkVars>>
  <2>1. UNCHANGED <<capabilities, batch, request>>
    BY <1>1 DEF clientVars
  <2>2. phase' = phase \/ phase' \in {"searching", "connecting", "failed"}
    BY <1>1 DEF SearchNext, Discover, Connect, Try, FetchHop, FetchUnreachable, FetchAnswered, Stops,
                MovesOn, Record
  <2> QED BY <2>1, <2>2 DEF ActiveInv, Connected
<1>2. ASSUME NEW document \in Documents, NEW named \in AccountIds, Connects(document, named)
      PROVE  ActiveInv'
  <2> DEFINE account == DefaultAccount(document, named)
  <2>1. /\ UNCHANGED <<batch, request>> /\ FetchSession(document, account)
        /\ phase' = "found" => capabilities' = Active(document, account)
    BY <1>2 DEF Connects
  <2>2. phase' # "connected" /\ (phase' = "found" => ~Conflicts(Resolve(document, account, Experimental)))
    BY <2>1 DEF FetchSession, Stops, MovesOn, Connecting, Record
  <2> QED BY <2>1, <2>2, ActiveIs DEF ActiveInv, Connected
<1>3. CASE Returns \/ Refresh \/ RefreshFails
  BY <1>3 DEF Returns, Refresh, RefreshFails, clientVars, ActiveInv, Connected
<1>4. ASSUME NEW document \in Documents, RefreshAnswered(document) PROVE ActiveInv'
  <2>1. UNCHANGED <<phase, batch, request>> /\ Connected
    BY <1>4 DEF RefreshAnswered
  <2>2. \/ UNCHANGED capabilities
        \/ /\ ~Conflicts(Resolve(document, capabilities.account, Experimental))
           /\ capabilities' = Active(document, capabilities.account)
    BY <1>4 DEF RefreshAnswered
  <2> QED BY <2>1, <2>2, ActiveIs DEF ActiveInv, Connected
<1>5. CASE OpenBatch
  <2>1. /\ UNCHANGED <<phase, capabilities>> /\ Connected /\ request' = NoSession
        /\ batch'.active = capabilities /\ DOMAIN batch' = {"active", "calls"}
    BY <1>5 DEF OpenBatch, searchVars
  <2> QED BY <2>1 DEF ActiveInv, Connected
<1>6. CASE Abandon
  BY <1>6 DEF Abandon, NoBatch, searchVars, ActiveInv, Connected
<1>7. ASSUME NEW call \in Calls, Add(call) PROVE ActiveInv'
  <2>1. UNCHANGED <<phase, capabilities, request>> /\ batch # NoBatch /\ DOMAIN batch' = DOMAIN batch
    BY <1>7 DEF Add, searchVars
  <2>2. batch'.active = batch.active
    BY <1>7 DEF Add, ActiveInv
  <2> QED BY <2>1, <2>2 DEF ActiveInv, Connected
<1>8. ASSUME NEW extra \in Extra, Execute(extra) PROVE ActiveInv'
  <2>1. /\ UNCHANGED <<phase, capabilities>> /\ batch' = NoBatch /\ batch # NoBatch
        /\ request'.active = batch.active /\ DOMAIN batch' = {"active", "calls"}
    BY <1>8 DEF Execute, searchVars, NoBatch
  <2> QED BY <2>1 DEF ActiveInv, Connected
<1>9. ASSUME NEW named, Connected, Blob(named) PROVE ActiveInv'
  <2>1. UNCHANGED <<phase, capabilities, batch>> /\ request'.active = capabilities
    BY <1>9 DEF Blob, searchVars
  <2> QED BY <1>9, <2>1 DEF ActiveInv, Connected
<1>10. CASE \/ ExecuteFails \/ \E state \in States : Absorb(state)
            \/ (ChunkNext /\ UNCHANGED <<searchVars, clientVars>>) \/ UNCHANGED vars
  <2>1. UNCHANGED <<phase, capabilities, batch, request>>
    BY <1>10 DEF ExecuteFails, Absorb, clientVars, searchVars, vars
  <2> QED BY <2>1 DEF ActiveInv, Connected
<1>11. \A named \in AccountIds : (Download(named) \/ \E size \in Sizes : Upload(named, size)) =>
          Connected /\ Blob(named)
  BY DEF Download, Upload
<1> QED BY <1>1, <1>2, <1>3, <1>4, <1>5, <1>6, <1>7, <1>8, <1>9, <1>10, <1>11 DEF Next

-----------------------------------------------------------------------------
(* Steps of a read *)

\* A limit is a positive number, whatever a document says.
LEMMA LimitType ==
    ASSUME NEW document \in Documents, NEW account
    PROVE  Limit(document, "maxObjectsInGet", account) \in Nat \ {0}
<1> DEFINE value == Field(CapabilityValue(document, Core, account), "maxObjectsInGet", 0)
<1>1. value \in Int
  BY ClientAssumption DEF CapabilityValue, Account, Field
<1> HIDE DEF value
<1>2. Limit(document, "maxObjectsInGet", account) = IF value < 1 THEN Suggested ELSE value
  BY DEF Limit, value
<1> QED BY <1>1, <1>2, SpecsAssumption

\* A read that is queued as several calls is one that was oversized.
LEMMA Oversized ==
    ASSUME ActiveInv, batch # NoBatch, NEW call \in Calls,
           NEW limit, limit = Limit(batch.active.document, "maxObjectsInGet", batch.active.account)
    PROVE  /\ limit \in Nat \ {0} /\ call.ids \in Seq(ToSet(call.ids)) /\ Len(Unique(call.ids)) \in Nat
           /\ Len(Unique(call.ids)) <= limit => CallsFor(call.ids, limit) = <<call.ids>>
<1>1. batch.active.document \in Documents
  BY DEF ActiveInv, IsActive
<1>2. call.ids \in Seq(ToSet(call.ids))
  BY ClientAssumption
<1> QED BY <1>1, <1>2, LimitType, UniqueIs DEF CallsFor

LEMMA ChunkInit0 == Init => ChunkInv
BY DEF Init, ChunkInit, ChunkInv, ToSet

LEMMA ForgetInv == ForgetChunks => ChunkInv'
BY DEF ForgetChunks, ChunkInv, ToSet

LEMMA AddChunks == ASSUME ActiveInv, ChunkInv, NEW call \in Calls, Add(call) PROVE ChunkInv'
<1>1. CASE UNCHANGED chunkVars
  BY <1>1 DEF chunkVars, ChunkInv, AnswerOf
<1>2. CASE ~UNCHANGED chunkVars
  <2>1. PICK limit : limit = Limit(batch.active.document, "maxObjectsInGet", batch.active.account)
    OBVIOUS
  <2>2. PICK ids : /\ ids = CallsFor(call.ids, limit) \/ ids = <<call.ids>>
                   /\ Len(ids) > 1 /\ chunks = <<>> /\ QueueChunks(call.ids, ids) /\ batch # NoBatch
    BY <1>2, <2>1 DEF Add
  <2>3. /\ limit \in Nat \ {0} /\ call.ids \in Seq(ToSet(call.ids)) /\ Len(Unique(call.ids)) \in Nat
        /\ Len(Unique(call.ids)) <= limit => CallsFor(call.ids, limit) = <<call.ids>>
    BY <2>1, <2>2, Oversized
  <2>4. ids # <<call.ids>>
    <3>1. Len(<<call.ids>>) = 1 /\ ~(1 > 1)
      OBVIOUS
    <3> QED BY <2>2, <3>1
  <2>5. ids = CallsFor(call.ids, limit) /\ limit < Len(Unique(call.ids))
    BY <2>2, <2>3, <2>4
  <2>6. answers = <<>> /\ result = NotRead /\ version \in Nat \ {0}
    BY <2>2 DEF ChunkInv
  <2>7. asked' = call.ids /\ chunks' = ids /\ UNCHANGED <<version, sent, answers, result>>
    BY <2>2 DEF QueueChunks
  <2>8. ids \in Seq(Seq(ToSet(call.ids))) /\ ids # <<>>
    BY <2>3, <2>5, Pieces
  <2>9. Len(answers') <= Len(chunks') /\ answers' \in Seq(ToSet(answers'))
    BY <2>6, <2>7, <2>8
  <2> QED BY <2>3, <2>5, <2>6, <2>7, <2>8, <2>9 DEF ChunkInv
<1> QED BY <1>1, <1>2

\* An answer that comes is one to the next call.
LEMMA AnswerInv ==
    ASSUME ChunkInv, Pending, NEW answer, answers' = Append(answers, answer),
           \/ answer = Failed
           \/ /\ answer.from = version /\ answer.state \in {version, NotRead}
              /\ answer.ids = Unique(chunks[Len(answers) + 1]),
           UNCHANGED <<version, asked, chunks, sent, result>>
    PROVE  ChunkInv'
<1>1. /\ Len(answers) \in Nat /\ answers \in Seq(ToSet(answers)) /\ Len(answers) < Len(chunks)
      /\ version \in Nat \ {0}
  BY DEF ChunkInv, Pending
<1>2. chunks # <<>>
  BY <1>1
<1>3. Len(chunks) \in Nat
  BY <1>2, ChunksAre
<1> DEFINE S == ToSet(answers) \cup {answer}
<1>4. answers \in Seq(S) /\ answer \in S
  <2>1. answers \in [1 .. Len(answers) -> S]
    BY <1>1
  <2> QED BY <1>1, <2>1
<1> HIDE DEF S
<1>5. /\ answers' \in Seq(S) /\ Len(answers') = Len(answers) + 1
      /\ \A i \in DOMAIN answers' :
            \/ i \in DOMAIN answers /\ answers'[i] = answers[i]
            \/ i = Len(answers) + 1 /\ answers'[i] = answer
  BY <1>4
<1>6. answers' \in Seq(ToSet(answers'))
  BY <1>5, SeqOfItsElements DEF ToSet
<1>7. result = NotRead
  BY <1>1 DEF ChunkInv
<1>8. ASSUME NEW i \in DOMAIN answers' PROVE AnswerOf(i)'
  <2>1. CASE i \in DOMAIN answers /\ answers'[i] = answers[i]
    BY <2>1 DEF ChunkInv, AnswerOf
  <2>2. CASE i = Len(answers) + 1 /\ answers'[i] = answer
    BY <1>1, <2>2 DEF AnswerOf
  <2> QED BY <1>5, <2>1, <2>2
<1> QED BY <1>1, <1>2, <1>3, <1>5, <1>6, <1>7, <1>8 DEF ChunkInv

LEMMA ChunkNextInv == ASSUME ChunkInv, ChunkNext PROVE ChunkInv'
<1>1. ASSUME NEW names \in BOOLEAN, AnswerChunk(names) PROVE ChunkInv'
  <2> DEFINE answer == [from |-> version, state |-> IF names THEN version ELSE NotRead,
                        ids |-> Unique(chunks[Len(answers) + 1])]
  <2>1. /\ Pending /\ answers' = Append(answers, answer)
        /\ UNCHANGED <<version, asked, chunks, sent, result>>
    BY <1>1 DEF AnswerChunk
  <2>2. /\ answer.from = version /\ answer.state \in {version, NotRead}
        /\ answer.ids = Unique(chunks[Len(answers) + 1])
    OBVIOUS
  <2> HIDE DEF answer
  <2> QED BY <2>1, <2>2, AnswerInv
<1>2. CASE FailChunk
  BY <1>2, AnswerInv DEF FailChunk
<1>3. CASE DataChanges
  <2>1. Pending /\ version' = version + 1 /\ UNCHANGED <<asked, chunks, sent, answers, result>>
    BY <1>3 DEF DataChanges
  <2>2. version \in Nat \ {0} /\ version' \in Nat \ {0} /\ 1 .. version \subseteq 1 .. version'
    BY <2>1 DEF ChunkInv
  <2>3. \A i \in DOMAIN answers : AnswerOf(i)'
    BY <2>1, <2>2 DEF ChunkInv, AnswerOf
  <2> QED BY <2>1, <2>2, <2>3 DEF ChunkInv
<1>4. CASE ReadResult
  <2>1. /\ chunks # <<>> /\ ~(sent /\ Len(answers) < Len(chunks)) /\ sent /\ result' = Merge(answers)
        /\ UNCHANGED <<version, asked, chunks, sent, answers>>
    BY <1>4 DEF ReadResult, Pending
  <2>2. Len(answers) \in Nat /\ Len(chunks) \in Nat
    BY <2>1, ChunksAre DEF ChunkInv
  <2>3. Len(answers) = Len(chunks)
    BY <2>1, <2>2 DEF ChunkInv
  <2> QED BY <2>1, <2>3 DEF ChunkInv, AnswerOf, Merge
<1> QED BY <1>1, <1>2, <1>3, <1>4 DEF ChunkNext

LEMMA ChunkStep == ASSUME ActiveInv, ChunkInv, [Next]_vars PROVE ChunkInv'
<1>1. CASE UNCHANGED chunkVars
  BY <1>1 DEF chunkVars, ChunkInv, AnswerOf
<1>2. CASE OpenBatch \/ Abandon
  BY <1>2, ForgetInv DEF OpenBatch, Abandon
<1>3. CASE \E call \in Calls : Add(call)
  BY <1>3, AddChunks
<1>4. CASE \E extra \in Extra : Execute(extra)
  BY <1>4 DEF Execute, SendChunks, ChunkInv, AnswerOf
<1>5. CASE ChunkNext
  BY <1>5, ChunkNextInv
<1>6. CASE \/ SearchNext /\ UNCHANGED <<clientVars, chunkVars>>
           \/ \E document \in Documents, named \in AccountIds : Connects(document, named)
           \/ Returns \/ Refresh \/ RefreshFails
           \/ \E document \in Documents : RefreshAnswered(document)
           \/ \E state \in States : Absorb(state)
           \/ ExecuteFails
           \/ \E named \in AccountIds : Download(named) \/ \E size \in Sizes : Upload(named, size)
           \/ UNCHANGED vars
  BY <1>1, <1>6 DEF Connects, Returns, Refresh, RefreshFails, RefreshAnswered, Absorb, ExecuteFails,
                    Download, Upload, Blob, vars
<1> QED BY <1>2, <1>3, <1>4, <1>5, <1>6 DEF Next

\* A read that was split is still one read (ChunkedHandle, merge_get_results), for every list
\* of ids and every limit: the pieces of a list without its repeats are that list again, and
\* states that agree come from one version.
THEOREM ReadsAreKeptWhole == Spec => []ReadsAreWhole
<1>1. Init => SearchInv /\ ActiveInv /\ ChunkInv
  BY SearchInit0, ActiveInit, ChunkInit0
<1>2. SearchInv /\ ActiveInv /\ ChunkInv /\ [Next]_vars => SearchInv' /\ ActiveInv' /\ ChunkInv'
  BY SearchNextInv, ActiveNext, ChunkStep
<1>3. ChunkInv => ReadsAreWhole
  BY WholeRead
<1> QED BY <1>1, <1>2, <1>3, PTL DEF Spec

-----------------------------------------------------------------------------
(* What is sent is served: the registry *)

\* What a search of a sequence gives: a place that passes the test, or 0.
LEMMA FirstPlace ==
    ASSUME NEW T \in SUBSET Nat, T # {}
    PROVE  Min(T) \in T
BY Least DEF Min

LEMMA LastPlace ==
    ASSUME NEW n \in Nat, NEW T \in SUBSET (0 .. n), T # {}
    PROVE  Max(T) \in T
<1>1. PICK m \in T : \A k \in T : k <= m
  BY Greatest
<1>2. \A k \in T : m >= k
  BY <1>1
<1> QED BY <1>1, <1>2 DEF Max

\* _choose gives a spec of the registry under its own URN, or none.
LEMMA ChooseIs ==
    ASSUME NEW urn, NEW value, Choose(urn, value) # NoSpec
    PROVE  Choose(urn, value) \in ToSet(Specs) /\ Choose(urn, value).urn = urn
<1> DEFINE Named == {i \in 1 .. Len(Specs) : Specs[i].urn = urn}
           Matching == {i \in 1 .. Len(Specs) :
                          Specs[i].urn = urn /\ Specs[i].matches # {} /\ Specs[i].matches \subseteq DOMAIN value}
           first == IF Named # {} THEN Min(Named) ELSE 0
           last == IF Named # {} THEN Max(Named) ELSE 0
           matching == IF Matching # {} THEN Min(Matching) ELSE 0
           chosen == IF first = last THEN first ELSE matching
<1>1. Choose(urn, value) = IF chosen = 0 THEN NoSpec ELSE Specs[chosen]
  BY DEF Choose, SelectInSeq, SelectLastInSeq
<1>2. Named \in SUBSET Nat /\ Matching \in SUBSET Nat /\ Matching \subseteq Named
  OBVIOUS
<1>3. DOMAIN Specs = 1 .. Len(Specs)
  BY SpecsAssumption
<1>4. \A i \in Named : Specs[i] \in ToSet(Specs) /\ Specs[i].urn = urn
  BY <1>3 DEF ToSet
<1> HIDE DEF Named, Matching, last
<1>5. (first = 0 \/ first \in Named) /\ (matching = 0 \/ matching \in Named)
  BY <1>2, FirstPlace
<1> HIDE DEF first, matching
<1> QED BY <1>1, <1>4, <1>5

\* The specs that are resolved go by their own URNs.
LEMMA ResolvedIs ==
    ASSUME NEW active, IsActive(active), NEW urn \in DOMAIN active.specs
    PROVE  active.specs[urn] \in ToSet(Specs) /\ active.specs[urn].urn = urn
<1> DEFINE chosen == [u \in Advertised(active.document, active.account) |->
                        Choose(u, CapabilityValue(active.document, u, active.account))]
           S == {u \in DOMAIN chosen : chosen[u] # NoSpec /\ (chosen[u].experimental => Experimental)}
<1>1. active.specs = [u \in S |-> chosen[u]]
  BY DEF IsActive, Resolve, Restrict
<1>2. urn \in S /\ active.specs[urn] = chosen[urn]
  BY <1>1
<1>3. /\ urn \in Advertised(active.document, active.account) /\ chosen[urn] # NoSpec
      /\ chosen[urn] = Choose(urn, CapabilityValue(active.document, urn, active.account))
  BY <1>2
<1> QED BY <1>2, <1>3, ChooseIs

LEMMA FirstSpecIs ==
    ASSUME NEW specs, NEW urns, FirstSpec(specs, urns) # NoSpec
    PROVE  \E urn \in urns : FirstSpec(specs, urns) = specs[urn]
<1> DEFINE T == {i \in 1 .. Len(URNs) : URNs[i] \in urns}
           first == IF T # {} THEN Min(T) ELSE 0
<1>1. FirstSpec(specs, urns) = IF first = 0 THEN NoSpec ELSE specs[URNs[first]]
  BY DEF FirstSpec, SelectInSeq
<1>2. T \in SUBSET Nat
  OBVIOUS
<1>3. T # {} => Min(T) \in T
  <2> HIDE DEF T
  <2> QED BY <1>2, FirstPlace
<1>4. first # 0 => first \in T
  BY <1>3
<1>5. first # 0
  BY <1>1
<1> QED BY <1>1, <1>4, <1>5

\* The owner of a method, and what defines a type, are resolved specs under their own URNs.
LEMMA OwnerIs ==
    ASSUME NEW active, IsActive(active), NEW method, NEW owner, owner = OwnerOf(active.specs, method),
           owner # NoSpec
    PROVE  /\ owner.urn \in DOMAIN active.specs /\ owner = active.specs[owner.urn]
           /\ owner \in ToSet(Specs) /\ method \in DOMAIN owner.methods
<1>1. PICK urn \in {u \in DOMAIN active.specs : method \in DOMAIN active.specs[u].methods} :
           owner = active.specs[urn]
  BY FirstSpecIs DEF OwnerOf
<1>2. active.specs[urn] \in ToSet(Specs) /\ active.specs[urn].urn = urn
  BY ResolvedIs
<1> QED BY <1>1, <1>2

LEMMA DefiningIs ==
    ASSUME NEW active, IsActive(active), NEW type, NEW spec, spec = Defining(active.specs, type),
           spec # NoSpec
    PROVE  /\ spec.urn \in DOMAIN active.specs /\ spec = active.specs[spec.urn]
           /\ type \in DOMAIN spec.types
<1>1. PICK urn \in {u \in DOMAIN active.specs : type \in DOMAIN active.specs[u].types} :
           spec = active.specs[urn]
  BY FirstSpecIs DEF Defining
<1>2. active.specs[urn].urn = urn
  BY ResolvedIs
<1> QED BY <1>1, <1>2

\* What adds a name is needed by who gives it.
LEMMA AddingUngates ==
    ASSUME NEW specs, NEW type, NEW names, NEW using,
           NEW attribute, Adding(specs, type, names, attribute) \subseteq using,
           NEW urn \in DOMAIN specs, type \in DOMAIN specs[urn].types
    PROVE  Ungated(names, specs[urn].types[type][attribute], using)
BY DEF Adding, Ungated

\* A call whose needs are all in `using` is served under it.
LEMMA NeedsServe ==
    ASSUME NEW active, IsActive(active), NEW call, NEW using, CallNeeds(active.specs, call) \subseteq using,
           OwnerOf(active.specs, call.method) # NoSpec,
           NEW spoken, spoken = {active.specs[urn] : urn \in using \cap DOMAIN active.specs}
    PROVE  /\ Serves(spoken, using, call)
           /\ MethodOf(active.specs, call.method).names =>
                \A type \in call.typeNames : Defining(active.specs, type) # NoSpec =>
                   \E other \in spoken : type \in DOMAIN other.types
<1> DEFINE specs == active.specs
           owner == OwnerOf(specs, call.method)
           method == owner.methods[call.method]
<1>1. /\ owner.urn \in DOMAIN specs /\ owner = specs[owner.urn] /\ call.method \in DOMAIN owner.methods
  BY OwnerIs
<1>2. /\ owner.urn \in using /\ owner.requires \cup method.also \subseteq using
      /\ Adding(specs, method.type, call.properties, "properties") \subseteq using
      /\ Adding(specs, method.filterType, call.filters, "filters") \subseteq using
      /\ Adding(specs, method.type, call.sorts, "sorts") \subseteq using
      /\ method.names =>
           {Defining(specs, type).urn : type \in {t \in call.typeNames : Defining(specs, t) # NoSpec}}
              \subseteq using
  BY DEF CallNeeds
<1> HIDE DEF owner
<1>3. owner \in spoken
  BY <1>1, <1>2
<1>4. ASSUME NEW urn \in DOMAIN specs
      PROVE  /\ method.type \in DOMAIN specs[urn].types =>
                  /\ Ungated(call.properties, specs[urn].types[method.type].properties, using)
                  /\ Ungated(call.sorts, specs[urn].types[method.type].sorts, using)
             /\ method.filterType \in DOMAIN specs[urn].types =>
                  Ungated(call.filters, specs[urn].types[method.filterType].filters, using)
  BY <1>2, AddingUngates
<1>5. Serves(spoken, using, call)
  BY <1>1, <1>2, <1>3, <1>4 DEF Serves
<1>6. ASSUME method.names, NEW type \in call.typeNames, Defining(specs, type) # NoSpec
      PROVE  \E other \in spoken : type \in DOMAIN other.types
  <2>1. /\ Defining(specs, type).urn \in DOMAIN specs
        /\ Defining(specs, type) = specs[Defining(specs, type).urn]
        /\ type \in DOMAIN Defining(specs, type).types
    BY <1>6, DefiningIs
  <2>2. Defining(specs, type).urn \in using
    BY <1>2, <1>6
  <2> QED BY <2>1, <2>2
<1>7. MethodOf(specs, call.method) = method
  BY DEF MethodOf, owner
<1> QED BY <1>5, <1>6, <1>7

-----------------------------------------------------------------------------
(* What is sent is served: the calls that are queued *)

\* A call that passed the gates of Batch.add and of its builder.
Queued(active, call) ==
    LET method == MethodOf(active.specs, call.method)
        value  == CapabilityValue(active.document, OwnerOf(active.specs, call.method).urn, call.account)
    IN  /\ OwnerOf(active.specs, call.method) # NoSpec
        /\ method.mutating => ~ReadOnly(active.document, call.account)
        /\ method.kind = "get" =>
             Cardinality(ToSet(call.ids)) <= Limit(active.document, "maxObjectsInGet", active.account)
        /\ call.builder /\ Parsed(value) = value
             /\ call.account = AccountFor(active, [call EXCEPT !.account = NoSpec])
           => Bears(call, method.kind, value)

\* The object a builder judges by is the one of the account the call is for, when that is
\* the account it would have had without a name.
LEMMA JudgedIs ==
    ASSUME NEW active, IsActive(active), NEW call \in Calls, Accepts(active, call),
           call.method \in DOMAIN JudgedBy,
           NEW account, account = AccountFor(active, call),
           account = AccountFor(active, [call EXCEPT !.account = NoSpec])
    PROVE  /\ OwnerOf(active.specs, call.method).urn = JudgedBy[call.method]
           /\ JudgedAccount(active, JudgedBy[call.method]) = account
<1> DEFINE owner == OwnerOf(active.specs, call.method)
           unnamed == [call EXCEPT !.account = NoSpec]
<1>1. owner # NoSpec
  BY DEF Accepts
<1>2. owner \in ToSet(Specs) /\ call.method \in DOMAIN owner.methods
  BY <1>1, OwnerIs
<1>3. owner.urn = JudgedBy[call.method] /\ owner.methods[call.method].scoped
  BY <1>2, ClientAssumption
<1>4. MethodOf(active.specs, call.method).scoped
  BY <1>3 DEF MethodOf
<1>5. unnamed.method = call.method /\ unnamed.account = NoSpec
  BY ClientAssumption DEF CallFields
<1> HIDE DEF unnamed
<1>6. account = IF active.account # NoSpec THEN active.account
                ELSE PrimaryAccount(active.document, owner.urn)
  BY <1>4, <1>5 DEF AccountFor, unnamed
<1>7. account # NoSpec
  BY <1>4 DEF Accepts
<1> QED BY <1>3, <1>6, <1>7 DEF JudgedAccount

\* What a builder passes is within the limits of the object it judges by.
LEMMA BuiltBears ==
    ASSUME NEW active, IsActive(active), NEW call \in Calls, Accepts(active, call), Builds(active, call),
           NEW account, account = AccountFor(active, call),
           account = AccountFor(active, [call EXCEPT !.account = NoSpec]),
           NEW value,
           value = CapabilityValue(active.document, OwnerOf(active.specs, call.method).urn, account),
           Parsed(value) = value
    PROVE  Bears(call, MethodOf(active.specs, call.method).kind, value)
<1>1. call.method \in DOMAIN JudgedBy => Judged(active, JudgedBy[call.method]) = value
  BY JudgedIs DEF Judged
<1>2. /\ DOMAIN JudgedBy = {"Mailbox/set", "Email/set", "SieveScript/set", "FileNode/set", "EmailSubmission/set"}
      /\ JudgedBy["Mailbox/set"] = "mail" /\ JudgedBy["Email/set"] = "mail"
      /\ JudgedBy["SieveScript/set"] = "sieve" /\ JudgedBy["FileNode/set"] = "files"
      /\ JudgedBy["EmailSubmission/set"] = "submission"
  BY DEF JudgedBy
<1>3. /\ DOMAIN NameLimits = {"Mailbox/set", "SieveScript/set", "FileNode/set"}
      /\ NameLimits["Mailbox/set"] = "maxSizeMailboxName"
      /\ NameLimits["SieveScript/set"] = "maxSizeScriptName"
      /\ NameLimits["FileNode/set"] = "maxSizeFileNodeName"
  BY DEF NameLimits
<1>4. CustomPasses(active, call.method, call.given)
  BY DEF Builds
<1>5. ASSUME NEW object \in Changed(call.given), call.method \in DOMAIN NameLimits, Gives(object, "name")
      PROVE  Within(object.name.octets, value, NameLimits[call.method])
  <2>1. object.name \in NamesGiven(call.given)
    BY <1>5 DEF NamesGiven
  <2>2. CASE call.method = "Mailbox/set"
    <3>1. MailboxName(object.name, value)
      BY <1>1, <1>2, <1>4, <2>1, <2>2 DEF CustomPasses
    <3> QED BY <1>3, <2>2, <3>1 DEF MailboxName, Within, Field
  <2>3. CASE call.method = "SieveScript/set"
    <3>1. ScriptName(object.name, value)
      BY <1>1, <1>2, <1>4, <2>1, <2>3 DEF CustomPasses
    <3> QED BY <1>3, <2>3, <3>1 DEF ScriptName, Within, Field
  <2>4. CASE call.method = "FileNode/set"
    <3>1. NodeName(object.name, value)
      BY <1>1, <1>2, <1>4, <2>1, <2>4 DEF CustomPasses
    <3> QED BY <1>3, <2>4, <3>1 DEF NodeName, Within, Field
  <2> QED BY <1>3, <1>5, <2>2, <2>3, <2>4
<1>6. ASSUME NEW object \in Changed(call.given), call.method = "Email/set", Gives(object, "mailboxes")
      PROVE  Within(object.mailboxes, value, "maxMailboxesPerEmail")
  <2>1. MailboxCounts(Changed(call.given), value)
    BY <1>1, <1>2, <1>4, <1>6 DEF CustomPasses
  <2> QED BY <1>6, <2>1 DEF MailboxCounts
<1>7. ASSUME call.method = "EmailSubmission/set", NEW object \in Objects(call.given, {"create"})
      PROVE  Within(Hold(object), value, "maxDelayedSend")
  <2>1. HoldsPass(call.given, value)
    BY <1>1, <1>2, <1>4, <1>7 DEF CustomPasses
  <2> QED BY <1>7, <2>1 DEF HoldsPass
<1>8. ASSUME MethodOf(active.specs, call.method).kind = "query", Gives(call.given, "anchor"),
             call.given.anchor # NoSpec
      PROVE  ~Gives(call.given, "position")
  BY <1>8 DEF Builds, ShapePasses, QueryPasses
<1> QED BY <1>5, <1>6, <1>7, <1>8 DEF Bears

LEMMA QueuedIs ==
    ASSUME NEW active, IsActive(active), NEW call \in Calls, Accepts(active, call),
           call.builder => Builds(active, call), NEW ids,
           MethodOf(active.specs, call.method).kind = "get" =>
              Cardinality(ToSet(ids)) <= Limit(active.document, "maxObjectsInGet", active.account),
           NEW added, added = [[call EXCEPT !.account = AccountFor(active, call)] EXCEPT !.ids = ids]
    PROVE  Queued(active, added)
<1> DEFINE account == AccountFor(active, call)
           unnamed == [call EXCEPT !.account = NoSpec]
           again == [added EXCEPT !.account = NoSpec]
<1>1. DOMAIN call = CallFields
  BY ClientAssumption
<1>2. /\ added.method = call.method /\ added.account = account /\ added.ids = ids
      /\ added.builder = call.builder /\ added.given = call.given
      /\ unnamed.method = call.method /\ unnamed.account = NoSpec
      /\ again.method = call.method /\ again.account = NoSpec
  BY <1>1 DEF CallFields
<1> HIDE DEF unnamed, again
<1>3. AccountFor(active, again) = AccountFor(active, unnamed)
  BY <1>2 DEF AccountFor
<1>4. OwnerOf(active.specs, call.method) # NoSpec
  BY DEF Accepts
<1>5. MethodOf(active.specs, call.method).mutating => ~ReadOnly(active.document, account)
  BY DEF Accepts
<1>6. ASSUME NEW kind, NEW value, Bears(call, kind, value) PROVE Bears(added, kind, value)
  BY <1>2, <1>6 DEF Bears
<1>7. ASSUME added.builder, NEW value,
             value = CapabilityValue(active.document, OwnerOf(active.specs, call.method).urn, account),
             Parsed(value) = value, account = AccountFor(active, again)
      PROVE  Bears(added, MethodOf(active.specs, call.method).kind, value)
  BY <1>2, <1>3, <1>6, <1>7, BuiltBears DEF unnamed
<1> HIDE DEF account
<1> QED BY <1>2, <1>4, <1>5, <1>7 DEF Queued, again

\* The calls of one read ask for no more ids than the limit, split or not.
LEMMA PartsFit ==
    ASSUME ActiveInv, batch # NoBatch, NEW call \in Calls,
           NEW limit, limit = Limit(batch.active.document, "maxObjectsInGet", batch.active.account),
           NEW parts, parts = CallsFor(call.ids, limit)
    PROVE  /\ Len(parts) \in Nat /\ DOMAIN parts = 1 .. Len(parts)
           /\ \A i \in DOMAIN parts : Cardinality(ToSet(parts[i])) <= limit
<1>1. /\ limit \in Nat \ {0} /\ call.ids \in Seq(ToSet(call.ids)) /\ Len(Unique(call.ids)) \in Nat
      /\ Len(Unique(call.ids)) <= limit => parts = <<call.ids>>
  BY Oversized
<1>2. CASE Len(Unique(call.ids)) <= limit
  <2>1. Cardinality(ToSet(call.ids)) = Len(Unique(call.ids))
    BY <1>1, UniqueIs
  <2> QED BY <1>1, <1>2, <2>1
<1>3. CASE ~(Len(Unique(call.ids)) <= limit)
  <2>1. Len(Unique(call.ids)) > limit
    BY <1>1, <1>3
  <2>2. /\ parts \in Seq(Seq(ToSet(call.ids)))
        /\ \A i \in DOMAIN parts : /\ Len(parts[i]) <= limit /\ parts[i] \in Seq(ToSet(parts[i]))
                                   /\ Unique(parts[i]) = parts[i]
    BY <1>1, <2>1, Pieces
  <2>3. \A i \in DOMAIN parts : Cardinality(ToSet(parts[i])) = Len(parts[i])
    <3> SUFFICES ASSUME NEW i \in DOMAIN parts PROVE Cardinality(ToSet(parts[i])) = Len(parts[i])
      OBVIOUS
    <3>1. PICK part : part = parts[i] /\ part \in Seq(ToSet(part)) /\ Unique(part) = part
      BY <2>2
    <3> QED BY <3>1, UniqueIs
  <2> QED BY <2>2, <2>3
<1> QED BY <1>2, <1>3

ServedInv ==
    /\ batch.calls \in Seq(ToSet(batch.calls))
    /\ \A i \in DOMAIN batch.calls : Queued(batch.active, batch.calls[i])
    /\ RequestsAreServed

LEMMA ServedInit == Init => ServedInv
BY DEF Init, ServedInv, NoBatch, ToSet, RequestsAreServed

LEMMA ServedAdd == ASSUME ActiveInv, ServedInv, NEW call \in Calls, Add(call) PROVE ServedInv'
<1> DEFINE active == batch.active
           limit == Limit(active.document, "maxObjectsInGet", active.account)
           ids == IF MethodOf(active.specs, call.method).kind = "get"
                  THEN CallsFor(call.ids, limit) ELSE <<call.ids>>
           named == [call EXCEPT !.account = AccountFor(active, call)]
           added == [i \in DOMAIN ids |-> [named EXCEPT !.ids = ids[i]]]
<1>1. /\ batch # NoBatch /\ Accepts(active, call) /\ (call.builder => Builds(active, call))
      /\ batch' = [batch EXCEPT !.calls = @ \o added] /\ UNCHANGED request
  BY DEF Add
<1>2. IsActive(active) /\ DOMAIN batch = {"active", "calls"}
  BY <1>1 DEF ActiveInv
<1>3. batch'.active = active /\ batch'.calls = batch.calls \o added
  BY <1>1, <1>2
<1>4. /\ Len(ids) \in Nat /\ DOMAIN ids = 1 .. Len(ids)
      /\ MethodOf(active.specs, call.method).kind = "get" =>
           \A i \in DOMAIN ids : Cardinality(ToSet(ids[i])) <= limit
  <2>1. CASE MethodOf(active.specs, call.method).kind = "get"
    <3>1. ids = CallsFor(call.ids, limit)
      BY <2>1
    <3> HIDE DEF ids
    <3> QED BY <1>1, <2>1, <3>1, PartsFit
  <2>2. CASE MethodOf(active.specs, call.method).kind # "get"
    BY <2>2
  <2> QED BY <2>1, <2>2
<1> HIDE DEF ids
<1>5. ASSUME NEW i \in DOMAIN ids PROVE Queued(active, added[i])
  <2>1. MethodOf(active.specs, call.method).kind = "get" => Cardinality(ToSet(ids[i])) <= limit
    BY <1>4
  <2>2. added[i] = [[call EXCEPT !.account = AccountFor(active, call)] EXCEPT !.ids = ids[i]]
    OBVIOUS
  <2> HIDE DEF added
  <2> QED BY <1>1, <1>2, <2>1, <2>2, QueuedIs
<1> DEFINE S == ToSet(batch.calls) \cup {added[i] : i \in DOMAIN ids}
           n == Len(ids)
<1>6. added \in Seq(S) /\ batch.calls \in Seq(S) /\ Len(added) = Len(ids)
  <2>1. DOMAIN added = 1 .. n /\ n \in Nat /\ added = [i \in 1 .. n |-> added[i]]
    BY <1>4
  <2>2. batch.calls \in Seq(ToSet(batch.calls))
    BY DEF ServedInv
  <2>3. ToSet(batch.calls) \subseteq S /\ \A i \in 1 .. n : added[i] \in S
    BY <1>4
  <2> HIDE DEF added, S, n
  <2>4. added \in [1 .. n -> S]
    BY <2>1, <2>3
  <2>5. added \in Seq(S) /\ Len(added) = n
    BY <2>1, <2>4
  <2>6. batch.calls \in [1 .. Len(batch.calls) -> S] /\ Len(batch.calls) \in Nat
    BY <2>2, <2>3
  <2>7. batch.calls \in Seq(S)
    BY <2>6
  <2> QED BY <2>5, <2>7 DEF n
<1> HIDE DEF added, S
<1>7. /\ batch.calls \o added \in Seq(S)
      /\ \A i \in DOMAIN (batch.calls \o added) :
            \/ i \in DOMAIN batch.calls /\ (batch.calls \o added)[i] = batch.calls[i]
            \/ \E j \in DOMAIN added : (batch.calls \o added)[i] = added[j]
  BY <1>6
<1>8. DOMAIN added = DOMAIN ids
  BY DEF added
<1>9. \A i \in DOMAIN batch'.calls : Queued(batch'.active, batch'.calls[i])
  BY <1>3, <1>5, <1>7, <1>8 DEF ServedInv
<1>10. batch'.calls \in Seq(ToSet(batch'.calls))
  BY <1>3, <1>7, SeqOfItsElements
<1>11. RequestsAreServed'
  BY <1>1 DEF ServedInv, RequestsAreServed
<1> QED BY <1>9, <1>10, <1>11 DEF ServedInv

\* A plan passes on what the queued calls need.
LEMMA ServedExecute == ASSUME ActiveInv, ServedInv, NEW extra, Execute(extra) PROVE ServedInv'
<1> DEFINE active == batch.active
           using == UsingFor(active, batch.calls, extra)
           spoken == {active.specs[urn] : urn \in using \cap DOMAIN active.specs}
<1>1. /\ batch.calls # <<>> /\ using \subseteq Advertised(active.document, active.account)
      /\ request' = [active |-> active, calls |-> batch.calls, using |-> using, blob |-> NoSpec]
      /\ batch' = NoBatch
  BY DEF Execute
<1>2. IsActive(active)
  BY <1>1 DEF ActiveInv, NoBatch
<1>3. request'.active = active /\ request'.calls = batch.calls /\ request'.using = using
  BY <1>1
<1>4. \A i \in DOMAIN batch.calls : CallNeeds(active.specs, batch.calls[i]) \subseteq using
  BY DEF UsingFor
<1> HIDE DEF using
<1>5. ASSUME NEW i \in DOMAIN batch.calls
      PROVE  /\ Serves(spoken, using, batch.calls[i]) /\ Queued(active, batch.calls[i])
             /\ MethodOf(active.specs, batch.calls[i].method).names =>
                  \A type \in batch.calls[i].typeNames : Defining(active.specs, type) # NoSpec =>
                     \E other \in spoken : type \in DOMAIN other.types
  <2>1. Queued(active, batch.calls[i])
    BY DEF ServedInv
  <2>2. OwnerOf(active.specs, batch.calls[i].method) # NoSpec
    BY <2>1 DEF Queued
  <2> HIDE DEF spoken, active
  <2> QED BY <1>2, <1>4, <2>1, <2>2, NeedsServe DEF spoken, active
<1>6. active.specs = Resolve(active.document, active.account, Experimental)
  BY <1>2 DEF IsActive
<1> HIDE DEF active
<1>8. {request'.active.specs[urn] : urn \in request'.using \cap DOMAIN request'.active.specs} = spoken
  BY <1>3
<1> HIDE DEF spoken
<1>7. RequestsAreServed'
  BY <1>1, <1>3, <1>5, <1>6, <1>8 DEF RequestsAreServed, Queued
<1> QED BY <1>1, <1>7 DEF ServedInv, NoBatch, ToSet

LEMMA ServedNext == ASSUME SearchInv, ActiveInv, ServedInv, [Next]_vars PROVE ServedInv'
<1>1. CASE UNCHANGED <<batch, request>>
  BY <1>1 DEF ServedInv, RequestsAreServed
<1>2. CASE OpenBatch
  <2>1. batch'.calls = <<>> /\ request' = NoSession
    BY <1>2 DEF OpenBatch
  <2> QED BY <2>1 DEF ServedInv, RequestsAreServed, ToSet
<1>3. CASE Abandon
  <2>1. batch' = NoBatch /\ UNCHANGED request
    BY <1>3 DEF Abandon
  <2>2. batch'.calls = <<>>
    BY <2>1 DEF NoBatch
  <2>3. RequestsAreServed'
    BY <2>1 DEF ServedInv, RequestsAreServed
  <2> QED BY <2>2, <2>3 DEF ServedInv, ToSet
<1>4. CASE \E call \in Calls : Add(call)
  BY <1>4, ServedAdd
<1>5. CASE \E extra \in Extra : Execute(extra)
  BY <1>5, ServedExecute
<1>6. ASSUME NEW named, Connected, Blob(named) PROVE ServedInv'
  <2>1. UNCHANGED batch /\ request'.active = capabilities /\ request'.calls = <<>> /\ request'.using = {}
    BY <1>6 DEF Blob
  <2>2. capabilities.specs = Resolve(capabilities.document, capabilities.account, Experimental)
    BY <1>6 DEF ActiveInv, IsActive
  <2> QED BY <2>1, <2>2 DEF ServedInv, RequestsAreServed
<1>7. CASE \/ SearchNext /\ UNCHANGED <<clientVars, chunkVars>>
           \/ \E document \in Documents, named \in AccountIds : Connects(document, named)
           \/ Returns \/ Refresh \/ RefreshFails
           \/ \E document \in Documents : RefreshAnswered(document)
           \/ \E state \in States : Absorb(state)
           \/ ExecuteFails
           \/ ChunkNext /\ UNCHANGED <<searchVars, clientVars>>
           \/ UNCHANGED vars
  BY <1>1, <1>7 DEF Connects, Returns, Refresh, RefreshFails, RefreshAnswered, Absorb, ExecuteFails,
                    clientVars, vars
<1> QED BY <1>2, <1>3, <1>4, <1>5, <1>6, <1>7 DEF Next, Download, Upload

\* A request that is sent is one the server it was planned for takes (Batch.add, plan(),
\* using_for and the builders), for every registry, every document and every call: a queued
\* call keeps what its gates saw because a batch keeps the capabilities it was opened with.
THEOREM RequestsAreKeptServed == Spec => []RequestsAreServed
<1>1. Init => SearchInv /\ ActiveInv /\ ServedInv
  BY SearchInit0, ActiveInit, ServedInit
<1>2. SearchInv /\ ActiveInv /\ ServedInv /\ [Next]_vars => SearchInv' /\ ActiveInv' /\ ServedInv'
  BY SearchNextInv, ActiveNext, ServedNext
<1>3. ServedInv => RequestsAreServed
  BY DEF ServedInv
<1> QED BY <1>1, <1>2, <1>3, PTL DEF Spec
=============================================================================

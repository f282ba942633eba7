-------------------------- MODULE SourceCrawlProofs --------------------------
(***************************************************************************)
(* What the downloader delivers is the whole of one attempt, for any       *)
(* number of attempts, any chunks and any size limit; a crawl uses the     *)
(* downloader only as its calls allow; and what it finds on a disclosure   *)
(* page, of any length, is what the cards of the page mean.                *)
(***************************************************************************)
EXTENDS SourceCrawl, FiniteSetTheorems, SequenceTheorems, TLAPS

\* What has arrived is the beginning of what this attempt was sent, within the limit; past
\* the stream it is all of it, and what was delivered has passed inspection.
DownloaderInv ==
    /\ body \in Body
    /\ received \in Seq(Nat) /\ total \in Nat
    /\ call = "stream" => /\ Len(received) <= Len(body.chunks)
                          /\ \A i \in 1..Len(received) : received[i] = body.chunks[i]
                          /\ total <= MaxSize
    /\ call = "check" => Whole /\ total <= MaxSize
    /\ call \in {"attempt", "stream", "sleep", "check"} => outcome = "none"
    /\ outcome = "delivered" => Whole /\ total <= MaxSize /\ ~ Masquerades

\* No attempt has been made yet.
LEMMA DownloaderStart == DownloaderInit => DownloaderInv
<1>. SUFFICES ASSUME DownloaderInit PROVE DownloaderInv OBVIOUS
<1>1. body \in Body BY DownloaderAssumption DEF DownloaderInit
<1>. QED BY <1>1 DEF DownloaderInit, DownloaderInv

\* A new attempt starts from nothing, and only a stream that has ended is looked at.
LEMMA DownloaderStep == ASSUME DownloaderInv, [DownloaderNext]_dlvars PROVE DownloaderInv'
<1>. USE DownloaderAssumption DEF DownloaderInv, progress, Whole, Starts, AttemptFails
<1>1. CASE \E wanted, owned : Download(wanted, owned) BY <1>1 DEF Download
<1>2. CASE Answer
  <2>1. /\ body' \in Body /\ received' = << >> /\ total' = 0 /\ call' = "stream"
        /\ outcome' = outcome
    BY <1>2 DEF Answer
  <2>2. Len(body'.chunks) \in Nat BY <2>1 DEF Body
  <2>. QED BY <1>2, <2>1, <2>2 DEF Answer
<1>3. CASE NoAnswer BY <1>3 DEF NoAnswer
<1>4. CASE ReadFixture
  <2>1. body' \in Bodies /\ received' = body'.chunks /\ total' = Size[body'.chunks]
    BY <1>4 DEF ReadFixture
  <2>2. body' \in Body /\ received' \in Seq(Nat) /\ total' \in Nat BY <2>1 DEF Body
  <2>3. CASE total' > MaxSize BY <1>4, <2>2, <2>3 DEF ReadFixture
  <2>4. CASE ~ (total' > MaxSize) BY <1>4, <2>1, <2>2, <2>4 DEF ReadFixture
  <2>. QED BY <2>3, <2>4
<1>5. CASE NoFixture BY <1>5 DEF NoFixture
<1>6. CASE Chunk
  <2>1. /\ UNCHANGED <<call, body, outcome>> /\ call = "stream"
        /\ received' = Append(received, body.chunks[Len(received) + 1])
        /\ total' = NextSize /\ NextSize <= MaxSize /\ Rest
    BY <1>6 DEF Chunk
  <2>2. body.chunks \in Seq(Nat) BY DEF Body
  <2>3. Len(received) + 1 \in 1..Len(body.chunks) BY <2>1, <2>2 DEF Rest
  <2>4. body.chunks[Len(received) + 1] \in Nat BY <2>2, <2>3
  <2>5. received' \in Seq(Nat) /\ total' \in Nat BY <2>1, <2>4 DEF NextSize
  <2>6. \A i \in 1..Len(received') : received'[i] = body.chunks[i] BY <2>1, <2>4
  <2>7. Len(received') <= Len(body.chunks) BY <2>1, <2>3, <2>4
  <2>. QED BY <2>1, <2>5, <2>6, <2>7
<1>7. CASE Oversized
  <2>1. body.chunks \in Seq(Nat) BY DEF Body
  <2>2. body.chunks[Len(received) + 1] \in Nat BY <1>7, <2>1 DEF Oversized, Rest
  <2>. QED BY <1>7, <2>2 DEF Oversized, NextSize
<1>8. CASE BreaksOff BY <1>8 DEF BreaksOff
<1>9. CASE StreamEnds
  <2>1. received \in Seq(Nat) /\ body.chunks \in Seq(Nat) BY DEF Body
  <2>2. Len(received) = Len(body.chunks) BY <1>9, <2>1 DEF StreamEnds, Rest
  <2>3. received = body.chunks BY <1>9, <2>1, <2>2 DEF StreamEnds
  <2>. QED BY <1>9, <2>3 DEF StreamEnds
<1>10. CASE Sleep BY <1>10 DEF Sleep
<1>11. CASE Inspect BY <1>11 DEF Inspect, Masquerades, DetectMime
<1>12. CASE Escapes BY <1>12 DEF Escapes
<1>13. CASE Close BY <1>13 DEF Close, Masquerades, DetectMime
<1>14. CASE UNCHANGED dlvars BY <1>14 DEF dlvars, Masquerades, DetectMime
<1>. QED BY <1>1, <1>2, <1>3, <1>4, <1>5, <1>6, <1>7, <1>8, <1>9, <1>10, <1>11, <1>12,
            <1>13, <1>14 DEF DownloaderNext, Step, Transfer

\* A crawl calls the downloader as DownloaderSpec lets anyone call it, one call at a time.
THEOREM CrawlDownloads == CrawlSpec => DownloaderSpec
<1>1. CrawlInit => DownloaderInit BY DEF CrawlInit
<1>2. [CrawlNext]_vars => [DownloaderNext]_dlvars
  <2>. SUFFICES ASSUME [CrawlNext]_vars PROVE [DownloaderNext]_dlvars OBVIOUS
  <2>1. CASE DiscoverPage \/ DiscoverCatalog \/ SourceUnavailable \/ SourceEscapes
             \/ BeginFetch \/ FetchEnds \/ Ended \/ UNCHANGED vars
    BY <2>1 DEF DiscoverPage, DiscoverCatalog, Found, SourceUnavailable, SourceEscapes,
                BeginFetch, FetchEnds, Ended, vars
  <2>2. CASE \E owned \in BOOLEAN : Fetch(owned)
    BY <2>2 DEF Fetch, DownloaderNext
  <2>3. CASE Downloading BY <2>3 DEF Downloading, DownloaderNext
  <2>. QED BY <2>1, <2>2, <2>3 DEF CrawlNext
<1>. QED BY <1>1, <1>2, PTL DEF CrawlSpec, DownloaderSpec

\* Whatever a crawl downloads is whole, within the limit and no HTML page in place of a PDF.
THEOREM CrawlDeliversWhole == CrawlSpec => []DeliveredWhole
<1>1. DownloaderInv /\ [DownloaderNext]_dlvars => DownloaderInv' BY DownloaderStep
<1>2. DownloaderInv => DeliveredWhole
  <2>. SUFFICES ASSUME DownloaderInv, outcome = "delivered" PROVE DeliveredWhole
    BY DEF DeliveredWhole
  <2>1. Whole /\ total <= MaxSize /\ ~ Masquerades BY DEF DownloaderInv
  <2>2. ASSUME body.kind = "html" PROVE ~ request.pdfName /\ request.reported # "pdf"
    <3>1. ~ request.pdfName /\ DetectMime # "pdf" BY <2>1, <2>2 DEF Masquerades
    <3>2. body.kind \notin {"pdf", "known"} BY <2>2
    <3>. QED BY <3>1, <3>2 DEF DetectMime, NoMime
  <2>. QED BY <2>1, <2>2 DEF DeliveredWhole
<1>3. DownloaderSpec => []DeliveredWhole
  BY DownloaderStart, <1>1, <1>2, PTL DEF DownloaderSpec
<1>. QED BY CrawlDownloads, <1>3, PTL

-----------------------------------------------------------------------------
(* Backoff, by induction on the attempts: a set of counterexamples has a   *)
(* least element.                                                          *)

\* A set of naturals has a least element.
LEMMA LeastNatural ==
    ASSUME NEW T \in SUBSET Nat, T # {}
    PROVE  \E n \in T : \A m \in T : n <= m
<1> DEFINE R == StrictSubsetOrdering(Nat)
           below == {0..n : n \in T}
<1>1. IsWellFoundedOn(R, FiniteSubsetsOf(Nat))
  BY FS_StrictSubsetOrderingWellFounded
<1>2. below \subseteq FiniteSubsetsOf(Nat)
  <2>1. \A n \in T : IsFiniteSet(0..n) /\ 0..n \in SUBSET Nat
    BY FS_Interval
  <2>2. QED
    BY <2>1 DEF FiniteSubsetsOf
<1>3. below # {}
  OBVIOUS
<1> HIDE DEF R
<1>4. PICK x \in below : \A y \in below : ~ (<<y, x>> \in R)
  <2> HIDE DEF below
  <2> QED
    BY <1>1, <1>2, <1>3, WFMin
<1>5. PICK n \in T : x = 0..n
  BY <1>4
<1>6. ASSUME NEW m \in T
      PROVE  n <= m
  <2>1. ~ (<<0..m, 0..n>> \in R)
    BY <1>4, <1>5
  <2>2. ASSUME m < n PROVE FALSE
    <3>1. 0..m \in SUBSET Nat /\ 0..n \in SUBSET Nat /\ 0..m \subseteq 0..n /\ 0..m # 0..n
      <4>1. n \in 0..n /\ n \notin 0..m
        BY <2>2
      <4>2. 0..m \subseteq 0..n
        BY <2>2
      <4>3. 0..m \in SUBSET Nat /\ 0..n \in SUBSET Nat
        OBVIOUS
      <4>4. QED
        BY <4>1, <4>2, <4>3
    <3>2. QED
      BY <2>1, <3>1 DEF R, StrictSubsetOrdering
  <2>3. QED
    BY <2>2
<1>7. QED
  BY <1>6

\* g adds up the pauses as far as n.
Follows(g, n) ==
    g = [i \in 0..n |-> IF i = 0 THEN 0 ELSE g[i - 1] + BackoffBase * 2 ^ (i - 1)]

\* There is such a g for every n, though no function was assumed to solve the recursion.
LEMMA FollowerExists == \A n \in Nat : \E g : Follows(g, n)
<1> DEFINE T == {n \in Nat : ~ \E g : Follows(g, n)}
<1>1. SUFFICES ASSUME T # {} PROVE FALSE
  OBVIOUS
<1>2. PICK n \in T : \A m \in T : n <= m
  <2>1. T \in SUBSET Nat
    OBVIOUS
  <2> HIDE DEF T
  <2>2. QED
    BY <1>1, <2>1, LeastNatural
<1>3. CASE n = 0
  <2>1. Follows([i \in 0..0 |-> 0], 0)
    BY DEF Follows
  <2>2. QED
    BY <1>2, <1>3, <2>1
<1>4. CASE n # 0
  <2>1. n - 1 \in Nat /\ n - 1 \notin T /\ n \in Nat
    BY <1>2, <1>4
  <2>2. PICK g : Follows(g, n - 1)
    BY <2>1
  <2> DEFINE h == [i \in 0..n |-> IF i = n THEN g[n - 1] + BackoffBase * 2 ^ (n - 1) ELSE g[i]]
  <2>3. \A i \in 0..(n - 1) : g[i] = IF i = 0 THEN 0 ELSE g[i - 1] + BackoffBase * 2 ^ (i - 1)
    BY <2>2 DEF Follows
  <2>4. \A i \in 0..n : h[i] = IF i = 0 THEN 0 ELSE h[i - 1] + BackoffBase * 2 ^ (i - 1)
    BY <1>4, <2>1, <2>3
  <2>5. h = [i \in 0..n |-> h[i]]
    OBVIOUS
  <2> HIDE DEF h
  <2>6. Follows(h, n)
    BY <2>4, <2>5 DEF Follows
  <2>7. QED
    BY <1>2, <2>6
<1>5. QED
  BY <1>3, <1>4

\* Two of them agree where both are defined.
LEMMA FollowersAgree ==
    ASSUME NEW n \in Nat, NEW m \in Nat, NEW g, NEW h, Follows(g, n), Follows(h, m),
           NEW i \in Nat, i <= n, i <= m
    PROVE  g[i] = h[i]
<1> DEFINE T == {k \in Nat : k <= i /\ g[k] # h[k]}
<1>1. SUFFICES ASSUME T # {} PROVE FALSE
  OBVIOUS
<1>2. PICK k \in T : \A j \in T : k <= j
  <2>1. T \in SUBSET Nat
    OBVIOUS
  <2> HIDE DEF T
  <2>2. QED
    BY <1>1, <2>1, LeastNatural
<1>3. k \in 0..n /\ k \in 0..m
  BY <1>2
<1>4. /\ g[k] = IF k = 0 THEN 0 ELSE g[k - 1] + BackoffBase * 2 ^ (k - 1)
      /\ h[k] = IF k = 0 THEN 0 ELSE h[k - 1] + BackoffBase * 2 ^ (k - 1)
  BY <1>3 DEF Follows
<1>5. CASE k = 0
  BY <1>2, <1>4, <1>5
<1>6. CASE k # 0
  <2>1. k - 1 \in Nat /\ k - 1 \notin T /\ k - 1 <= i
    BY <1>2, <1>6
  <2>2. g[k - 1] = h[k - 1]
    BY <2>1
  <2>3. QED
    BY <1>2, <1>4, <1>6, <2>2
<1>7. QED
  BY <1>5, <1>6

\* So the recursion of Backoff has a solution, and each pause adds to the ones before.
LEMMA BackoffSum ==
    ASSUME NEW n \in Nat
    PROVE  Backoff[0] = 0 /\ Backoff[n + 1] = Backoff[n] + BackoffBase * 2 ^ n
<1> DEFINE G(k) == CHOOSE g : Follows(g, k)
           f == [k \in Nat |-> G(k)[k]]
<1>1. \A k \in Nat : Follows(G(k), k)
  BY FollowerExists
<1> HIDE DEF G
<1>2. ASSUME NEW k \in Nat
      PROVE  f[k] = IF k = 0 THEN 0 ELSE f[k - 1] + BackoffBase * 2 ^ (k - 1)
  <2>1. Follows(G(k), k) /\ k \in 0..k
    BY <1>1
  <2>2. G(k)[k] = IF k = 0 THEN 0 ELSE G(k)[k - 1] + BackoffBase * 2 ^ (k - 1)
    BY <2>1 DEF Follows
  <2>3. ASSUME k # 0 PROVE G(k)[k - 1] = G(k - 1)[k - 1]
    <3>1. k - 1 \in Nat /\ Follows(G(k - 1), k - 1)
      BY <1>1, <2>3
    <3>2. k - 1 <= k - 1 /\ k - 1 <= k
      BY <3>1
    <3>3. QED
      BY <2>1, <3>1, <3>2, FollowersAgree
  <2>4. QED
    BY <2>2, <2>3
<1>3. f = [k \in Nat |-> f[k]]
  OBVIOUS
<1> HIDE DEF f
<1>4. f = [k \in Nat |-> IF k = 0 THEN 0 ELSE f[k - 1] + BackoffBase * 2 ^ (k - 1)]
  BY <1>2, <1>3
<1>5. Backoff = [k \in Nat |-> IF k = 0 THEN 0 ELSE Backoff[k - 1] + BackoffBase * 2 ^ (k - 1)]
  BY <1>4 DEF Backoff
<1>6. QED
  <2>1. n + 1 \in Nat /\ n + 1 # 0 /\ (n + 1) - 1 = n
    OBVIOUS
  <2>2. Backoff[0] = 0
    BY <1>5
  <2>3. Backoff[n + 1] = Backoff[(n + 1) - 1] + BackoffBase * 2 ^ ((n + 1) - 1)
    BY <1>5, <2>1
  <2>4. QED
    BY <2>1, <2>2, <2>3

-----------------------------------------------------------------------------
(* Giving up.                                                              *)

\* The pauses slept are those before this attempt, and a failure was the last attempt's or
\* the page's.
PausesInv ==
    /\ attempt \in Nat
    /\ call \in {"attempt", "stream", "sleep", "check"} => slept = Backoff[attempt]
    /\ outcome = "download_error" =>
          slept = Backoff[attempt] /\ ((Whole /\ Masquerades) \/ attempt + 1 >= MaxRetries)

LEMMA PausesStart == DownloaderInit => PausesInv
BY DEF DownloaderInit, PausesInv

LEMMA PausesStep ==
    ASSUME DownloaderInv, PausesInv, [DownloaderNext]_dlvars
    PROVE  PausesInv'
<1>. USE DownloaderAssumption DEF PausesInv, progress, Whole, Masquerades, DetectMime
<1>1. CASE \E wanted, owned : Download(wanted, owned)
  BY <1>1, BackoffSum DEF Download
<1>2. CASE NoAnswer \/ NoFixture \/ Oversized \/ BreaksOff
  BY <1>2 DEF NoAnswer, NoFixture, Oversized, BreaksOff, Starts, AttemptFails, DownloaderInv
<1>3. CASE Answer
  BY <1>3 DEF Answer, Starts, DownloaderInv
<1>4. CASE Chunk \/ StreamEnds
  BY <1>4 DEF Chunk, StreamEnds, DownloaderInv
<1>5. CASE ReadFixture
  BY <1>5 DEF ReadFixture, Starts, AttemptFails, DownloaderInv
<1>6. CASE Sleep
  <2>1. attempt' = attempt + 1 /\ slept' = Backoff[attempt] + BackoffBase * 2 ^ attempt
        /\ call' = "attempt" /\ outcome' = "none" /\ attempt \in Nat
    BY <1>6 DEF Sleep, DownloaderInv
  <2>2. slept' = Backoff[attempt + 1]
    BY <2>1, BackoffSum
  <2>. QED
    BY <2>1, <2>2
<1>7. CASE Inspect
  BY <1>7 DEF Inspect, DownloaderInv
<1>8. CASE Escapes \/ Close \/ UNCHANGED dlvars
  BY <1>8 DEF Escapes, Close, dlvars
<1>. QED
  BY <1>1, <1>2, <1>3, <1>4, <1>5, <1>6, <1>7, <1>8 DEF DownloaderNext, Step, Transfer

\* A download is reported failed only when all its attempts failed, with every pause between
\* them and none after the last, or when what came whole is an HTML page.
THEOREM CrawlGivesUpLast == CrawlSpec => []GivesUpLast
<1>1. DownloaderInv /\ PausesInv /\ [DownloaderNext]_dlvars => (DownloaderInv /\ PausesInv)'
  BY DownloaderStep, PausesStep
<1>2. PausesInv => GivesUpLast
  BY DEF PausesInv, GivesUpLast
<1>3. DownloaderSpec => []GivesUpLast
  BY DownloaderStart, PausesStart, <1>1, <1>2, PTL DEF DownloaderSpec
<1>. QED
  BY CrawlDownloads, <1>3, PTL

-----------------------------------------------------------------------------
(* Positions in order.                                                     *)

\* f enumerates S upwards.
Lists(f, S) ==
    /\ f \in [1..Cardinality(S) -> S]
    /\ \A i, j \in DOMAIN f : i < j => f[i] < f[j]

\* Every finite set of positions can be enumerated upwards: the largest comes last.
LEMMA AscendingExists == \A n \in Nat : \A S \in SUBSET (1..n) : \E f : Lists(f, S)
<1> DEFINE T == {n \in Nat : \E S \in SUBSET (1..n) : ~ \E f : Lists(f, S)}
<1>1. SUFFICES ASSUME T # {} PROVE FALSE
  OBVIOUS
<1>2. PICK n \in T : \A m \in T : n <= m
  <2>1. T \in SUBSET Nat
    OBVIOUS
  <2> HIDE DEF T
  <2>2. QED
    BY <1>1, <2>1, LeastNatural
<1>3. PICK S \in SUBSET (1..n) : ~ \E f : Lists(f, S)
  BY <1>2
<1>4. n \in Nat /\ n # 0
  <2>1. n \in Nat
    BY <1>2
  <2>2. ASSUME n = 0 PROVE FALSE
    <3>1. S = {} /\ 1..0 = {}
      BY <1>3, <2>2
    <3>2. Lists([k \in 1..0 |-> 0], {})
      BY <3>1, FS_EmptySet DEF Lists
    <3>3. QED
      BY <1>3, <3>1, <3>2
  <2>3. QED
    BY <2>1, <2>2
<1>5. n - 1 \in Nat /\ \A R \in SUBSET (1..(n - 1)) : \E f : Lists(f, R)
  <2>1. n - 1 \in Nat
    BY <1>4
  <2>2. n - 1 \notin T
    <3> HIDE DEF T
    <3>1. QED
      BY <1>2, <1>4
  <2>3. QED
    BY <2>1, <2>2
<1> HIDE DEF T
<1>6. PICK f : Lists(f, S \ {n})
  <2>1. S \ {n} \in SUBSET (1..(n - 1))
    BY <1>3, <1>4
  <2>2. QED
    BY <1>5, <2>1
<1>7. n \in S
  BY <1>3, <1>6
<1> DEFINE c == Cardinality(S)
<1>8. c \in Nat /\ c # 0 /\ Cardinality(S \ {n}) = c - 1
  <2>1. IsFiniteSet(S)
    <3>1. IsFiniteSet(1..n)
      BY <1>4, FS_Interval
    <3>2. QED
      BY <1>3, <3>1, FS_Subset
  <2>2. QED
    BY <1>7, <2>1, FS_RemoveElement, FS_CardinalityType, FS_EmptySet
<1> DEFINE g == [k \in 1..c |-> IF k = c THEN n ELSE f[k]]
<1>9. \A k \in 1..(c - 1) : f[k] \in S /\ f[k] \in Nat /\ f[k] < n
  <2>1. \A k \in 1..(c - 1) : f[k] \in S \ {n}
    BY <1>6, <1>8 DEF Lists
  <2>2. \A x \in S \ {n} : x \in Nat /\ x < n
    BY <1>3, <1>4
  <2>3. QED
    BY <2>1, <2>2
<1>10. \A i, j \in 1..(c - 1) : i < j => f[i] < f[j]
  <2>1. DOMAIN f = 1..(c - 1)
    BY <1>6, <1>8 DEF Lists
  <2>2. QED
    BY <1>6, <2>1 DEF Lists
<1>11. g \in [1..c -> S]
  <2>1. ASSUME NEW k \in 1..c PROVE g[k] \in S
    <3>1. CASE k = c
      BY <1>7, <3>1
    <3>2. CASE k # c
      <4>1. k \in 1..(c - 1)
        BY <1>8, <3>2
      <4>2. QED
        BY <1>9, <3>2, <4>1
    <3>3. QED
      BY <3>1, <3>2
  <2>2. QED
    BY <2>1
<1>12. \A i, j \in DOMAIN g : i < j => g[i] < g[j]
  <2>1. SUFFICES ASSUME NEW i \in 1..c, NEW j \in 1..c, i < j
        PROVE  (IF i = c THEN n ELSE f[i]) < (IF j = c THEN n ELSE f[j])
    OBVIOUS
  <2> HIDE DEF c, g
  <2>2. i # c /\ i \in 1..(c - 1)
    BY <1>8, <2>1
  <2>3. CASE j = c
    BY <1>9, <2>2, <2>3
  <2>4. CASE j # c
    <3>1. j \in 1..(c - 1)
      BY <1>8, <2>1, <2>4
    <3>2. QED
      BY <1>10, <2>1, <2>2, <2>4, <3>1
  <2>5. QED
    BY <2>3, <2>4
<1>13. Lists(g, S)
  BY <1>11, <1>12 DEF Lists
<1>14. QED
  BY <1>3, <1>13

\* Ascending goes up through all of S, and only through S.
LEMMA AscendingLists ==
    ASSUME NEW n \in Nat, NEW S \in SUBSET (1..n)
    PROVE  /\ Cardinality(S) \in Nat
           /\ Ascending(S) \in [1..Cardinality(S) -> S]
           /\ DOMAIN Ascending(S) = 1..Cardinality(S)
           /\ \A i, j \in 1..Cardinality(S) : i < j => Ascending(S)[i] < Ascending(S)[j]
           /\ \A x \in S : \E k \in 1..Cardinality(S) : Ascending(S)[k] = x
<1> DEFINE c == Cardinality(S)
           f == Ascending(S)
<1>1. IsFiniteSet(S) /\ c \in Nat
  <2>1. IsFiniteSet(1..n)
    BY FS_Interval
  <2>2. IsFiniteSet(S)
    BY <2>1, FS_Subset
  <2>3. QED
    BY <2>2, FS_CardinalityType
<1>2. f \in [1..c -> S] /\ \A i, j \in DOMAIN f : i < j => f[i] < f[j]
  <2>1. PICK g : Lists(g, S)
    BY AscendingExists
  <2>2. \E h \in [1..c -> S] : \A i, j \in DOMAIN h : i < j => h[i] < h[j]
    BY <2>1 DEF Lists
  <2>3. QED
    BY <2>2 DEF Ascending
<1> HIDE DEF c, f
<1>3. DOMAIN f = 1..c
  BY <1>2
<1>4. ASSUME NEW i \in 1..c, NEW j \in 1..c, f[i] = f[j] PROVE i = j
  <2>1. f[i] \in Nat /\ f[j] \in Nat
    <3>1. f[i] \in S /\ f[j] \in S
      BY <1>2
    <3>2. \A x \in S : x \in Nat
      OBVIOUS
    <3>3. QED
      BY <3>1, <3>2
  <2>2. ~ (i < j) /\ ~ (j < i)
    BY <1>2, <1>3, <1>4, <2>1
  <2>3. QED
    BY <1>1, <2>2
<1>5. f \in Injection(1..c, S)
  BY <1>2, <1>3, <1>4 DEF Injection, IsInjective
<1>6. Cardinality(1..c) = c
  BY <1>1, FS_Interval
<1>7. f \in Surjection(1..c, S)
  BY <1>1, <1>5, <1>6, FS_Injection DEF c
<1>8. \A x \in S : \E k \in 1..c : f[k] = x
  BY <1>7 DEF Surjection
<1>9. QED
  BY <1>1, <1>2, <1>3, <1>8 DEF c, f

-----------------------------------------------------------------------------
(* FlattenSeq.                                                             *)

\* f concatenates the first n members of seqs.
Joins(f, seqs, n) == f = [i \in 1..n |-> IF i = 1 THEN seqs[i] ELSE f[i - 1] \o seqs[i]]

\* There is such an f for every n: what FlattenSeq chooses exists.
LEMMA JoinerExists == ASSUME NEW seqs PROVE \A n \in Nat : \E f : Joins(f, seqs, n)
<1> DEFINE T == {n \in Nat : ~ \E f : Joins(f, seqs, n)}
<1>1. SUFFICES ASSUME T # {} PROVE FALSE
  OBVIOUS
<1>2. PICK n \in T : \A m \in T : n <= m
  <2>1. T \in SUBSET Nat
    OBVIOUS
  <2> HIDE DEF T
  <2>2. QED
    BY <1>1, <2>1, LeastNatural
<1>3. CASE n = 0
  <2>1. Joins([i \in 1..0 |-> 0], seqs, 0)
    BY DEF Joins
  <2>2. QED
    BY <1>2, <1>3, <2>1
<1>4. CASE n # 0
  <2>1. n - 1 \in Nat /\ n - 1 \notin T /\ n \in Nat
    BY <1>2, <1>4
  <2>2. PICK g : Joins(g, seqs, n - 1)
    BY <2>1
  <2> DEFINE h == [i \in 1..n |-> IF i < n THEN g[i]
                                  ELSE IF n = 1 THEN seqs[n] ELSE g[n - 1] \o seqs[n]]
  <2>3. \A i \in 1..(n - 1) : g[i] = IF i = 1 THEN seqs[i] ELSE g[i - 1] \o seqs[i]
    BY <2>2 DEF Joins
  <2>4. \A i \in 1..n : h[i] = IF i = 1 THEN seqs[i] ELSE h[i - 1] \o seqs[i]
    BY <1>4, <2>1, <2>3
  <2>5. h = [i \in 1..n |-> h[i]]
    OBVIOUS
  <2> HIDE DEF h
  <2>6. Joins(h, seqs, n)
    BY <2>4, <2>5 DEF Joins
  <2>7. QED
    BY <1>2, <2>6
<1>5. QED
  BY <1>3, <1>4

\* What s has beyond the length of own is in one of the members m..n of seqs.
From(s, own, seqs, m, n) ==
    \A p \in 1..Len(s) : \/ p <= Len(own)
                         \/ \E k \in m..n : \E q \in 1..Len(seqs[k]) : s[p] = seqs[k][q]

\* s begins as the first of the members 1..n of seqs that is not empty.
Begins(s, seqs, n) ==
    \/ s = << >> /\ \A l \in 1..n : seqs[l] = << >>
    \/ /\ s # << >>
       /\ \E k \in 1..n : /\ seqs[k] # << >> /\ Head(s) = Head(seqs[k])
                          /\ \A l \in 1..(k - 1) : seqs[l] = << >>

\* A concatenation begins as its first part, if that is not empty.
LEMMA BeginsOn ==
    ASSUME NEW A, NEW m \in Nat, m > 1, NEW seqs, NEW g \in Seq(A), NEW s \in Seq(A),
           s = seqs[m], Begins(g, seqs, m - 1)
    PROVE  Begins(g \o s, seqs, m)
<1>1. CASE g = << >>
  <2>1. g \o s = s
    BY <1>1
  <2>2. \A l \in 1..(m - 1) : seqs[l] = << >>
    BY <1>1 DEF Begins
  <2>3. \A l \in 1..m : l = m \/ l \in 1..(m - 1)
    OBVIOUS
  <2>4. m \in 1..m
    OBVIOUS
  <2>5. QED
    BY <2>1, <2>2, <2>3, <2>4 DEF Begins
<1>2. CASE g # << >>
  <2>1. g \o s # << >> /\ Head(g \o s) = Head(g)
    BY <1>2
  <2>2. PICK k \in 1..(m - 1) : /\ seqs[k] # << >> /\ Head(g) = Head(seqs[k])
                                /\ \A l \in 1..(k - 1) : seqs[l] = << >>
    BY <1>2 DEF Begins
  <2>3. k \in 1..m
    OBVIOUS
  <2>4. QED
    BY <2>1, <2>2, <2>3 DEF Begins
<1>3. QED
  BY <1>1, <1>2

\* A sequence of sequences flattens to one that begins with the first of them and whose
\* elements are theirs.
LEMMA Flattened ==
    ASSUME NEW A, NEW n \in Nat \ {0}, NEW seqs \in [1..n -> Seq(A)]
    PROVE  /\ FlattenSeq(seqs) \in Seq(A)
           /\ Len(seqs[1]) <= Len(FlattenSeq(seqs))
           /\ \A p \in 1..Len(seqs[1]) : FlattenSeq(seqs)[p] = seqs[1][p]
           /\ From(FlattenSeq(seqs), seqs[1], seqs, 2, n)
           /\ Begins(FlattenSeq(seqs), seqs, n)
           /\ n = 1 => FlattenSeq(seqs) = seqs[1]
<1> DEFINE f == CHOOSE g : g = [i \in 1..Len(seqs) |->
                                  IF i = 1 THEN seqs[i] ELSE g[i - 1] \o seqs[i]]
<1>1. Len(seqs) = n /\ seqs \in Seq(Seq(A))
  OBVIOUS
<1>2. f = [i \in 1..n |-> IF i = 1 THEN seqs[i] ELSE f[i - 1] \o seqs[i]]
  BY <1>1, JoinerExists DEF Joins
<1>3. FlattenSeq(seqs) = f[n]
  BY <1>1 DEF FlattenSeq
<1> HIDE DEF f
<1>4. \A i \in 1..n : f[i] = IF i = 1 THEN seqs[i] ELSE f[i - 1] \o seqs[i]
  BY <1>2
<1> DEFINE Good(m) ==
      /\ f[m] \in Seq(A)
      /\ Len(seqs[1]) <= Len(f[m])
      /\ \A p \in 1..Len(seqs[1]) : f[m][p] = seqs[1][p]
      /\ \A p \in 1..Len(f[m]) :
           \/ p <= Len(seqs[1])
           \/ \E k \in 2..n : \E q \in 1..Len(seqs[k]) : f[m][p] = seqs[k][q]
      /\ Begins(f[m], seqs, m)
<1>5. f[1] = seqs[1] /\ Good(1)
  <2>1. 1 \in 1..n
    OBVIOUS
  <2>2. f[1] = seqs[1]
    BY <1>4, <2>1
  <2>3. seqs[1] \in Seq(A)
    BY <2>1
  <2>4. Len(seqs[1]) \in Nat
    BY <2>3
  <2>5. Begins(seqs[1], seqs, 1)
    <3>1. \A l \in 1..1 : l = 1
      OBVIOUS
    <3>2. 1 \in 1..1 /\ 1..(1 - 1) = {}
      OBVIOUS
    <3>3. QED
      BY <3>1, <3>2 DEF Begins
  <2>6. QED
    BY <2>2, <2>3, <2>4, <2>5
<1>6. ASSUME NEW m \in 2..n, Good(m - 1) PROVE Good(m)
  <2> DEFINE g == f[m - 1]
             s == seqs[m]
  <2>0. m \in 1..n /\ 1 \in 1..n /\ m # 1
    OBVIOUS
  <2>1. f[m] = g \o s
    BY <1>4, <2>0
  <2>2. s \in Seq(A) /\ seqs[1] \in Seq(A) /\ g \in Seq(A)
    BY <1>6, <2>0
  <2>a. /\ Len(seqs[1]) <= Len(g)
        /\ \A p \in 1..Len(seqs[1]) : g[p] = seqs[1][p]
        /\ \A p \in 1..Len(g) :
             \/ p <= Len(seqs[1])
             \/ \E k \in 2..n : \E q \in 1..Len(seqs[k]) : g[p] = seqs[k][q]
        /\ Begins(g, seqs, m - 1)
    BY <1>6
  <2>b. s = seqs[m]
    OBVIOUS
  <2> HIDE DEF g, s
  <2>3. Len(s) \in Nat /\ Len(seqs[1]) \in Nat /\ Len(g) \in Nat
    BY <2>2
  <2>4. /\ f[m] \in Seq(A)
        /\ Len(f[m]) = Len(g) + Len(s)
        /\ \A p \in 1..Len(f[m]) :
              f[m][p] = IF p <= Len(g) THEN g[p] ELSE s[p - Len(g)]
    <3>1. /\ g \o s \in Seq(A)
          /\ Len(g \o s) = Len(g) + Len(s)
          /\ \A p \in 1..Len(g) + Len(s) :
                (g \o s)[p] = IF p <= Len(g) THEN g[p] ELSE s[p - Len(g)]
      BY <2>2, ConcatProperties
    <3>2. QED
      BY <2>1, <3>1
  <2>5. Len(seqs[1]) <= Len(f[m])
    BY <2>a, <2>3, <2>4
  <2>6. \A p \in 1..Len(seqs[1]) : f[m][p] = seqs[1][p]
    <3>1. SUFFICES ASSUME NEW p \in 1..Len(seqs[1]) PROVE f[m][p] = seqs[1][p]
      OBVIOUS
    <3>2. p \in 1..Len(f[m]) /\ p <= Len(g)
      BY <2>a, <2>3, <2>4
    <3>3. g[p] = seqs[1][p]
      BY <2>a
    <3>4. QED
      BY <2>4, <3>2, <3>3
  <2>7. ASSUME NEW p \in 1..Len(f[m]), ~ (p <= Len(seqs[1]))
        PROVE  \E k \in 2..n : \E q \in 1..Len(seqs[k]) : f[m][p] = seqs[k][q]
    <3>1. CASE p <= Len(g)
      <4>1. p \in 1..Len(g) /\ f[m][p] = g[p]
        BY <2>3, <2>4, <3>1
      <4>2. \E k \in 2..n : \E q \in 1..Len(seqs[k]) : g[p] = seqs[k][q]
        BY <2>a, <2>7, <4>1
      <4>3. QED
        BY <4>1, <4>2
    <3>2. CASE ~ (p <= Len(g))
      <4>1. p - Len(g) \in 1..Len(s)
        BY <2>3, <2>4, <3>2
      <4>2. f[m][p] = s[p - Len(g)]
        BY <2>4, <3>2
      <4>3. QED
        BY <2>b, <4>1, <4>2
    <3>3. QED
      BY <3>1, <3>2
  <2>8. Begins(f[m], seqs, m)
    <3>1. m \in Nat /\ m > 1
      BY <1>6
    <3>2. Begins(g, seqs, m - 1)
      BY <2>a
    <3>3. Begins(g \o s, seqs, m)
      BY <2>b, <2>2, <3>1, <3>2, BeginsOn
    <3>4. QED
      BY <2>1, <3>3
  <2>9. QED
    BY <2>4, <2>5, <2>6, <2>7, <2>8
<1> HIDE DEF Good
<1>7. \A m \in 1..n : Good(m)
  <2> DEFINE T == {m \in 1..n : ~ Good(m)}
  <2>1. SUFFICES ASSUME T # {} PROVE FALSE
    OBVIOUS
  <2>2. PICK m \in T : \A l \in T : m <= l
    <3>1. T \in SUBSET Nat
      OBVIOUS
    <3> HIDE DEF T
    <3>2. QED
      BY <2>1, <3>1, LeastNatural
  <2>3. m # 1
    BY <1>5, <2>2
  <2>4. m \in 2..n /\ m - 1 \in 1..n /\ m - 1 \notin T
    BY <2>2, <2>3
  <2>5. Good(m - 1)
    BY <2>4
  <2>6. QED
    BY <1>6, <2>2, <2>4, <2>5
<1>8. Good(n) /\ n \in Nat
  BY <1>7
<1>9. QED
  <2>1. Good(n)
    BY <1>8
  <2>2. n = 1 => FlattenSeq(seqs) = seqs[1]
    BY <1>3, <1>5
  <2>3. QED
    BY <1>3, <2>1, <2>2 DEF Good, From

-----------------------------------------------------------------------------
(* The disclosure page.                                                    *)

\* At leaves out none of the chosen elements of a sequence.
LEMMA AtHasAll ==
    ASSUME NEW n \in Nat, NEW S \in SUBSET (1..n), NEW s, NEW x \in S
    PROVE  s[x] \in ToSet(At(s, S))
<1>1. /\ DOMAIN Ascending(S) = 1..Cardinality(S)
      /\ \A y \in S : \E k \in 1..Cardinality(S) : Ascending(S)[k] = y
  BY AscendingLists
<1>2. QED
  BY <1>1 DEF At, ToSet

\* The window of a title reaches at least to the title itself, and never past another one.
LEMMA WindowEndIs ==
    ASSUME NEW page \in Seq(Card), NEW i \in DOMAIN page
    PROVE  /\ WindowEnd(page, i) \in i..Len(page)
           /\ (i + 1)..WindowEnd(page, i) \cap TitlesOf(page) = {}
<1> DEFINE N == Len(page)
           W == {j \in i..N : (i + 1)..j \cap TitlesOf(page) = {}}
           D == {N - j : j \in W}
<1>1. N \in Nat /\ i \in 1..N
  OBVIOUS
<1>2. i \in W
  BY <1>1
<1>3. PICK d \in D : \A m \in D : d <= m
  <2>1. D # {} /\ D \in SUBSET Nat
    <3> HIDE DEF N
    <3>1. QED
      BY <1>1, <1>2
  <2> HIDE DEF D
  <2>2. QED
    BY <2>1, LeastNatural
<1>4. PICK x \in W : d = N - x
  BY <1>3
<1>5. \A y \in W : x >= y
  <2>1. \A y \in W : N - y \in D
    OBVIOUS
  <2>2. \A y \in W : y \in Int
    BY <1>1
  <2> HIDE DEF D, W, N
  <2>3. QED
    BY <1>1, <1>3, <1>4, <2>1, <2>2
<1>6. WindowEnd(page, i) \in W
  <2>1. WindowEnd(page, i) = CHOOSE z \in W : \A y \in W : z >= y
    BY DEF WindowEnd, Max
  <2> HIDE DEF W
  <2>2. QED
    BY <1>5, <2>1
<1>7. QED
  BY <1>6

\* days and links begin with the card's own, and what follows is from the cards below it that
\* the window takes in, the first date from the first of them that has one.
WindowRead(page, i, days, links) ==
    /\ page[i].days \in Seq(Nat) /\ page[i].links \in Seq(Links)
    /\ days \in Seq(Nat) /\ links \in Seq(Links)
    /\ Len(page[i].days) <= Len(days) /\ Len(page[i].links) <= Len(links)
    /\ \A p \in 1..Len(page[i].days) : days[p] = page[i].days[p]
    /\ \A p \in 1..Len(page[i].links) : links[p] = page[i].links[p]
    /\ From(links, page[i].links, [j \in DOMAIN page |-> page[j].links],
            i + 1, WindowEnd(page, i))
    /\ days # << >> => \E j \in i..WindowEnd(page, i) :
                          /\ page[j].days # << >> /\ Head(days) = Head(page[j].days)
                          /\ \A l \in i..(j - 1) : page[l].days = << >>
    /\ WindowEnd(page, i) = i => days = page[i].days /\ links = page[i].links

\* That is how the dates and the links of a title are read.
LEMMA WindowData ==
    ASSUME NEW page \in Seq(Card), NEW i \in DOMAIN page
    PROVE  WindowRead(page, i, DaysIn(CardWindow(page, i)), LinksIn(CardWindow(page, i)))
<1> DEFINE e == WindowEnd(page, i)
           cards == CardWindow(page, i)
           days == DaysIn(cards)
           links == LinksIn(cards)
           n == e - i + 1
           ds == [k \in 1..n |-> cards[k].days]
           ls == [k \in 1..n |-> cards[k].links]
<1>1. e \in i..Len(page) /\ i \in 1..Len(page) /\ Len(page) \in Nat
  BY WindowEndIs
<1>2. \A k \in 1..Len(page) : page[k] \in Card
  OBVIOUS
<1>3. /\ cards \in Seq(Card) /\ Len(cards) = n
      /\ \A k \in 1..n : cards[k] = page[i + k - 1]
  <2>1. \A k \in i..e : page[k] \in Card
    BY <1>1, <1>2
  <2>2. e \in Int /\ i \in Int /\ i <= e
    BY <1>1
  <2> HIDE DEF e
  <2>3. QED
    BY <2>1, <2>2, SubSeqProperties DEF CardWindow, e
<1> HIDE DEF e, cards, days, links
<1>4. DOMAIN cards = 1..n /\ n \in Nat \ {0}
  BY <1>1, <1>3
<1>5. days = FlattenSeq(ds) /\ links = FlattenSeq(ls)
  BY <1>4 DEF DaysIn, LinksIn, days, links
<1>6. \A k \in 1..n : cards[k].days \in Seq(Nat) /\ cards[k].links \in Seq(Links)
  <2>1. \A k \in 1..n : cards[k] \in Card
    BY <1>3
  <2>2. QED
    BY <2>1 DEF Card
<1>7. ds \in [1..n -> Seq(Nat)] /\ ls \in [1..n -> Seq(Links)]
  BY <1>6
<1>8. 1 \in 1..n /\ i + 1 - 1 = i
  BY <1>1
<1>9. ds[1] = page[i].days /\ ls[1] = page[i].links
  <2>1. cards[1] = page[i]
    BY <1>3, <1>8
  <2>2. QED
    BY <1>8, <2>1
<1>10. \A k \in 2..n : i + k - 1 \in (i + 1)..e /\ i + k - 1 \in DOMAIN page
                        /\ ls[k] = page[i + k - 1].links
  <2>1. \A k \in 2..n : k \in 1..n /\ i + k - 1 \in (i + 1)..e /\ i + k - 1 \in 1..Len(page)
    BY <1>1
  <2>2. DOMAIN page = 1..Len(page)
    OBVIOUS
  <2>3. QED
    BY <1>3, <2>1, <2>2
<1>11. n = 1 <=> e = i
  BY <1>1
<1>12. ds[1] \in Seq(Nat) /\ ls[1] \in Seq(Links)
  BY <1>7, <1>8
<1>a. \A k \in 1..n : ds[k] = page[i + k - 1].days
  BY <1>3
<1> HIDE DEF n, ds, ls
<1>13. /\ FlattenSeq(ds) \in Seq(Nat)
       /\ Len(ds[1]) <= Len(FlattenSeq(ds))
       /\ \A p \in 1..Len(ds[1]) : FlattenSeq(ds)[p] = ds[1][p]
       /\ Begins(FlattenSeq(ds), ds, n)
       /\ n = 1 => FlattenSeq(ds) = ds[1]
  BY <1>4, <1>7, Flattened
<1>14. /\ FlattenSeq(ls) \in Seq(Links)
       /\ Len(ls[1]) <= Len(FlattenSeq(ls))
       /\ \A p \in 1..Len(ls[1]) : FlattenSeq(ls)[p] = ls[1][p]
       /\ From(FlattenSeq(ls), ls[1], ls, 2, n)
       /\ n = 1 => FlattenSeq(ls) = ls[1]
  BY <1>4, <1>7, Flattened
<1>15. From(links, page[i].links, [j \in DOMAIN page |-> page[j].links], i + 1, e)
  <2>1. ASSUME NEW p \in 1..Len(links), ~ (p <= Len(page[i].links))
        PROVE  \E j \in (i + 1)..e : \E q \in 1..Len([l \in DOMAIN page |-> page[l].links][j]) :
                  links[p] = [l \in DOMAIN page |-> page[l].links][j][q]
    <3>1. PICK k \in 2..n : \E q \in 1..Len(ls[k]) : links[p] = ls[k][q]
      BY <1>5, <1>9, <1>14, <2>1 DEF From
    <3>2. i + k - 1 \in (i + 1)..e
          /\ ls[k] = [l \in DOMAIN page |-> page[l].links][i + k - 1]
      BY <1>10
    <3>3. QED
      BY <3>1, <3>2
  <2>2. QED
    BY <2>1 DEF From
<1>16. ASSUME days # << >>
       PROVE  \E j \in i..e : /\ page[j].days # << >> /\ Head(days) = Head(page[j].days)
                              /\ \A l \in i..(j - 1) : page[l].days = << >>
  <2>1. PICK k \in 1..n : /\ ds[k] # << >> /\ Head(days) = Head(ds[k])
                          /\ \A l \in 1..(k - 1) : ds[l] = << >>
    BY <1>5, <1>13, <1>16 DEF Begins
  <2>2. i \in Nat /\ e \in Nat /\ n = e - i + 1
    BY <1>1 DEF n
  <2>3. i + k - 1 \in i..e
    BY <2>2
  <2>4. ASSUME NEW l \in i..(i + k - 1 - 1) PROVE page[l].days = << >>
    <3>1. l - i + 1 \in 1..(k - 1) /\ l - i + 1 \in 1..n /\ i + (l - i + 1) - 1 = l
      BY <2>2
    <3>2. QED
      BY <1>a, <2>1, <3>1
  <2>5. ds[k] = page[i + k - 1].days
    BY <1>a
  <2> DEFINE j == i + k - 1
  <2>6. /\ j \in i..e /\ page[j].days # << >> /\ Head(days) = Head(page[j].days)
        /\ \A l \in i..(j - 1) : page[l].days = << >>
    BY <2>1, <2>3, <2>4, <2>5
  <2> HIDE DEF j
  <2>7. QED
    BY <2>6
<1>17. QED
  BY <1>5, <1>9, <1>11, <1>12, <1>13, <1>14, <1>15, <1>16 DEF WindowRead, e, cards, days, links

\* A complete card that the parser knows is listed, and its date is its own.
LEMMA CompleteIsListed ==
    ASSUME NEW page \in Seq(Card), NEW i \in TitlesOf(page), Complete(page[i])
    PROVE  /\ i \in Listed(page)
           /\ Head(DaysIn(CardWindow(page, i))) = Head(page[i].days)
<1> DEFINE days == DaysIn(CardWindow(page, i))
           links == LinksIn(CardWindow(page, i))
<1>1. i \in DOMAIN page
  BY DEF TitlesOf
<1>2. /\ page[i].days \in Seq(Nat) /\ page[i].links \in Seq(Links)
      /\ days \in Seq(Nat) /\ links \in Seq(Links)
      /\ Len(page[i].days) <= Len(days) /\ Len(page[i].links) <= Len(links)
      /\ \A p \in 1..Len(page[i].days) : days[p] = page[i].days[p]
  <2>1. WindowRead(page, i, days, links)
    BY <1>1, WindowData
  <2> HIDE DEF days, links
  <2>2. QED
    BY <2>1 DEF WindowRead
<1> HIDE DEF days, links
<1>3. page[i].days # << >> /\ page[i].links # << >>
  BY DEF Complete
<1>4. Len(page[i].days) \in Nat \ {0} /\ Len(page[i].links) \in Nat \ {0}
  BY <1>2, <1>3
<1>5. days # << >> /\ links # << >>
  <2>1. Len(days) \in Nat /\ Len(links) \in Nat /\ Len(<< >>) = 0
    BY <1>2
  <2>2. Len(days) # 0 /\ Len(links) # 0
    <3>1. \A m, n \in Nat : m # 0 /\ m <= n => n # 0
      OBVIOUS
    <3>2. Len(page[i].days) \in Nat /\ Len(page[i].days) # 0 /\ Len(page[i].days) <= Len(days)
      BY <1>2, <1>4
    <3>3. Len(page[i].links) \in Nat /\ Len(page[i].links) # 0
          /\ Len(page[i].links) <= Len(links)
      BY <1>2, <1>4
    <3>4. QED
      BY <2>1, <3>1, <3>2, <3>3
  <2>3. QED
    BY <2>1, <2>2
<1>6. 1 \in 1..Len(page[i].days)
  BY <1>4
<1>7. Head(days) = Head(page[i].days)
  BY <1>2, <1>3, <1>5, <1>6
<1>8. QED
  BY <1>5, <1>7 DEF Listed, days, links

\* Where every title is one the parser knows, each window is its card.
LEMMA KnownTitlesRead ==
    ASSUME NEW page \in Seq(Card), NEW span
    PROVE  ReadAsMeant(page, span, DiscoverFpt(page, span))
<1> DEFINE M == {i \in DOMAIN page : Complete(page[i])}
           meant == At(page, M)
<1>1. SUFFICES ASSUME DOMAIN page = TitlesOf(page)
              PROVE  Disclosures(page) = [k \in DOMAIN meant |-> AsMeant(meant[k])]
  BY DEF ReadAsMeant, DiscoverFpt
<1>2. ASSUME NEW i \in DOMAIN page
      PROVE  /\ DaysIn(CardWindow(page, i)) = page[i].days
             /\ LinksIn(CardWindow(page, i)) = page[i].links
  <2>1. DOMAIN page = 1..Len(page) /\ Len(page) \in Nat
    OBVIOUS
  <2>2. WindowEnd(page, i) \in i..Len(page)
        /\ (i + 1)..WindowEnd(page, i) \cap TitlesOf(page) = {}
    BY WindowEndIs
  <2>3. WindowEnd(page, i) = i
    <3>1. ASSUME i < WindowEnd(page, i) PROVE FALSE
      <4>1. i + 1 \in (i + 1)..WindowEnd(page, i) /\ i + 1 \in 1..Len(page)
        BY <2>1, <2>2, <3>1
      <4>2. QED
        BY <1>1, <2>1, <2>2, <4>1
    <3>2. QED
      BY <2>1, <2>2, <3>1
  <2>4. QED
    BY <2>3, WindowData DEF WindowRead
<1>3. Listed(page) = M
  BY <1>1, <1>2 DEF Listed, Complete
<1>4. \A i \in DOMAIN page : Disclosure(page, i) = AsMeant(page[i])
  BY <1>2 DEF Disclosure, AsMeant
<1>5. M \in SUBSET (1..Len(page)) /\ Len(page) \in Nat
  OBVIOUS
<1>6. \A k \in DOMAIN Ascending(M) : Ascending(M)[k] \in DOMAIN page
  <2>1. /\ Ascending(M) \in [1..Cardinality(M) -> M]
        /\ DOMAIN Ascending(M) = 1..Cardinality(M)
    <3> HIDE DEF M
    <3>1. QED
      BY <1>5, AscendingLists
  <2>2. QED
    BY <2>1
<1> HIDE DEF M
<1>7. Disclosures(page) = [k \in DOMAIN Ascending(M) |-> Disclosure(page, Ascending(M)[k])]
  BY <1>3 DEF Disclosures
<1>8. DOMAIN meant = DOMAIN Ascending(M)
      /\ \A k \in DOMAIN Ascending(M) : meant[k] = page[Ascending(M)[k]]
  BY DEF At
<1> HIDE DEF meant
<1>9. QED
  BY <1>4, <1>6, <1>7, <1>8

\* Where some are not, a complete card still comes first in what is read for it.
LEMMA OwnComesFirst ==
    ASSUME NEW page \in Seq(Card), NEW span
    PROVE  OwnBeforeBorrowed(page, span, DiscoverFpt(page, span))
<1> DEFINE list == Disclosures(page)
           found == DiscoverFpt(page, span)
<1>1. SUFFICES ASSUME NEW i \in TitlesOf(page), Complete(page[i]),
                      InWindow(span, Head(page[i].days))
              PROVE  \E d \in ToSet(found) :
                        /\ d.key = AsMeant(page[i]).key
                        /\ IsPrefix(page[i].links, d.links)
                        /\ \A l \in ToSet(d.links) \ ToSet(page[i].links) :
                              \E j \in (i + 1)..Len(page) :
                                  /\ l \in ToSet(page[j].links)
                                  /\ (i + 1)..j \cap TitlesOf(page) = {}
  BY DEF OwnBeforeBorrowed
<1> DEFINE d == Disclosure(page, i)
           links == LinksIn(CardWindow(page, i))
<1>2. i \in DOMAIN page /\ DOMAIN page = 1..Len(page) /\ Len(page) \in Nat
  BY DEF TitlesOf
<1>3. i \in Listed(page) /\ Head(DaysIn(CardWindow(page, i))) = Head(page[i].days)
  BY <1>1, CompleteIsListed
<1>4. /\ d.day = Head(page[i].days)
      /\ d.key = AsMeant(page[i]).key
      /\ d.links = links
  BY <1>3 DEF Disclosure, AsMeant
<1>5. DOMAIN list = 1..Cardinality(Listed(page)) /\ Cardinality(Listed(page)) \in Nat
      /\ \E k \in DOMAIN list : list[k] = d
  <2>1. Listed(page) \in SUBSET (1..Len(page))
    BY <1>2 DEF Listed, TitlesOf
  <2>2. /\ DOMAIN Ascending(Listed(page)) = 1..Cardinality(Listed(page))
        /\ Cardinality(Listed(page)) \in Nat
        /\ \E k \in 1..Cardinality(Listed(page)) : Ascending(Listed(page))[k] = i
    BY <1>2, <1>3, <2>1, AscendingLists
  <2>3. QED
    BY <2>2 DEF Disclosures
<1> HIDE DEF d, list
<1>6. d \in ToSet(found)
  <2> DEFINE S == {k \in DOMAIN list : InWindow(span, list[k].day)}
  <2>1. PICK k \in S : list[k] = d
    BY <1>1, <1>4, <1>5
  <2>2. S \in SUBSET (1..Cardinality(Listed(page)))
    BY <1>5
  <2>3. found = At(list, S)
    BY DEF DiscoverFpt, Within, list
  <2> HIDE DEF S, found
  <2>4. list[k] \in ToSet(At(list, S))
    BY <1>5, <2>2, AtHasAll
  <2>5. QED
    BY <2>1, <2>3, <2>4
<1> HIDE DEF found
<1>7. /\ page[i].links \in Seq(Links) /\ links \in Seq(Links)
      /\ Len(page[i].links) <= Len(links)
      /\ \A p \in 1..Len(page[i].links) : links[p] = page[i].links[p]
      /\ From(links, page[i].links, [j \in DOMAIN page |-> page[j].links],
              i + 1, WindowEnd(page, i))
  BY <1>2, WindowData DEF WindowRead
<1>8. WindowEnd(page, i) \in i..Len(page)
      /\ (i + 1)..WindowEnd(page, i) \cap TitlesOf(page) = {}
  BY <1>2, WindowEndIs
<1> HIDE DEF links
<1>9. IsPrefix(page[i].links, links)
  <2> DEFINE own == page[i].links
  <2>1. Len(own) \in Nat /\ Len(links) \in Nat /\ own \in Seq(Links)
    BY <1>7
  <2>2. \A p \in 1..Len(own) : own[p] \in Links /\ links[p] = own[p]
    BY <1>7
  <2>3. Len(own) <= Len(links)
    BY <1>7
  <2> HIDE DEF own
  <2>4. SubSeq(own, 1, Len(own)) = [p \in 1..Len(own) |-> own[p]]
    BY <2>1, <2>2
  <2>5. SubSeq(links, 1, Len(own)) = [p \in 1..Len(own) |-> links[p]]
    BY <1>7, <2>1, <2>2, <2>3
  <2>6. SubSeq(own, 1, Len(own)) = SubSeq(links, 1, Len(own))
    BY <2>2, <2>4, <2>5
  <2>7. QED
    BY <2>3, <2>6 DEF IsPrefix, own
<1>10. ASSUME NEW l \in ToSet(links) \ ToSet(page[i].links)
       PROVE  \E j \in (i + 1)..Len(page) :
                  /\ l \in ToSet(page[j].links)
                  /\ (i + 1)..j \cap TitlesOf(page) = {}
  <2>1. PICK p \in 1..Len(links) : l = links[p]
    BY <1>7 DEF ToSet
  <2>2. ~ (p <= Len(page[i].links))
    <3>1. ASSUME p <= Len(page[i].links) PROVE FALSE
      <4>1. p \in 1..Len(page[i].links) /\ links[p] = page[i].links[p]
        BY <1>7, <3>1
      <4>2. p \in DOMAIN page[i].links
        BY <1>7, <4>1
      <4>3. QED
        BY <2>1, <4>1, <4>2 DEF ToSet
    <3>2. QED
      BY <3>1
  <2>3. PICK j \in (i + 1)..WindowEnd(page, i) : \E q \in 1..Len(page[j].links) :
            links[p] = page[j].links[q]
    <3>1. PICK j \in (i + 1)..WindowEnd(page, i) :
              \E q \in 1..Len([k \in DOMAIN page |-> page[k].links][j]) :
                  links[p] = [k \in DOMAIN page |-> page[k].links][j][q]
      BY <1>7, <2>2 DEF From
    <3>2. j \in DOMAIN page
      BY <1>2, <1>8
    <3>3. QED
      BY <3>1, <3>2
  <2>4. j \in (i + 1)..Len(page) /\ (i + 1)..j \subseteq (i + 1)..WindowEnd(page, i)
    BY <1>2, <1>8
  <2>5. l \in ToSet(page[j].links)
    <3>1. page[j] \in Card
      BY <1>2, <2>4
    <3>2. page[j].links \in Seq(Links)
      BY <3>1 DEF Card
    <3>3. QED
      BY <2>1, <2>3, <3>2 DEF ToSet
  <2>6. QED
    BY <1>8, <2>4, <2>5
<1>11. QED
  BY <1>4, <1>6, <1>9, <1>10

\* Every title that is listed is a document of its card and the unknown ones below it.
LEMMA ListedFromCard ==
    ASSUME NEW page \in Seq(Card), NEW i \in Listed(page)
    PROVE  FromCard(page, i, Disclosure(page, i))
<1> DEFINE d == Disclosure(page, i)
           days == DaysIn(CardWindow(page, i))
           links == LinksIn(CardWindow(page, i))
           e == WindowEnd(page, i)
<1>1. i \in DOMAIN page /\ days # << >>
  BY DEF Listed, TitlesOf
<1>2. WindowRead(page, i, days, links)
  BY <1>1, WindowData
<1>3. /\ d.day = Head(days) /\ d.links = links
      /\ d.key = <<page[i].title.name, d.day>>
      /\ d.scope = ScopeOf(page[i].title) /\ d.audit = AuditOf(page[i].title)
  BY DEF Disclosure
<1> HIDE DEF d, days, links
<1>4. i..e \subseteq Reach(page, i)
  <2>1. e \in i..Len(page) /\ (i + 1)..e \cap TitlesOf(page) = {} /\ i \in Nat
    BY <1>1, WindowEndIs
  <2> HIDE DEF e
  <2>2. \A j \in i..e : j \in i..Len(page) /\ (i + 1)..j \subseteq (i + 1)..e
    BY <2>1
  <2>3. QED
    BY <2>1, <2>2 DEF Reach
<1>5. \E j \in Reach(page, i) : /\ page[j].days # << >> /\ d.day = Head(page[j].days)
                                 /\ \A l \in i..(j - 1) : page[l].days = << >>
  BY <1>1, <1>2, <1>3, <1>4 DEF WindowRead
<1>6. ASSUME NEW link \in ToSet(d.links)
      PROVE  \E j \in Reach(page, i) : link \in ToSet(page[j].links)
  <2>1. /\ page[i].links \in Seq(Links) /\ links \in Seq(Links)
        /\ \A p \in 1..Len(page[i].links) : links[p] = page[i].links[p]
        /\ From(links, page[i].links, [j \in DOMAIN page |-> page[j].links], i + 1, e)
    BY <1>2 DEF WindowRead
  <2>2. PICK p \in 1..Len(links) : link = links[p]
    BY <1>3, <1>6, <2>1 DEF ToSet
  <2>3. e \in i..Len(page) /\ i \in Nat /\ DOMAIN page = 1..Len(page) /\ Len(page) \in Nat
        /\ 1 <= i
    BY <1>1, WindowEndIs
  <2> HIDE DEF e
  <2>4. CASE p <= Len(page[i].links)
    <3>1. p \in 1..Len(page[i].links)
      BY <2>1, <2>4
    <3>2. link = page[i].links[p] /\ p \in DOMAIN page[i].links
      BY <2>1, <2>2, <3>1
    <3>3. i \in i..e
      BY <2>3
    <3>4. QED
      BY <1>4, <3>2, <3>3 DEF ToSet
  <2>5. CASE ~ (p <= Len(page[i].links))
    <3>1. PICK j \in (i + 1)..e : \E q \in 1..Len([k \in DOMAIN page |-> page[k].links][j]) :
              links[p] = [k \in DOMAIN page |-> page[k].links][j][q]
      BY <2>1, <2>5 DEF From
    <3>2. j \in i..e /\ j \in DOMAIN page
      BY <2>3
    <3>3. PICK q \in 1..Len(page[j].links) : links[p] = page[j].links[q]
      BY <3>1, <3>2
    <3>4. page[j] \in Card
      BY <3>2
    <3>5. page[j].links \in Seq(Links)
      BY <3>4 DEF Card
    <3>6. q \in DOMAIN page[j].links
      BY <3>3, <3>5
    <3>7. QED
      BY <1>4, <2>2, <3>2, <3>3, <3>6 DEF ToSet
  <2>6. QED
    BY <2>4, <2>5
<1>7. QED
  BY <1>3, <1>5, <1>6 DEF FromCard, d

\* What is found lists titles of the page in order, each once.
LEMMA FoundFromCards ==
    ASSUME NEW page \in Seq(Card), NEW span
    PROVE  FromCards(page, span, DiscoverFpt(page, span))
<1> DEFINE L == Listed(page)
           list == Disclosures(page)
           S == {k \in DOMAIN list : InWindow(span, list[k].day)}
           found == DiscoverFpt(page, span)
           card == [k \in DOMAIN found |-> Ascending(L)[Ascending(S)[k]]]
<1>1. L \in SUBSET (1..Len(page)) /\ Len(page) \in Nat /\ L \subseteq TitlesOf(page)
  BY DEF Listed, TitlesOf
<1>2. /\ Cardinality(L) \in Nat
      /\ DOMAIN Ascending(L) = 1..Cardinality(L)
      /\ Ascending(L) \in [1..Cardinality(L) -> L]
      /\ \A a, b \in 1..Cardinality(L) : a < b => Ascending(L)[a] < Ascending(L)[b]
  <2> HIDE DEF L
  <2>1. QED
    BY <1>1, AscendingLists
<1>3. DOMAIN list = 1..Cardinality(L)
      /\ \A a \in 1..Cardinality(L) : list[a] = Disclosure(page, Ascending(L)[a])
  BY <1>2 DEF Disclosures
<1>4. S \in SUBSET (1..Cardinality(L)) /\ \A a \in S : InWindow(span, list[a].day)
  BY <1>3
<1>5. found = At(list, S)
  BY DEF DiscoverFpt, Within
<1> HIDE DEF L, list, S, found
<1>6. /\ DOMAIN Ascending(S) = 1..Cardinality(S) /\ Cardinality(S) \in Nat
      /\ Ascending(S) \in [1..Cardinality(S) -> S]
      /\ \A k, l \in 1..Cardinality(S) : k < l => Ascending(S)[k] < Ascending(S)[l]
  BY <1>2, <1>4, AscendingLists
<1>7. DOMAIN found = 1..Cardinality(S)
      /\ \A k \in 1..Cardinality(S) : found[k] = list[Ascending(S)[k]]
  BY <1>5, <1>6 DEF At
<1>8. \A k \in DOMAIN found : /\ Ascending(S)[k] \in S
                               /\ Ascending(S)[k] \in 1..Cardinality(L)
                               /\ card[k] \in L /\ card[k] = Ascending(L)[Ascending(S)[k]]
  BY <1>2, <1>4, <1>6, <1>7
<1>9. card \in [DOMAIN found -> TitlesOf(page)]
  BY <1>1, <1>8
<1>10. \A k, l \in DOMAIN found : k < l => card[k] < card[l]
  BY <1>2, <1>6, <1>7, <1>8
<1>11. ASSUME NEW k \in DOMAIN found
       PROVE  FromCard(page, card[k], found[k]) /\ InWindow(span, found[k].day)
  <2>1. found[k] = list[Ascending(S)[k]] /\ Ascending(S)[k] \in 1..Cardinality(L)
    BY <1>7, <1>8
  <2>2. found[k] = Disclosure(page, card[k]) /\ card[k] \in L
    BY <1>3, <1>8, <2>1
  <2>3. FromCard(page, card[k], found[k])
    <3> HIDE DEF card
    <3>1. QED
      BY <2>2, ListedFromCard DEF L
  <2>4. InWindow(span, found[k].day)
    BY <1>4, <1>8, <2>1
  <2>5. QED
    BY <2>3, <2>4
<1> HIDE DEF card
<1>12. QED
  BY <1>9, <1>10, <1>11 DEF FromCards, found

-----------------------------------------------------------------------------
(* Every crawl.                                                            *)

\* Until the attachments are fetched the page is there, and what was found was read from it.
ReadInv ==
    /\ phase = "discover" /\ source = "ISSUER_IR" => feed \in Pages
    /\ phase = "found" /\ source = "ISSUER_IR" =>
          feed \in Pages /\ documents = DiscoverFpt(feed, window)

\* Only discover finds anything, and nothing else touches the page before the fetching.
LEMMA ReadStep == ASSUME ReadInv, [CrawlNext]_vars PROVE ReadInv'
<1>1. CASE DiscoverPage
  BY <1>1 DEF ReadInv, DiscoverPage, Found, crawl
<1>2. CASE DiscoverCatalog
  BY <1>2 DEF ReadInv, DiscoverCatalog, Found, crawl
<1>3. CASE SourceUnavailable \/ SourceEscapes \/ BeginFetch \/ FetchEnds
  BY <1>3 DEF ReadInv, SourceUnavailable, SourceEscapes, BeginFetch, FetchEnds
<1>4. CASE \E owned \in BOOLEAN : Fetch(owned)
  BY <1>4 DEF ReadInv, Fetch
<1>5. CASE Downloading \/ Ended \/ UNCHANGED vars
  BY <1>5 DEF ReadInv, Downloading, Ended, vars, crawl
<1>. QED
  BY <1>1, <1>2, <1>3, <1>4, <1>5 DEF CrawlNext

\* What a crawl finds on a disclosure page comes from its known cards: each complete one is a
\* document with its own date and key and its own links first, each document is of one known
\* card, and a link, or the date of a card that has none, that is not the card's own is that
\* of an unknown card right below it.
THEOREM CrawlReadsCards == CrawlSpec => []CardsReadAsMeant
<1>1. CrawlInit => ReadInv
  BY DEF CrawlInit, ReadInv, Stubs
<1>2. ReadInv /\ [CrawlNext]_vars => ReadInv'
  BY ReadStep
<1>3. ReadInv => CardsReadAsMeant
  <2>1. SUFFICES ASSUME ReadInv, phase = "found", source = "ISSUER_IR"
                 PROVE  /\ ReadAsMeant(feed, window, documents)
                        /\ OwnBeforeBorrowed(feed, window, documents)
                        /\ FromCards(feed, window, documents)
    BY DEF CardsReadAsMeant
  <2>2. feed \in Seq(Card) /\ documents = DiscoverFpt(feed, window)
    BY <2>1, CrawlAssumption DEF ReadInv
  <2>3. QED
    BY <2>2, KnownTitlesRead, OwnComesFirst, FoundFromCards
<1>. QED
  BY <1>1, <1>2, <1>3, PTL DEF CrawlSpec
=============================================================================

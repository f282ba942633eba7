------------------------------ MODULE Downloader ------------------------------
(***************************************************************************)
(* DocumentDownloader.download: one call fetches one attachment, with      *)
(* retries and exponential backoff, and refuses an HTML page delivered in  *)
(* place of a PDF.  The server is free: in every attempt it may send any   *)
(* of Bodies, break off, or answer nothing before the time limit of httpx. *)
(***************************************************************************)
EXTENDS Integers, Sequences

CONSTANTS
    MaxRetries,   \* max_retries: the number of attempts
    BackoffBase,  \* backoff_base_seconds
    MaxSize,      \* max_file_size_bytes
    Size,         \* the length of a sequence of chunks in bytes
    Bodies,       \* what a server or a file may hold: its kind and its chunks
    Requests      \* attachments: remote or a fixture file, name, reported type

\* "html" has a marker in its first 256 bytes, "page" is HTML that has none there, "pdf"
\* and "known" are recognised by their signature, "plain" is none of these.
ContentKinds == {"html", "page", "pdf", "known", "plain"}
Mimes == {"pdf", "html", "known", "octet"}
NoMime == "none"

Body == [kind : ContentKinds, chunks : Seq(Nat)]
Request == [remote : BOOLEAN, pdfName : BOOLEAN, reported : Mimes \cup {NoMime}]

ASSUME DownloaderAssumption ==
    /\ MaxRetries \in Nat \ {0} /\ BackoffBase \in Nat /\ MaxSize \in Nat
    /\ Bodies \subseteq Body
    /\ Requests \subseteq Request
    /\ \A b \in Bodies : Size[b.chunks] \in Nat
    /\ Bodies # {} /\ Requests # {}

VARIABLES
    call,       \* where the call stands
    request,    \* attachment
    client,     \* the client it opened itself; "given" when it was passed one
    attempt,    \* attempt, counted from 0
    body,       \* what is being sent
    received,   \* chunks
    total,      \* total
    lastError,  \* last_error
    slept,      \* seconds slept so far
    outcome

progress == <<attempt, body, received, total, lastError, slept>>
dlvars == <<call, request, client, progress, outcome>>

Calls == {"idle", "attempt", "stream", "sleep", "check", "close", "ended"}
Ongoing == Calls \ {"idle", "ended"}
Outcomes == {"none", "delivered", "download_error", "escaped"}
Errors == {"none", "transport", "oversized", "missing"}

DownloaderInit ==
    /\ call = "idle" /\ client = "given" /\ outcome = "none"
    /\ request = CHOOSE r \in Requests : TRUE
    /\ body = CHOOSE b \in Bodies : TRUE
    /\ attempt = 0 /\ received = << >> /\ total = 0 /\ lastError = "none" /\ slept = 0

-----------------------------------------------------------------------------
Download(wanted, owned) ==
    /\ call \in {"idle", "ended"}
    /\ call' = "attempt" /\ request' = wanted /\ outcome' = "none"
    /\ client' = IF owned THEN "open" ELSE "given"
    /\ attempt' = 0 /\ lastError' = "none" /\ slept' = 0
    /\ UNCHANGED <<body, received, total>>

\* Mutant: one attempt too few.
AttemptFailsEarly(error) ==
    /\ lastError' = error
    /\ IF attempt + 2 >= MaxRetries
       THEN call' = "close" /\ outcome' = "download_error"
       ELSE call' = "sleep" /\ UNCHANGED outcome
    /\ UNCHANGED <<request, client, attempt, slept>>

\* An httpx.HTTPError or a DownloadError inside an attempt, whatever its cause.
AttemptFails(error) ==
    /\ lastError' = error
    /\ IF attempt + 1 >= MaxRetries
       THEN call' = "close" /\ outcome' = "download_error"
       ELSE call' = "sleep" /\ UNCHANGED outcome
    /\ UNCHANGED <<request, client, attempt, slept>>

Starts == call = "attempt"

\* Mutant: the chunks of a broken attempt are kept.
AnswerKeeping ==
    /\ Starts /\ request.remote
    /\ call' = "stream" /\ body' \in Bodies /\ total' = 0
    /\ UNCHANGED <<request, client, attempt, received, lastError, slept, outcome>>

Answer ==
    /\ Starts /\ request.remote
    /\ call' = "stream" /\ body' \in Bodies /\ received' = << >> /\ total' = 0
    /\ UNCHANGED <<request, client, attempt, lastError, slept, outcome>>

NoAnswer ==
    /\ Starts /\ request.remote
    /\ AttemptFails("transport") /\ UNCHANGED <<body, received, total>>

\* Reading a fixture file: its size is looked at once it is read.
ReadFixture ==
    /\ Starts /\ ~ request.remote
    /\ body' \in Bodies /\ received' = body'.chunks /\ total' = Size[body'.chunks]
    /\ IF total' > MaxSize
       THEN AttemptFails("oversized")
       ELSE /\ call' = "check"
            /\ UNCHANGED <<request, client, attempt, lastError, slept, outcome>>

NoFixture ==
    /\ Starts /\ ~ request.remote
    /\ AttemptFails("missing") /\ UNCHANGED <<body, received, total>>

Rest == Len(received) < Len(body.chunks)
NextSize == total + body.chunks[Len(received) + 1]

Chunk ==
    /\ call = "stream" /\ Rest /\ NextSize <= MaxSize
    /\ received' = Append(received, body.chunks[Len(received) + 1])
    /\ total' = NextSize
    /\ UNCHANGED <<call, request, client, attempt, body, lastError, slept, outcome>>

Oversized ==
    /\ call = "stream" /\ Rest /\ NextSize > MaxSize
    /\ AttemptFails("oversized")
    /\ total' = NextSize
    /\ UNCHANGED <<body, received>>

BreaksOff ==
    /\ call = "stream"
    /\ AttemptFails("transport") /\ UNCHANGED <<body, received, total>>

StreamEnds ==
    /\ call = "stream" /\ ~ Rest
    /\ call' = "check"
    /\ UNCHANGED <<request, client, progress, outcome>>

\* Mutant: the attempts are not counted.
SleepUncounted ==
    /\ call = "sleep" /\ call' = "attempt"
    /\ UNCHANGED <<request, client, attempt, body, received, total, lastError, slept, outcome>>

Sleep ==
    /\ call = "sleep" /\ call' = "attempt"
    /\ slept' = slept + BackoffBase * 2 ^ attempt
    /\ attempt' = attempt + 1
    /\ UNCHANGED <<request, client, body, received, total, lastError, outcome>>

\* _detect_mime: the signature first, then what the source reports.
DetectMime ==
    IF body.kind \in {"pdf", "known"} THEN body.kind
    ELSE IF request.reported # NoMime THEN request.reported
    ELSE "octet"

Masquerades ==
    /\ request.pdfName \/ DetectMime = "pdf"
    /\ body.kind = "html" \/ DetectMime = "html"

\* A rejected page is not asked for again.
Inspect ==
    /\ call = "check" /\ call' = "close"
    /\ outcome' = IF Masquerades THEN "download_error" ELSE "delivered"
    /\ UNCHANGED <<request, client, progress>>

\* Any other exception, a cancellation among them, leaves through the finally clause.
Escapes ==
    /\ call \in {"attempt", "stream", "sleep", "check"}
    /\ call' = "close" /\ outcome' = "escaped"
    /\ UNCHANGED <<request, client, progress>>

Close ==
    /\ call = "close" /\ call' = "ended"
    /\ client' = IF client = "open" THEN "closed" ELSE client
    /\ UNCHANGED <<request, progress, outcome>>

Transfer == NoAnswer \/ Answer \/ Chunk \/ Oversized \/ StreamEnds \/ BreaksOff

Step ==
    \/ Transfer \/ ReadFixture \/ NoFixture
    \/ Sleep \/ Inspect \/ Escapes \/ Close

DownloaderNext == Step \/ \E wanted, owned : Download(wanted, owned)

\* Calls one after the other, of any attachments.
DownloaderSpec == DownloaderInit /\ [][DownloaderNext]_dlvars

-----------------------------------------------------------------------------
Whole == received = body.chunks

\* What is delivered is the whole of what one attempt was sent, within the size limit,
\* whatever earlier attempts left behind, and under a PDF's name or type it is no HTML
\* page that shows its marker.
DeliveredWhole ==
    outcome = "delivered" =>
        /\ Whole /\ total <= MaxSize
        /\ body.kind = "html" => ~ request.pdfName /\ request.reported # "pdf"

\* The pauses before attempt n, counted from 0, together.
Backoff[n \in Nat] == IF n = 0 THEN 0 ELSE Backoff[n - 1] + BackoffBase * 2 ^ (n - 1)

\* A call reports failure only when every attempt was made and failed, with the whole
\* backoff slept through and none after the last attempt; or, without a further attempt,
\* when the file came whole and is an HTML page.
GivesUpLast ==
    /\ call \in {"attempt", "stream", "check"} => slept = Backoff[attempt]
    /\ outcome = "download_error" =>
          /\ slept = Backoff[attempt]
          /\ (Whole /\ Masquerades) \/ attempt + 1 >= MaxRetries
=============================================================================

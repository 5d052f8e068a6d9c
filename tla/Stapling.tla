------------------------------ MODULE Stapling ------------------------------
(***************************************************************************)
(* OCSP stapling (ngx_event_openssl_stapling.c): the staple of one         *)
(* certificate, which clients are given until it ends, and the request for *)
(* the next one: the name is resolved, a connection made, the request sent,    *)
(* and the HTTP answer parsed as its pieces arrive.                        *)
(*                                                                         *)
(* Time is counted in units of 300 seconds.  An answer is a sequence of    *)
(* characters: "C" stands for the name Content-Type, "o" for the value     *)
(* application/ocsp-response, "r" and "n" for CR and LF.  What OpenSSL     *)
(* makes of the body is a choice.                                          *)
(***************************************************************************)
EXTENDS Integers, Sequences, FiniteSets, SequencesExt, FiniteSetsExt

CONSTANTS
  OcspTexts,    (* the answers of the responder *)
  OcspHour,     (* an hour, in units of 300 seconds *)
  OcspFaults,   (* bound on the failures of allocations and of OpenSSL *)
  OcspClock     (* bound on the clock *)

Forever == OcspClock + 1     (* NGX_MAX_TIME_T_VALUE *)

VARIABLES
  staple,    (* ngx_ssl_stapling_t, and what clients were given *)
  ocsp       (* ngx_ssl_ocsp_ctx_t with its connection *)

NoRequest ==
  [stage |-> "none", text |-> << >>, last |-> 0, pos |-> 1, process |-> "status", state |-> "start",
   code |-> 0, count |-> 0, name |-> 0, nameEnd |-> 0, value |-> 0, end |-> 0,
   rtimer |-> FALSE, wtimer |-> FALSE, sent |-> FALSE]

(* What a configuration makes of a certificate; an error of one of its     *)
(* parts would fail the configuration.                                     *)
Staple(host, valid) ==
  [host |-> host, valid |-> valid, now |-> 1, loading |-> FALSE, refresh |-> 0, faults |-> 0,
   ended |-> 0,          (* history: when the last request ended *)
   proper |-> TRUE]      (* history: answers were passed on as they should *)

StaplingFile == Staple(FALSE, Forever)
StaplingIssuer(inExtra, inStore) == IF inExtra \/ inStore THEN "ok" ELSE "declined"
StaplingResponder(configured, inCert, http) ==
  IF ~configured /\ ~inCert THEN "declined" ELSE IF http THEN "ok" ELSE "declined"

StaplingCertificate(file, issuer, responder) ==
  IF file THEN StaplingFile ELSE Staple(issuer = "ok" /\ responder = "ok", 0)

StaplingInit ==
  /\ \E file, extra, store, conf, cert, http \in BOOLEAN :
       staple = StaplingCertificate(file, StaplingIssuer(extra, store), StaplingResponder(conf, cert, http))
  /\ ocsp = NoRequest

-----------------------------------------------------------------------------
(* The parser *)

Digits == {"0", "1", "2"}
Letters == {"H", "T", "P", "C", "o", "a"}

(* One character of the status line: the next state. *)
StatusStep(state, ch) ==
  CASE state = "start" /\ ch = "H" -> "H"
    [] state = "H"     /\ ch = "T" -> "HT"
    [] state = "HT"    /\ ch = "T" -> "HTT"
    [] state = "HTT"   /\ ch = "P" -> "HTTP"
    [] state = "HTTP"  /\ ch = "/" -> "first_major"
    [] state = "first_major" /\ ch \in Digits \ {"0"} -> "major"
    [] state = "major" /\ ch = "." -> "first_minor"
    [] state = "major" /\ ch \in Digits -> "major"
    [] state \in {"first_minor", "minor"} /\ ch \in Digits -> "minor"
    [] state = "minor" /\ ch = " " -> "status"
    [] state = "status" /\ ch \in Digits \cup {" "} -> "status"
    [] state = "after_status" /\ ch \in {" ", "."} -> "text"
    [] state \in {"after_status", "text"} /\ ch = "r" -> "almost_done"
    [] state \in {"after_status", "text", "almost_done"} /\ ch = "n" -> "done"
    [] state = "text" /\ ch \notin {"r", "n"} -> "text"
    [] OTHER -> "error"

StatusChar(q, ch) ==
  LET next == StatusStep(q.state, ch)
      digit == q.state = "status" /\ ch \in Digits
      t == [q EXCEPT !.pos = @ + 1, !.state = next, !.count = IF digit THEN @ + 1 ELSE @,
                     !.code = IF digit THEN 10 * @ + (CHOOSE d \in 0 .. 2 : ToString(d) = ch) ELSE @]
  IN IF digit /\ t.count = 3 THEN [t EXCEPT !.state = "after_status"]
     ELSE IF next = "done" THEN [t EXCEPT !.state = "start", !.process = "headers"]
     ELSE t

HeaderStep(state, ch) ==
  CASE state = "start" /\ ch = "r" -> "header_almost_done"
    [] state \in {"start", "header_almost_done"} /\ ch = "n" -> "header_done"
    [] state = "start" /\ ch \in Letters \cup Digits -> "name"
    [] state = "name" /\ ch \in Letters \cup Digits -> "name"
    [] state = "name" /\ ch = ":" -> "before_value"
    [] state = "before_value" /\ ch = " " -> "before_value"
    [] state = "value" /\ ch = " " -> "after_value"
    [] state = "after_value" /\ ch = " " -> "after_value"
    [] state \in {"name", "before_value", "value", "after_value"} /\ ch = "r" -> "almost_done"
    [] state \in {"name", "before_value", "value", "after_value", "almost_done"} /\ ch = "n" -> "done"
    [] state \in {"before_value", "value", "after_value"} /\ ch \notin {" ", "r", "n"} -> "value"
    [] OTHER -> "error"

IsType(q) == SubSeq(q.text, q.name, q.nameEnd - 1) = << "C" >>
IsOcsp(q) == SubSeq(q.text, q.value, q.end - 1) = << "o" >>

HeaderChar(q, ch) ==
  LET next == HeaderStep(q.state, ch)
      t == [q EXCEPT
             !.pos = @ + 1, !.state = next,
             !.name = IF q.state = "start" THEN q.pos ELSE @,
             !.nameEnd = IF q.state = "name" /\ next # "name" THEN q.pos ELSE @,
             !.value = IF q.state \in {"name", "before_value"} THEN q.pos ELSE @,
             !.end = IF q.state \in {"name", "before_value", "value"} /\ next \in {"after_value", "almost_done", "done"}
                     THEN q.pos ELSE @]
  IN CASE next = "header_done" -> [t EXCEPT !.state = "start", !.process = "body"]
       [] next = "done" /\ IsType(t) /\ ~IsOcsp(t) -> [t EXCEPT !.state = "error"]
       [] next = "done" /\ ~(IsType(t) /\ ~IsOcsp(t)) -> [t EXCEPT !.state = "start"]
       [] OTHER -> t

(* ctx->process(): the characters that have come, up to the body. *)
RECURSIVE Process(_)
Process(q) ==
  IF q.state = "error" \/ q.process = "body" \/ q.pos > q.last THEN q
  ELSE IF q.process = "status" THEN Process(StatusChar(q, q.text[q.pos]))
  ELSE Process(HeaderChar(q, q.text[q.pos]))

-----------------------------------------------------------------------------
(* The request; x is a pair of a staple and a request *)

Lower(a, b) == IF a < b THEN a ELSE b
Upper(a, b) == IF a > b THEN a ELSE b

(* ngx_ssl_stapling_ocsp_handler() and ngx_ssl_ocsp_done(): valid is the   *)
(* end of a staple that OpenSSL has found good, and 0 if it did not.       *)
OcspHandler(s, valid) ==
  [s EXCEPT !.loading = FALSE, !.ended = s.now,
            !.valid = IF valid = 0 THEN @ ELSE valid,
            !.refresh = IF valid = 0 THEN s.now + 1
                        ELSE Upper(Lower(valid - 1, s.now + OcspHour), s.now + 1)]

OcspError(s) == /\ staple' = OcspHandler(s, 0) /\ ocsp' = NoRequest

(* The peer is connected at once, or will be; or it is not. *)
OcspConnect(s) ==
  \/ OcspError(s)
  \/ \E text \in OcspTexts :
       /\ ocsp' = [NoRequest EXCEPT !.stage = "open", !.text = text, !.rtimer = TRUE, !.wtimer = TRUE]
       /\ staple' = s

OcspRequest(s) ==
  \/ OcspError(s)                                              (* ngx_ssl_ocsp_create_request(), ngx_resolve_name() *)
  \/ OcspConnect(s)                                            (* there is no resolver *)
  \/ ocsp' = [NoRequest EXCEPT !.stage = "resolving"] /\ staple' = s

Due(s) == s.host /\ ~s.loading /\ s.refresh < s.now

(* ngx_ssl_certificate_status_callback() and ngx_ssl_stapling_update() *)
CertificateStatus ==
  /\ Due(staple)
  /\ \/ OcspRequest([staple EXCEPT !.loading = TRUE, !.proper = @ /\ staple.now > staple.ended])
     \/ /\ staple.faults < OcspFaults                        (* ngx_ssl_ocsp_start() fails *)
        /\ staple' = [staple EXCEPT !.loading = TRUE, !.faults = @ + 1]
        /\ ocsp' = ocsp

ResolveHandler ==
  /\ ocsp.stage = "resolving"
  /\ OcspError(staple) \/ OcspConnect(staple)

OcspWrite ==
  /\ ocsp.stage = "open" /\ ~ocsp.sent
  /\ \/ OcspError(staple)
     \/ ocsp' = [ocsp EXCEPT !.sent = TRUE, !.wtimer = FALSE] /\ staple' = staple
     \/ ocsp' = [ocsp EXCEPT !.wtimer = TRUE] /\ staple' = staple

OcspRead ==
  /\ ocsp.stage = "open" /\ ocsp.sent /\ ocsp.last < Len(ocsp.text)
  /\ \E k \in 1 .. Len(ocsp.text) - ocsp.last :
       LET q == Process([ocsp EXCEPT !.last = @ + k]) IN
       IF q.state = "error" THEN OcspError(staple) ELSE ocsp' = q /\ staple' = staple

(* A line, without its end; whether a text is a status line, headers, an   *)
(* empty line: the grammar that the parser is to follow.                   *)
Ends(text, i) == text[i] = "n"
LineStart(text, i) == i = 1 \/ Ends(text, i - 1)
Empty(text, i) == LineStart(text, i) /\ (text[i] = "n" \/ (i < Len(text) /\ text[i] = "r" /\ text[i + 1] = "n"))
Blank(text) == {i \in 2 .. Len(text) : Empty(text, i)}
BadType(text, i) ==
  LET line == SubSeq(text, i, Min({j \in i .. Len(text) : Ends(text, j)})) IN
  LineStart(text, i) /\ Len(line) > 1 /\ line[1] = "C" /\ line[2] \in {":", "r", "n"} /\ ~Contains(line, "o")
Answer(text, q) ==
  /\ Blank(text) # {}
  /\ SubSeq(text, 1, 5) = << "H", "T", "T", "P", "/" >>
  /\ q.code = 200 <=> IsPrefix(<< " ", "2", "0", "0" >>, SubSeq(text, 9, Len(text)))
  /\ \A i \in 2 .. Min(Blank(text)) - 1 : ~BadType(text, i)
  /\ q.pos = Min(Blank(text)) + IF text[Min(Blank(text))] = "n" THEN 1 ELSE 2

(* The responder closes the connection: the body is all there is.          *)
OcspClosed ==
  /\ ocsp.stage = "open"
  /\ \E valid \in {0} \cup IF ocsp.process = "body" /\ ocsp.code = 200 THEN staple.now + 1 .. Forever ELSE {} :
       /\ staple' = [OcspHandler(staple, valid) EXCEPT
                       !.proper = @ /\ (ocsp.process = "body" => Answer(SubSeq(ocsp.text, 1, ocsp.last), ocsp))]
       /\ ocsp' = NoRequest

OcspTimeout ==
  /\ ocsp.stage = "open" /\ (ocsp.rtimer \/ ocsp.wtimer)
  /\ OcspError(staple)

OcspTick == staple.now < OcspClock /\ staple' = [staple EXCEPT !.now = @ + 1] /\ ocsp' = ocsp

StaplingNext ==
  \/ CertificateStatus \/ ResolveHandler \/ OcspWrite \/ OcspRead \/ OcspClosed \/ OcspTimeout \/ OcspTick

-----------------------------------------------------------------------------

(* The next staple is asked for before the one there ends where five       *)
(* minutes allow it, within an hour, and five minutes after the last try;  *)
(* a request belongs to a staple that is loading; an answer counts as the  *)
(* headers of its whole text say, in whatever pieces it came               *)
(* (ngx_ssl_stapling_ocsp_handler, ngx_ssl_ocsp_process_headers).          *)
StaplesAreGood ==
  /\ staple.refresh <= staple.now + OcspHour
  /\ staple.valid > staple.now /\ staple.refresh > staple.now + 1 => staple.refresh < staple.valid
  /\ ocsp.stage # "none" => staple.loading
  /\ staple.proper

(* A request ends, whatever the responder does. *)
RequestsEnd == ocsp.stage # "none" ~> ocsp.stage = "none"

(* The resolver tells its callers in the end, and a timer fires or is      *)
(* deleted; a socket that can be written to in the end reports it.         *)
StaplingFairness ==
  /\ []<>(ocsp.stage # "resolving")
  /\ []<>~ocsp.rtimer
  /\ []<>~ocsp.wtimer
=============================================================================

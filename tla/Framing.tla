------------------------------- MODULE Framing -------------------------------
(***************************************************************************)
(* One request/response exchange over the byte stream, as Session and      *)
(* ExplicitMessage both drive it: send the rest of the request, then       *)
(* receive a header, learn the body length from it, and receive the body.  *)
(***************************************************************************)
EXTENDS Encapsulation, TcpConnection

(* Move up to want - Len(rx) arrived units to rx.                          *)
Fill(rx, want, avail) ==
    LET n == Readable(want - Len(rx))
        k == IF n <= Len(avail) THEN n ELSE Len(avail)
    IN  [rx |-> rx \o SubSeq(avail, 1, k), in |-> SubSeq(avail, k + 1, Len(avail))]

(* Defect: the length in the header is not compared with the buffer.       *)
UncheckedLength(rx, want, max) ==
    LET first == Fill(rx, want, in)
        w(len) == HeaderLen + len
        got(len) == Fill(first.rx, w(len), first.in)
    IN  IF Len(rx) < HeaderLen /\ Len(first.rx) = HeaderLen
        THEN { [rx |-> got(len).rx, want |-> w(len), in |-> got(len).in, tcp |-> tcpState,
                st |-> IF Len(got(len).rx) = w(len) THEN "Ok" ELSE "Pending"]
               : len \in DecodedLengths(first.rx, max) }
        ELSE { [rx |-> first.rx, want |-> want, in |-> first.in, tcp |-> tcpState,
                st |-> IF Len(first.rx) = want THEN "Ok" ELSE "Pending"] }

(* Defect: rxExpected_ is not raised by the length of the body.            *)
HeaderOnly(rx, want, max) ==
    LET first == Fill(rx, want, in)
    IN  { [rx |-> first.rx, want |-> want, in |-> first.in, tcp |-> tcpState,
           st |-> IF Len(first.rx) = want THEN "Ok" ELSE "Pending"] }

(* The outcomes of readResponse(): the first fill stops at the header's    *)
(* last unit, where rxExpected_ becomes known; `max' bounds the body.      *)
ReadResponse(rx, want, max) ==
    LET Stop(a, w) ==
            IF Len(a.rx) = w
            THEN {[rx |-> a.rx, want |-> w, in |-> a.in, tcp |-> tcpState, st |-> "Ok"]}
            ELSE {[rx |-> a.rx, want |-> w, in |-> a.in, tcp |-> d.tcp, st |-> d.st]
                    : d \in ReadDry}
        first == Fill(rx, want, in)
    IN  IF Len(rx) < HeaderLen /\ Len(first.rx) = HeaderLen
        THEN UNION { IF len > max
                     THEN {[rx |-> first.rx, want |-> want, in |-> first.in,
                            tcp |-> tcpState, st |-> "Error"]}
                     ELSE Stop(Fill(first.rx, HeaderLen + len, first.in), HeaderLen + len)
                     : len \in DecodedLengths(first.rx, max) }
        ELSE Stop(first, want)

(* The outcomes of one poll of an exchange with `tx' still to send and `rx' *)
(* of `want' units received.  `sent' tells whether writePending() was Ok.   *)
Advance(tx, rx, want, max) ==
    UNION { IF w.st = "Ok"
            THEN {[tx |-> w.tx, rx |-> r.rx, want |-> r.want, out |-> w.out, in |-> r.in,
                   tcp |-> r.tcp, sent |-> TRUE, st |-> r.st]
                    : r \in ReadResponse(rx, want, max)}
            ELSE {[tx |-> w.tx, rx |-> rx, want |-> want, out |-> w.out, in |-> in,
                   tcp |-> w.tcp, sent |-> FALSE, st |-> w.st]}
            : w \in WriteAll(tx) }
=============================================================================

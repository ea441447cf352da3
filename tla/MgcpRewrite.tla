----------------------------- MODULE MgcpRewrite -----------------------------
(***************************************************************************)
(* The MGCP rewriter of the BSC NAT: bsc_mgcp_rewrite and patch_mgcp      *)
(* (bsc_mgcp_utils.c), a pure function from a message to a new message.  *)
(*                                                                         *)
(* A message is the sequence of its segments as strsep splits it at LF.   *)
(* Line text is abstracted to what the rewriter tells apart: the prefix   *)
(* it matches (the kind), a trailing CR, the length, the length of the    *)
(* transaction-id token of a verb line (0 when there is none), the        *)
(* Call Agent's endpoint of a verb line, and whether sscanf parses an     *)
(* m=audio line (ptOk) and the payload type it reads.  The output is the sequence of the pieces the    *)
(* code msgb_puts, in order; lengths are counted in bytes so that the     *)
(* fill of the output buffer is exact.  A behaviour is one call on one   *)
(* message, iteration by iteration.                                       *)
(***************************************************************************)
EXTENDS Integers, Sequences, SequencesExt

CONSTANTS
    Messages,       \* the messages (segment sequences) to rewrite
    Endpoints,      \* endpoint overrides: sccp->bsc_endp, or -1 for replies
    IpLen,          \* strlen(ip): the NAT's source address
    Port            \* the port written into m=audio lines

ASSUME RewriteParamsAssumption == IpLen \in Nat /\ Port \in Nat

Verbs == {"CRCX", "DLCX", "MDCX"}

\* if (length > 4096 - 256) return NULL.
MaxInput == 4096 - 256

\* msgb_alloc_headroom(4096, 128): the room msgb_put can hand out.
Tailroom == 4096 - 128

\* char buf[40] of patch_mgcp, which "%s" fills with the token and a NUL.
TidBuf == 40

\* Printed lengths of %d and of %x (a negative int prints as its 32-bit
\* two's complement: 8 hex digits).
DecDigits(n) == LET d == Cardinality({k \in 0 .. 9 : n >= 10^k}) IN IF d = 0 THEN 1 ELSE d
DecLen(n) == IF n < 0 THEN 1 + DecDigits(-n) ELSE DecDigits(n)
HexLen(n) ==
    IF n < 0 THEN 8
    ELSE LET d == Cardinality({k \in 0 .. 7 : n >= 16^k}) IN IF d = 0 THEN 1 ELSE d

EolLen(cr) == IF cr THEN 2 ELSE 1

-----------------------------------------------------------------------------
(* Output pieces: what one msgb_put appends.                               *)

\* patch_mgcp: "%s %s %x@mgw MGCP 1.0%s" with verb, token, endpoint, EOL.
VerbPiece(v, tid, x, cr) == [kind |-> v, tid |-> tid, endp |-> x, cr |-> cr]
IpStrPiece == [kind |-> "c=IN IP4 "]
IpAddrPiece == [kind |-> "ip"]
EolPiece(cr) == [kind |-> "eol", cr |-> cr]
\* "m=audio %d RTP/AVP %d%s" with the port, the payload and the EOL.
AudioPiece(pt, cr) == [kind |-> "m=audio", port |-> Port, pt |-> pt, cr |-> cr]
\* The token copied with a "\n" after it.
CopyPiece(seg) == [kind |-> "copy", seg |-> seg]
\* "a=fmtp:%d mode-set=2%s".
FmtpPiece(pt, cr) == [kind |-> "a=fmtp", pt |-> pt, cr |-> cr]
\* Bytes of the buffer the model does not track (left over or overwritten).
JunkPiece(n) == [kind |-> "junk", len |-> n]

PieceLen(p) ==
    CASE p.kind \in Verbs -> 4 + 1 + p.tid + 1 + HexLen(p.endp) + 13 + EolLen(p.cr)
      [] p.kind = "c=IN IP4 " -> 9
      [] p.kind = "ip" -> IpLen
      [] p.kind = "eol" -> EolLen(p.cr)
      [] p.kind = "m=audio" -> 8 + DecLen(p.port) + 9 + DecLen(p.pt) + EolLen(p.cr)
      [] p.kind = "copy" -> p.seg.len + 1
      [] p.kind = "a=fmtp" -> 7 + DecLen(p.pt) + 11 + EolLen(p.cr)
      [] p.kind = "junk" -> p.len

\* The bytes of the input: the segments and the LFs between them.
InputLen(m) == FoldLeft(LAMBDA n, s : n + s.len + 1, 0, m) - 1

\* strsep stops the loop when no LF follows: the last segment is never
\* processed.
Processed(m) == SubSeq(m, 1, Len(m) - 1)

-----------------------------------------------------------------------------
(* The locals of bsc_mgcp_rewrite: the output pieces, output->l3h and the *)
(* fill (as byte offsets from output->data), found_fmtp, payload, cr, and *)
(* how the call ends: "ok", "null" (returns NULL), "abort" (msgb_put      *)
(* finds no tailroom and panics) or "smash" (sscanf overflows buf[40]).   *)
Start == [out |-> <<>>, l3h |-> 0, fill |-> 0, foundFmtp |-> FALSE,
          payload |-> -1, cr |-> TRUE, status |-> "ok"]

\* output->l3h = msgb_put(output, n): the new piece goes at the tail and
\* l3h points at its start.
Put(st, p) ==
    IF st.status # "ok" THEN st
    ELSE IF st.fill + PieceLen(p) > Tailroom THEN [st EXCEPT !.status = "abort"]
    ELSE [st EXCEPT !.out = Append(@, p), !.l3h = st.fill,
                    !.fill = st.fill + PieceLen(p)]

\* What sprintf at output->l3h, followed by msgb_put, leaves in the buffer.
\* l3h is the start of the last piece put, not the tail, except before the
\* first put: the new line overwrites the last piece, and the bytes put at
\* the tail are its NUL and leftovers.  When l3h is not even the start of
\* the last piece, the model no longer tracks the content.
SprintfAtL3h(st, p) ==
    LET n == PieceLen(p)
        k == IF st.out = <<>> THEN 0 ELSE PieceLen(Last(st.out))
    IN  IF st.l3h = st.fill THEN Append(st.out, p)
        ELSE IF st.l3h = st.fill - k THEN Front(st.out) \o <<p, JunkPiece(k)>>
        ELSE <<JunkPiece(st.fill + n)>>

\* patch_mgcp(output, verb, token, endpoint, len, cr): a verb line without
\* a second token is dropped; the line is printed at l3h and then put.
PatchMgcp(st, s, endpoint) ==
    LET p == VerbPiece(s.kind, s.tid, endpoint, s.cr)
    IN  IF s.tid = 0 THEN st
        ELSE IF s.tid >= TidBuf THEN [st EXCEPT !.status = "smash"]
        ELSE IF st.fill + PieceLen(p) > Tailroom THEN [st EXCEPT !.status = "abort"]
        ELSE [st EXCEPT !.out = SprintfAtL3h(st, p), !.l3h = st.fill,
                        !.fill = st.fill + PieceLen(p)]

\* One iteration of the strsep loop on segment s.
RewriteStep(st, s, endpoint) ==
    LET st1 == [st EXCEPT !.cr = s.cr]
    IN  IF st.status # "ok" THEN st
        ELSE CASE s.kind \in Verbs -> PatchMgcp(st1, s, endpoint)
               [] s.kind = "c=IN IP4 " ->
                     Put(Put(Put(st1, IpStrPiece), IpAddrPiece), EolPiece(s.cr))
               [] s.kind = "m=audio" /\ ~s.ptOk -> [st1 EXCEPT !.status = "null"]
               [] s.kind = "m=audio" ->
                     Put([st1 EXCEPT !.payload = s.pt], AudioPiece(s.pt, s.cr))
               [] s.kind = "a=fmtp:" -> Put([st1 EXCEPT !.foundFmtp = TRUE], CopyPiece(s))
               [] OTHER -> Put(st1, CopyPiece(s))

\* Mutant: the a=fmtp line appended even when the message had one.
FinishIgnoresFmtp(st) ==
    IF st.status = "ok" /\ st.payload # -1 THEN Put(st, FmtpPiece(st.payload, st.cr))
    ELSE st

\* After the loop: an a=fmtp line for the last payload, with the last
\* token's line ending, unless the message had one.
Finish(st) ==
    IF st.status = "ok" /\ ~st.foundFmtp /\ st.payload # -1
    THEN Put(st, FmtpPiece(st.payload, st.cr))
    ELSE st

-----------------------------------------------------------------------------
(* bsc_mgcp_rewrite(input, length, endpoint, ip, port) on message msg      *)
(* with endpoint endp: the length check, one step per iteration of the    *)
(* strsep loop (pos is the next segment), then the a=fmtp append.         *)
VARIABLES msg, endp, st, pos, pc

vars == <<msg, endp, st, pos, pc>>

Init ==
    /\ msg \in Messages
    /\ endp \in Endpoints
    /\ st = Start
    /\ pos = 1
    /\ pc = "check"

\* if (length > 4096 - 256) return NULL.
RejectLong ==
    /\ pc = "check"
    /\ InputLen(msg) > MaxInput
    /\ st' = [st EXCEPT !.status = "null"]
    /\ pc' = "done"
    /\ UNCHANGED <<msg, endp, pos>>

StartLoop ==
    /\ pc = "check"
    /\ InputLen(msg) =< MaxInput
    /\ pc' = "loop"
    /\ UNCHANGED <<msg, endp, st, pos>>

\* token = strsep(&running, "\n") with running still non-NULL.
LoopStep ==
    /\ pc = "loop"
    /\ pos < Len(msg)
    /\ st.status = "ok"
    /\ st' = RewriteStep(st, msg[pos], endp)
    /\ pos' = pos + 1
    /\ UNCHANGED <<msg, endp, pc>>

\* The loop is over (running is NULL), or the call returned NULL or
\* panicked inside it.
LoopEnd ==
    /\ pc = "loop"
    /\ pos = Len(msg) \/ st.status # "ok"
    /\ st' = Finish(st)
    /\ pc' = "done"
    /\ UNCHANGED <<msg, endp, pos>>

Next == RejectLong \/ StartLoop \/ LoopStep \/ LoopEnd

\* A call ends in pc = "done", where nothing is enabled.
Spec == Init /\ [][Next]_vars

-----------------------------------------------------------------------------
(* The rewrite of spec section 4.3, line by line, as a reference.          *)

\* One LF-terminated line: a verb line gets the override endpoint (-1
\* keeps the Call Agent's endpoint), c=IN IP4 the NAT's address, m=audio
\* the NAT's port; anything else is copied.
SpecLine(s, endpoint) ==
    CASE s.kind \in Verbs /\ s.tid = 0 -> <<>>
      [] s.kind \in Verbs ->
            <<VerbPiece(s.kind, s.tid, IF endpoint = -1 THEN s.endp ELSE endpoint, s.cr)>>
      [] s.kind = "c=IN IP4 " -> <<IpStrPiece, IpAddrPiece, EolPiece(s.cr)>>
      [] s.kind = "m=audio" -> <<AudioPiece(s.pt, s.cr)>>
      [] OTHER -> <<CopyPiece(s)>>

\* The lines rewritten in order, and an a=fmtp line for the payload when an
\* m=audio line was seen and no a=fmtp line followed it.  Over-long input
\* and an unparseable m=audio line fail the whole rewrite.
SpecRewrite(m, endpoint) ==
    LET lines == Processed(m)
        audio == {i \in DOMAIN lines : lines[i].kind = "m=audio"}
        body  == FlattenSeq([i \in DOMAIN lines |-> SpecLine(lines[i], endpoint)])
        fmtp  == IF audio # {} /\ ~\E i \in DOMAIN lines :
                                       i > Max(audio) /\ lines[i].kind = "a=fmtp:"
                 THEN <<FmtpPiece(lines[Max(audio)].pt, Last(lines).cr)>>
                 ELSE <<>>
    IN  IF InputLen(m) > MaxInput \/ \E i \in audio : ~lines[i].ptOk
        THEN [ok |-> FALSE, out |-> <<>>]
        ELSE [ok |-> TRUE, out |-> body \o fmtp]

\* The outcome the caller sees: a message or NULL.
Outcome(r) == [ok |-> r.status = "ok", out |-> IF r.status = "ok" THEN r.out ELSE <<>>]

-----------------------------------------------------------------------------
(* Properties.                                                             *)

\* Spec section 4.3: bsc_mgcp_rewrite emits exactly the lines of the input
\* rewritten in order (verb lines with the override endpoint, c= and
\* m=audio lines with the NAT's address and port, the rest verbatim), plus
\* the a=fmtp line, and fails exactly when the input is too long or an
\* m=audio line does not parse; -1 leaves the endpoint id alone.
RewriteMatchesSpec == pc = "done" => Outcome(st) = SpecRewrite(msg, endp)

\* The comment before the a=fmtp append: the output buffer keeps 128 bytes
\* of slack past any accepted input (spec section 4.3), so no msgb_put of
\* the rewrite runs out of tailroom and panics.
RewriteFitsBuffer == st.status # "abort"
=============================================================================

--------------------------- MODULE MCMgcpRewrite ---------------------------
(***************************************************************************)
(* Messages for the runs of MgcpRewrite.  A segment's length counts the   *)
(* bytes of the text given in its comment, and its CR; a payload of -1   *)
(* marks an m=audio line sscanf cannot parse.                             *)
(***************************************************************************)
EXTENDS MgcpRewrite

Seg(kind, cr, len, tid, ep, pt) ==
    [kind |-> kind, cr |-> cr, len |-> len + (IF cr THEN 1 ELSE 0),
     tid |-> tid, endp |-> ep, ptOk |-> pt >= 0, pt |-> pt]

\* "CRCX 1234 1@mgw MGCP 1.0" (the token has t characters), or "CRCX ".
VerbSeg(v, cr, t) == Seg(v, cr, IF t = 0 THEN 5 ELSE 20 + t, t, 1, 0)

\* The command lines the Call Agent sends, with and without a token.
MCVerbSegs == {VerbSeg(v, cr, t) : v \in Verbs, cr \in BOOLEAN, t \in {0, 4}}

\* "c=IN IP4 1.1.1.1", "m=audio 4000 RTP/AVP 8", "m=audio 4000",
\* "a=fmtp:8 mode-set=2", the empty line and "Z: noanswer".
MCBodySegs ==
    UNION {{Seg("c=IN IP4 ", cr, 16, 0, 0, 0),
            Seg("m=audio", cr, 22, 0, 0, 8),
            Seg("m=audio", cr, 12, 0, 0, -1),
            Seg("a=fmtp:", cr, 19, 0, 0, 0),
            Seg("other", cr, 0, 0, 0, 0),
            Seg("other", cr, 11, 0, 0, 0)} : cr \in BOOLEAN}

\* What follows the last LF: nothing, or an unterminated "a=ptime:20".
MCTailSegs == {Seg("other", FALSE, 0, 0, 0, 0), Seg("other", FALSE, 10, 0, 0, 0)}

\* Up to three body lines, an a=fmtp attribute never before the m=audio
\* line it belongs to (SDP puts media attributes after the media line).
MCBodies ==
    {b \in UNION {[1 .. n -> MCBodySegs] : n \in 0 .. 3} :
        \A i, j \in DOMAIN b : i < j => ~(b[i].kind = "a=fmtp:" /\ b[j].kind = "m=audio")}

\* A single MGCP command: the command line first, then parameter and SDP
\* lines.
MCCommands == {<<v>> \o b \o <<t>> : v \in MCVerbSegs, b \in MCBodies, t \in MCTailSegs}

\* A command with one long line, of 3840 bytes in all (the longest the
\* rewriter takes) or 3841.
MCBoundary ==
    {<<VerbSeg("CRCX", TRUE, 4), Seg("other", FALSE, p, 0, 0, 0),
       Seg("other", FALSE, 0, 0, 0, 0)>> : p \in {3813, 3814}}

MCCommandsAndBoundary == MCCommands \cup MCBoundary

\* Two commands piggybacked in one datagram (RFC 3435 section 3.5), the
\* second after one line of the first.
MCPiggybacked ==
    {<<VerbSeg(v, cr, 4), x, VerbSeg(w, cr, 4), t>> :
        v, w \in Verbs, cr \in BOOLEAN, x \in MCBodySegs, t \in MCTailSegs}

\* A command with a short transaction id or the longest that patch_mgcp's
\* buf[40] holds, then a long line and n short "c=IN IP4 " lines, each of
\* which grows by the address.
MCStressed ==
    {<<VerbSeg("CRCX", FALSE, t), Seg("other", FALSE, p, 0, 0, 0)>>
        \o [i \in 1 .. n |-> Seg("c=IN IP4 ", FALSE, 9, 0, 0, 0)]
        \o <<Seg("other", FALSE, 0, 0, 0, 0)>> :
            t \in {4, 39}, p \in {3000, 3600, 3700}, n \in 0 .. 12}

\* Call Agent endpoints 1 and 0x21 as BSC endpoints; "1.1.1.1" and "255.255.255.255" as addresses.
MCEndpoints == {1, 33}
MCShortIp == 7
MCLongIp == 15
MCPort == 4000
=============================================================================

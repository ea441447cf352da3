---------------------------- MODULE CicCodecProofs ----------------------------
(***************************************************************************)
(* What the CIC conversions of bsc_mgcp_utils.c compute, for every value: *)
(* the decoding of bsc_mgcp_assign_patch is the CIC modulo 8192 (32       *)
(* timeslots times the 256 multiplexes a uint8_t holds), the spec's is the *)
(* CIC itself, and create_cic followed by the decoding gives back every    *)
(* endpoint below 8192.  The run cic_codec finds one CIC on which the two  *)
(* decodings differ; here the set of all such CICs is determined.         *)
(***************************************************************************)
EXTENDS CicCodec, TLAPS

\* The decoding of bsc_mgcp_assign_patch keeps the CIC modulo 8192: the
\* 5 timeslot bits, and the multiplex cut to 8 bits by the uint8_t.
LEMMA CicToEndpointMod ==
    ASSUME NEW c \in Nat
    PROVE  CicToEndpoint(c) = c % 8192
<1>. DEFINE q == c \div 32
            r == c % 32
            k == q \div 256
            m == q % 256
<1>1. c = 32 * q + r /\ r \in 0 .. 31 /\ q \in Nat
  OBVIOUS
<1>2. (c - r) \div 32 = q
  BY <1>1
<1>3. q = 256 * k + m /\ m \in 0 .. 255 /\ k \in Nat
  BY <1>1
<1> HIDE DEF q, r, k, m
<1>4. c = 8192 * k + (32 * m + r)
  BY <1>1, <1>3
<1>5. 32 * m + r \in 0 .. 8191
  BY <1>1, <1>3
<1>6. c % 8192 = 32 * m + r
  <2>1. (8192 * k + (32 * m + r)) % 8192 = 32 * m + r
    BY <1>1, <1>3
  <2>. QED
    BY <1>4, <2>1
<1>. QED
  BY <1>2, <1>6 DEF CicToEndpoint, TimeslotToEndpoint, q, r, m

\* The spec's decoding (multiplex cic >> 5, timeslot cic & 0x1f) names the
\* endpoint whose number is the CIC.
LEMMA SpecCicEndpointId ==
    ASSUME NEW c \in Nat
    PROVE  SpecCicEndpoint(c) = c
BY DEF SpecCicEndpoint, TimeslotToEndpoint

\* Spec section 4.1 against bsc_mgcp_assign_patch, lines 192-197: a 16-bit
\* CIC is bound to the endpoint the spec names exactly when it is below
\* 8192; every larger CIC aliases the CIC 8192 lower, so it passes the
\* range check against number_endpoints whenever that one does.
THEOREM CicDecodeAgreesExactlyBelow8192 ==
    ASSUME NEW c \in Nat, c =< 65535
    PROVE  /\ CicToEndpoint(c) = SpecCicEndpoint(c) <=> c < 8192
           /\ c >= 8192 => CicToEndpoint(c) = CicToEndpoint(c - 8192)
<1>2. CicToEndpoint(c) = c % 8192
  BY CicToEndpointMod
<1>3. SpecCicEndpoint(c) = c
  BY SpecCicEndpointId
<1>4. c >= 8192 => CicToEndpoint(c - 8192) = (c - 8192) % 8192
  <2>1. c >= 8192 => c - 8192 \in Nat
    OBVIOUS
  <2>. QED
    BY <2>1, CicToEndpointMod
<1>5. c < 8192 => c % 8192 = c
  OBVIOUS
<1>6. c >= 8192 => c % 8192 < c
  OBVIOUS
<1>7. c >= 8192 => (c - 8192) % 8192 = c % 8192
  OBVIOUS
<1>. QED
  BY <1>2, <1>3, <1>4, <1>5, <1>6, <1>7

\* Spec section 8 (CIC round trip): create_cic, which the NAT uses towards
\* the MSC, and the decoding of bsc_mgcp_assign_patch are inverse on every
\* endpoint below 8192, whatever number_endpoints is.
THEOREM CicRoundTrip ==
    ASSUME NEW e \in Nat, e < 8192
    PROVE  CicToEndpoint(CreateCic(e)) = e
<1>1. CreateCic(e) = e
  <2>1. (EndpointMultiplex(e) * 32) + (EndpointTimeslot(e) % 32) = e
    BY DEF EndpointMultiplex, EndpointTimeslot
  <2>2. e % 65536 = e
    OBVIOUS
  <2>. QED
    BY <2>1, <2>2 DEF CreateCic
<1>2. CicToEndpoint(e) = e % 8192
  BY CicToEndpointMod
<1>. QED
  BY <1>1, <1>2
=============================================================================

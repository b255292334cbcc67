-------------------------- MODULE MCTransportToIox --------------------------
\* Small instances of TransportToIox for TLC.
EXTENDS TransportToIox

CONSTANTS s1, s2, s3, m1, m2, m3

\* m1 and m2 share a service, m3 has another one, and nothing is sent for s3.
MCServiceOf == (m1 :> s1) @@ (m2 :> s1) @@ (m3 :> s2)
MCSegmentsOf == (m1 :> 2) @@ (m2 :> 1) @@ (m3 :> 2)

\* The two segmented messages travel in datagrams; or the payload of each is
\* sent by DMA and its user header in a datagram.
NoBufferSegments == {}
PayloadSegments == {<<m1, 2>>, <<m3, 2>>}

\* The first segment of m1 comes again and again.
RepeatedHeader == {<<m1, 1>>}

\* One message of two datagrams, and one of a datagram and a payload sent by DMA.
MCServiceOfPair == (m1 :> s1) @@ (m3 :> s2)
MCSegmentsOfPair == (m1 :> 2) @@ (m3 :> 2)
OnePayloadSegment == {<<m3, 2>>}
=============================================================================
